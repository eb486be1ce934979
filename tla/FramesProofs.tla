---------------------------- MODULE FramesProofs ----------------------------
(***************************************************************************)
(* The virtual memory keeps what the processes write, its tables agree and *)
(* its clock spares the used pages: for every machine, any number of       *)
(* processes, frames, slots and values, under the hypotheses Calm below.   *)
(*                                                                         *)
(* vm is one record.  The proofs work on its fields (Fields), which every  *)
(* kernel function changes at a place or two (Put, Put2), so that each     *)
(* function has one lemma that says which.  A machine runs one process     *)
(* with evictions, swap and mappings (Solo), or a family of forked ones    *)
(* without swap (Fork); each has its invariant, a lemma for each of its    *)
(* changes and a lemma for each action.                                    *)
(***************************************************************************)
EXTENDS Frames, FiniteSetTheorems, TLAPS

\* The records vm ranges over, its fields taken from the given sets.
VmRec(A, B, C, D, E, F, G) ==
  [pages : A, pte : B, frames : C, frame_table : D, clock_start : E, swap : F, disk : G]

\* The fields of the record m, spelled out, so that the provers see an update
\* of m as updates of functions.
Fields(m, P, T, F, B, c, W, D) ==
  /\ m \in VmRec({m.pages}, {m.pte}, {m.frames}, {m.frame_table}, {m.clock_start}, {m.swap}, {m.disk})
  /\ m.pages = P /\ m.pte = T /\ m.frames = F /\ m.frame_table = B /\ m.clock_start = c
  /\ m.swap = W /\ m.disk = D

\* One changed place of a function, and of a function of functions.
Put(F, x, e) == [F EXCEPT ![x] = e]
Put2(F, p, x, e) == [F EXCEPT ![p] = [F[p] EXCEPT ![x] = e]]

\* The types of the fields: contents, owners, pages, entries, frames, slots.
Value == Written \cup {Zero, Image}
Owner == (Procs \X Nat) \cup {NoOwner}
PageRec == [kind : {"none", "uninit", "anon", "file"}, frame : Nat, slot : Int]
PteRec == [kva : Nat, p : BOOLEAN, w : BOOLEAN, a : BOOLEAN, d : BOOLEAN]
FrameRec == [live : BOOLEAN, page : Owner, ref_cnt : Int, data : Value]
SwapRec == [used : BOOLEAN, data : Value]

\* The updates of one page, one entry, one frame and one slot.
InFrame(x, f) == [x EXCEPT !.frame = f]
Stored(x, s) == [x EXCEPT !.frame = NULL, !.slot = s]
Anon(x) == [x EXCEPT !.kind = "anon", !.slot = None]
OfFile(x) == [x EXCEPT !.kind = "file"]
Unstored(x) == [x EXCEPT !.slot = None]
Entry(f, rw) == [kva |-> f, p |-> TRUE, w |-> rw, a |-> FALSE, d |-> FALSE]
Absent(t) == [t EXCEPT !.p = FALSE]
Clean(t) == [t EXCEPT !.d = FALSE]
Filled(x, d) == [x EXCEPT !.data = d]
OwnedBy(x, o) == [x EXCEPT !.page = o]
Counted(x, n) == [x EXCEPT !.ref_cnt = n]
Dead(x) == [x EXCEPT !.live = FALSE]
Taken(d) == [live |-> TRUE, page |-> NoOwner, ref_cnt |-> 1, data |-> d]
Saved(d) == [used |-> TRUE, data |-> d]
Unused(x) == [x EXCEPT !.used = FALSE]

\* A page put in a frame.
LEMMA InFrameFacts ==
  ASSUME NEW x \in PageRec, NEW f \in Nat
  PROVE  /\ InFrame(x, f) \in PageRec /\ InFrame(x, f).frame = f
         /\ InFrame(x, f).kind = x.kind /\ InFrame(x, f).slot = x.slot
  BY DEF PageRec, InFrame

\* A page put in a slot.
LEMMA StoredFacts ==
  ASSUME NEW x \in PageRec, NEW s \in Int
  PROVE  /\ Stored(x, s) \in PageRec /\ Stored(x, s).frame = NULL
         /\ Stored(x, s).kind = x.kind /\ Stored(x, s).slot = s
  BY DEF PageRec, Stored, NULL

\* A page given its kind, and one taken from its slot.
LEMMA KindFacts ==
  ASSUME NEW x \in PageRec
  PROVE  /\ Anon(x) \in PageRec /\ Anon(x).frame = x.frame /\ Anon(x).kind = "anon" /\ Anon(x).slot = None
         /\ OfFile(x) \in PageRec /\ OfFile(x).frame = x.frame
         /\ OfFile(x).kind = "file" /\ OfFile(x).slot = x.slot
         /\ Unstored(x) \in PageRec /\ Unstored(x).frame = x.frame
         /\ Unstored(x).kind = x.kind /\ Unstored(x).slot = None
<1>0. None \in Int /\ "anon" \in {"none", "uninit", "anon", "file"}
  BY DEF None
<1>1. Anon(x) \in PageRec /\ Anon(x).frame = x.frame /\ Anon(x).kind = "anon" /\ Anon(x).slot = None
  BY <1>0 DEF PageRec, Anon
<1>2. /\ OfFile(x) \in PageRec /\ OfFile(x).frame = x.frame
      /\ OfFile(x).kind = "file" /\ OfFile(x).slot = x.slot
  BY DEF PageRec, OfFile
<1>3. /\ Unstored(x) \in PageRec /\ Unstored(x).frame = x.frame
      /\ Unstored(x).kind = x.kind /\ Unstored(x).slot = None
  BY <1>0 DEF PageRec, Unstored
<1> QED BY <1>1, <1>2, <1>3

\* A new entry.
LEMMA EntryFacts ==
  ASSUME NEW f \in Nat, NEW rw \in BOOLEAN
  PROVE  /\ Entry(f, rw) \in PteRec /\ Entry(f, rw).kva = f /\ Entry(f, rw).p /\ Entry(f, rw).w = rw
         /\ ~Entry(f, rw).d
  BY DEF PteRec, Entry

\* An entry made absent, or clean.
LEMMA PteFacts ==
  ASSUME NEW t \in PteRec
  PROVE  /\ Absent(t) \in PteRec /\ ~Absent(t).p /\ Absent(t).d = t.d
         /\ Clean(t) \in PteRec /\ Clean(t).p = t.p /\ ~Clean(t).d
  BY DEF PteRec, Absent, Clean

\* No owner and every page are owners.
LEMMA OwnerFacts ==
  NoOwner \in Owner /\ \A p \in Procs, va \in Nat : <<p, va>> \in Owner
  BY Zenon DEF Owner

\* A frame filled.
LEMMA FilledFacts ==
  ASSUME NEW x \in FrameRec, NEW d \in Value
  PROVE  /\ Filled(x, d) \in FrameRec /\ Filled(x, d).data = d /\ Filled(x, d).live = x.live
         /\ Filled(x, d).page = x.page /\ Filled(x, d).ref_cnt = x.ref_cnt
  BY DEF FrameRec, Filled

\* A frame given to a page.
LEMMA OwnedByFacts ==
  ASSUME NEW x \in FrameRec, NEW o \in Owner
  PROVE  /\ OwnedBy(x, o) \in FrameRec /\ OwnedBy(x, o).data = x.data /\ OwnedBy(x, o).live = x.live
         /\ OwnedBy(x, o).page = o /\ OwnedBy(x, o).ref_cnt = x.ref_cnt
  BY DEF FrameRec, OwnedBy

\* A frame counted.
LEMMA CountedFacts ==
  ASSUME NEW x \in FrameRec, NEW n \in Int
  PROVE  /\ Counted(x, n) \in FrameRec /\ Counted(x, n).data = x.data /\ Counted(x, n).live = x.live
         /\ Counted(x, n).page = x.page /\ Counted(x, n).ref_cnt = n
  BY DEF FrameRec, Counted

\* A frame freed.
LEMMA DeadFacts ==
  ASSUME NEW x \in FrameRec
  PROVE  Dead(x) \in FrameRec /\ ~Dead(x).live
  BY DEF FrameRec, Dead

\* A frame taken.
LEMMA TakenFacts ==
  ASSUME NEW d \in Value
  PROVE  Taken(d) \in FrameRec /\ Taken(d).live /\ Taken(d).ref_cnt = 1 /\ Taken(d).data = d
<1> HIDE DEF NoOwner
<1> QED BY OwnerFacts DEF FrameRec, Taken

\* A slot taken, and one freed.
LEMMA SwapFacts ==
  ASSUME NEW x \in SwapRec, NEW d \in Value
  PROVE  /\ Saved(d) \in SwapRec /\ Saved(d).used /\ Saved(d).data = d
         /\ Unused(x) \in SwapRec /\ ~Unused(x).used /\ Unused(x).data = x.data
  BY DEF SwapRec, Saved, Unused

-----------------------------------------------------------------------------
(* What each function of the kernel does to the fields of the record. *)

\* The updates of the whole record that the kernel's functions are made of,
\* named so that each is met once.
LoseOf(m, q, va, f) == [m EXCEPT !.frames[f].page = NoOwner, !.pages[q][va].frame = NULL]
TableOf(m, b) == [m EXCEPT !.frame_table = b]
DataOf(m, f, x) == [m EXCEPT !.frames[f].data = x]
TakeOf(m, f) == [m EXCEPT !.frames[f] = [live |-> TRUE, page |-> NoOwner, ref_cnt |-> 1, data |-> @.data],
                          !.frame_table = Append(@, f)]
OwnOf(m, p, va, f) == [m EXCEPT !.frames[f].page = <<p, va>>, !.pages[p][va].frame = f]
PageOf(m, p, va, x) == [m EXCEPT !.pages[p][va] = x]
StoreOf(m, f, n) == [m EXCEPT !.frames[f].ref_cnt = n]
FreeOf(m, f) == [m EXCEPT !.frames[f].live = FALSE,
                          !.frame_table = [i \in DOMAIN @ |-> IF @[i] = f THEN NULL ELSE @[i]]]
Nulled(B, f) == [i \in DOMAIN B |-> IF B[i] = f THEN NULL ELSE B[i]]

\* pml4_set_page changes one entry.
LEMMA SetPage ==
  ASSUME NEW m, NEW P, NEW T, NEW F, NEW B, NEW c, NEW W, NEW D, Fields(m, P, T, F, B, c, W, D),
         NEW p, NEW va, NEW f, NEW rw
  PROVE  Fields(pml4_set_page(m, p, va, f, rw), P, Put2(T, p, va, Entry(f, rw)), F, B, c, W, D)
  BY DEF Fields, VmRec, pml4_set_page, Put2, Entry

\* pml4_clear_page clears one present bit.
LEMMA ClearPage ==
  ASSUME NEW m, NEW P, NEW T, NEW F, NEW B, NEW c, NEW W, NEW D, Fields(m, P, T, F, B, c, W, D),
         NEW p, NEW va
  PROVE  Fields(pml4_clear_page(m, p, va), P, Put2(T, p, va, Absent(T[p][va])), F, B, c, W, D)
  BY DEF Fields, VmRec, pml4_clear_page, Put2, Absent

\* anon_swap_out moves the content to the first free slot.
LEMMA AnonOut ==
  ASSUME NEW m, NEW P, NEW T, NEW F, NEW B, NEW c, NEW W, NEW D, Fields(m, P, T, F, B, c, W, D),
         NEW q, NEW va, NEW s, s = Min(free_slots(m)), NEW f, f = P[q][va].frame
  PROVE  Fields(anon_swap_out(m, q, va), Put2(P, q, va, Stored(P[q][va], s)), T,
                Put(F, f, OwnedBy(F[f], NoOwner)), B, c, Put(W, s, Saved(F[f].data)), D)
  BY DEF Fields, VmRec, anon_swap_out, Put2, Put, Stored, OwnedBy, Saved

\* A dirty page goes to the file and is clean; a clean one stays.
LEMMA WriteBack ==
  ASSUME NEW m, NEW P, NEW T, NEW F, NEW B, NEW c, NEW W, NEW D, Fields(m, P, T, F, B, c, W, D),
         NEW p, NEW q, NEW va
  PROVE  IF T[p][va].d
         THEN Fields(write_back(m, p, q, va), P, Put2(T, p, va, Clean(T[p][va])), F, B, c, W,
                     Put(D, va, F[P[q][va].frame].data))
         ELSE write_back(m, p, q, va) = m
  BY DEF Fields, VmRec, write_back, Put2, Put, Clean

\* A page and its frame part.
LEMMA LoseFrame ==
  ASSUME NEW m, NEW P, NEW T, NEW F, NEW B, NEW c, NEW W, NEW D, Fields(m, P, T, F, B, c, W, D),
         NEW q, NEW va, NEW f
  PROVE  Fields(LoseOf(m, q, va, f), Put2(P, q, va, InFrame(P[q][va], NULL)), T,
                Put(F, f, OwnedBy(F[f], NoOwner)), B, c, W, D)
  BY DEF Fields, VmRec, Put2, Put, LoseOf, InFrame, OwnedBy

\* A new frame table.
LEMMA TableSet ==
  ASSUME NEW m, NEW P, NEW T, NEW F, NEW B, NEW c, NEW W, NEW D, Fields(m, P, T, F, B, c, W, D),
         NEW b
  PROVE  Fields(TableOf(m, b), P, T, F, b, c, W, D)
  BY DEF Fields, VmRec, TableOf

\* A new content.
LEMMA DataSet ==
  ASSUME NEW m, NEW P, NEW T, NEW F, NEW B, NEW c, NEW W, NEW D, Fields(m, P, T, F, B, c, W, D),
         NEW f, NEW x
  PROVE  Fields(DataOf(m, f, x), P, T, Put(F, f, Filled(F[f], x)), B, c, W, D)
  BY DEF Fields, VmRec, Put, DataOf, Filled

\* A frame is taken and put on the table.
LEMMA TakeFrame ==
  ASSUME NEW m, NEW P, NEW T, NEW F, NEW B, NEW c, NEW W, NEW D, Fields(m, P, T, F, B, c, W, D),
         NEW f
  PROVE  Fields(TakeOf(m, f), P, T, Put(F, f, Taken(F[f].data)), Append(B, f), c, W, D)
  BY DEF Fields, VmRec, Put, TakeOf, Taken

\* list_push_back of an element that no list links.
LEMMA InsertLast ==
  ASSUME ~Reuse, NEW B, NEW f
  PROVE  frame_table_insert(B, f) = Append(B, f)
  BY DEF frame_table_insert

\* A page and a frame are linked.
LEMMA OwnFrame ==
  ASSUME NEW m, NEW P, NEW T, NEW F, NEW B, NEW c, NEW W, NEW D, Fields(m, P, T, F, B, c, W, D),
         NEW p, NEW va, NEW f
  PROVE  Fields(OwnOf(m, p, va, f), Put2(P, p, va, InFrame(P[p][va], f)), T,
                Put(F, f, OwnedBy(F[f], <<p, va>>)), B, c, W, D)
  BY DEF Fields, VmRec, Put2, Put, OwnOf, InFrame, OwnedBy

\* anon_initializer clears the frame unless it is shared.
LEMMA AnonInit ==
  ASSUME NEW m, NEW P, NEW T, NEW F, NEW B, NEW c, NEW W, NEW D, Fields(m, P, T, F, B, c, W, D),
         NEW p, NEW va, NEW f, f = P[p][va].frame
  PROVE  /\ F[f].ref_cnt <= 1 =>
              Fields(anon_initializer(m, p, va), Put2(P, p, va, Anon(P[p][va])), T,
                     Put(F, f, Filled(F[f], Zero)), B, c, W, D)
         /\ ~(F[f].ref_cnt <= 1) =>
              Fields(anon_initializer(m, p, va), Put2(P, p, va, Anon(P[p][va])), T,
                     Put(F, f, Filled(F[f], F[f].data)), B, c, W, D)
<1>1. PICK d : d = IF F[f].ref_cnt <= 1 THEN Zero ELSE F[f].data
  OBVIOUS
<1>2. Fields(anon_initializer(m, p, va), Put2(P, p, va, Anon(P[p][va])), T,
             Put(F, f, Filled(F[f], d)), B, c, W, D)
  BY <1>1 DEF Fields, VmRec, Put2, Put, anon_initializer, Anon, Filled
<1> QED BY <1>1, <1>2

\* file_backed_initializer sets the kind.
LEMMA FileInit ==
  ASSUME NEW m, NEW P, NEW T, NEW F, NEW B, NEW c, NEW W, NEW D, Fields(m, P, T, F, B, c, W, D),
         NEW p, NEW va
  PROVE  Fields(file_backed_initializer(m, p, va), Put2(P, p, va, OfFile(P[p][va])), T, F, B, c, W, D)
  BY DEF Fields, VmRec, Put2, file_backed_initializer, OfFile

\* anon_swap_in reads the slot and frees it.
LEMMA AnonIn ==
  ASSUME NEW m, NEW P, NEW T, NEW F, NEW B, NEW c, NEW W, NEW D, Fields(m, P, T, F, B, c, W, D),
         NEW p, NEW va, NEW f, f = P[p][va].frame, NEW s, s = P[p][va].slot
  PROVE  Fields(anon_swap_in(m, p, va), Put2(P, p, va, Unstored(P[p][va])), T,
                Put(F, f, Filled(F[f], W[s].data)), B, c, Put(W, s, Unused(W[s])), D)
  BY DEF Fields, VmRec, Put2, Put, anon_swap_in, Unstored, Filled, Unused

\* A new page.
LEMMA PageSet ==
  ASSUME NEW m, NEW P, NEW T, NEW F, NEW B, NEW c, NEW W, NEW D, Fields(m, P, T, F, B, c, W, D),
         NEW p, NEW va, NEW x
  PROVE  Fields(PageOf(m, p, va, x), Put2(P, p, va, x), T, F, B, c, W, D)
  BY DEF Fields, VmRec, Put2, PageOf

\* The stored count.
LEMMA StoreSet ==
  ASSUME NEW m, NEW P, NEW T, NEW F, NEW B, NEW c, NEW W, NEW D, Fields(m, P, T, F, B, c, W, D),
         NEW f, NEW n
  PROVE  Fields(StoreOf(m, f, n), P, T, Put(F, f, Counted(F[f], n)), B, c, W, D)
  BY DEF Fields, VmRec, StoreOf, Put, Counted

\* A frame is freed, and its element of the table is NULL.
LEMMA FreeSet ==
  ASSUME NEW m, NEW P, NEW T, NEW F, NEW B, NEW c, NEW W, NEW D, Fields(m, P, T, F, B, c, W, D),
         NEW f
  PROVE  Fields(FreeOf(m, f), P, T, Put(F, f, Dead(F[f])), Nulled(B, f), c, W, D)
  BY DEF Fields, VmRec, Put, FreeOf, Dead, Nulled

-----------------------------------------------------------------------------
(* One process alone. *)

\* The addresses, frames and slots of a machine, without reference to the
\* variable.
VA(mc) == mc.segs \cup mc.stack \cup mc.maps
Fr(mc) == 1 .. mc.frames
Sl(mc) == 0 .. mc.slots - 1

\* A machine the programs can run on.
MachineOk(mc) ==
  /\ mc.segs \subseteq Nat /\ mc.stack \subseteq Nat /\ mc.maps \subseteq Nat
  /\ mc.segs \cap mc.stack = {} /\ mc.segs \cap mc.maps = {} /\ mc.stack \cap mc.maps = {}
  /\ mc.frames \in Nat \ {0} /\ mc.slots \in Nat

\* The frame table: its elements are the frames in use, each once.  An element
\* may be NULL, left behind by a frame that munmap freed.
TableOk(mc, F, B) ==
  /\ \A i \in DOMAIN B : B[i] # NULL => B[i] \in Fr(mc) /\ F[B[i]].live
  /\ \A f \in Fr(mc) : F[f].live => \E i \in DOMAIN B : B[i] = f
  /\ \A i, j \in DOMAIN B : B[i] = B[j] /\ B[i] # NULL => i = j

\* The clock points at an element of the table, or restarts.  Only asked while
\* nothing is left behind on the table: the clock runs only then.
ClockOk(B, c) == (\A i \in DOMAIN B : B[i] # NULL) => c = NULL \/ \E i \in DOMAIN B : B[i] = c

\* What is in a page that was never touched, and in a mapped one not in memory.
Fresh(mc, D, va) == IF va \in mc.maps THEN D[va] ELSE IF va \in mc.segs THEN Image ELSE Zero

\* The types of what one process alone works on.
SoloType(mc, P, T, F, B, c, W, D, K) ==
  /\ P \in [VA(mc) -> PageRec] /\ T \in [VA(mc) -> PteRec] /\ F \in [Fr(mc) -> FrameRec]
  /\ B \in Seq(Nat) /\ c \in Nat
  /\ W \in [Sl(mc) -> SwapRec] /\ D \in [mc.maps -> Value] /\ K \in [VA(mc) -> Value]

\* One address of the process.  x is its page, t its entry, k what the process
\* last wrote there.  The entry and the page agree; the content is where
\* Content looks for it; a mapped page whose entry is clean is what the file
\* holds.  h is the frame the kernel has taken and not yet given to a page, or
\* NULL.
VaOk(mc, va, x, t, F, W, D, k, h) ==
  /\ t.p <=> x.frame # NULL
  /\ x.frame # NULL => /\ x.frame \in Fr(mc) /\ x.frame # h /\ F[x.frame].live
                       /\ F[x.frame].page = <<1, va>> /\ F[x.frame].data = k
                       /\ t.kva = x.frame /\ (t.w <=> va \notin mc.readonly)
  /\ x.slot # None => /\ x.slot \in Sl(mc) /\ W[x.slot].used /\ W[x.slot].data = k
                      /\ x.kind = "anon" /\ x.frame = NULL
  /\ x.kind = "none" \/ x.kind = "uninit" => x.frame = NULL
  /\ x.kind = "anon" => va \notin mc.maps /\ (x.frame = NULL => x.slot # None)
  /\ x.kind = "file" => va \in mc.maps
  /\ x.frame = NULL /\ x.slot = None => k = Fresh(mc, D, va)
  /\ va \in mc.maps /\ x.frame = NULL => ~t.d
  /\ va \in mc.maps /\ x.frame # NULL /\ ~t.d => k = D[va]

\* A slot that is in use stores exactly one page.
SlotsOk(mc, P, W) ==
  /\ \A va, w \in VA(mc) : P[va].slot = P[w].slot /\ P[va].slot # None => va = w
  /\ \A s \in Sl(mc) : W[s].used => \E va \in VA(mc) : P[va].slot = s

\* A frame in use belongs to a page, apart from the one in the kernel's hand.
OwnedOk(mc, P, F, h) ==
  /\ \A f \in Fr(mc) : F[f].live /\ f # h => F[f].ref_cnt = 1 /\ \E va \in VA(mc) : P[va].frame = f
  /\ h # NULL => h \in Fr(mc) /\ F[h].live /\ F[h].ref_cnt = 1

\* What holds between two calls of the kernel's functions while one process
\* runs alone, through evictions, swap and mappings.
Solo(mc, P, T, F, B, c, W, D, K, h) ==
  /\ SoloType(mc, P, T, F, B, c, W, D, K)
  /\ \A va \in VA(mc) : VaOk(mc, va, P[va], T[va], F, W, D, K[va], h)
  /\ SlotsOk(mc, P, W) /\ OwnedOk(mc, P, F, h) /\ TableOk(mc, F, B) /\ ClockOk(B, c)

\* What a function is after one change.
LEMMA PutFacts ==
  ASSUME NEW X, NEW Y, NEW F \in [X -> Y], NEW x \in X, NEW e \in Y
  PROVE  /\ Put(F, x, e) \in [X -> Y]
         /\ Put(F, x, e)[x] = e
         /\ \A y \in X : y # x => Put(F, x, e)[y] = F[y]
  BY DEF Put

\* What a function of functions is after one change.
LEMMA Put2Facts ==
  ASSUME NEW Q, NEW X, NEW Y, NEW F \in [Q -> [X -> Y]], NEW q \in Q, NEW x \in X, NEW e \in Y
  PROVE  /\ Put2(F, q, x, e) \in [Q -> [X -> Y]]
         /\ Put2(F, q, x, e)[q] = Put(F[q], x, e)
         /\ \A o \in Q : o # q => Put2(F, q, x, e)[o] = F[o]
  BY DEF Put2, Put

\* What the frame, the entry and the slot are once the page is in the frame h.
AttachOk(mc, va, h, o, W, k, x, t, fr, V) ==
  /\ x \in PageRec /\ x.frame = h /\ x.slot = None /\ x.kind = IF va \in mc.maps THEN "file" ELSE "anon"
  /\ t \in PteRec /\ t.kva = h /\ t.p /\ (t.w <=> va \notin mc.readonly) /\ ~t.d
  /\ fr \in FrameRec /\ fr.live /\ fr.page = <<1, va>> /\ fr.ref_cnt = 1 /\ fr.data = k
  /\ V \in [Sl(mc) -> SwapRec]
  /\ \A s \in Sl(mc) : IF s = o.slot THEN ~V[s].used ELSE V[s] = W[s]

\* The frame in the kernel's hand goes to a page.
LEMMA SoloAttach ==
  ASSUME NEW mc, MachineOk(mc), NEW P, NEW T, NEW F, NEW B, NEW c, NEW W, NEW D, NEW K, NEW h,
         Solo(mc, P, T, F, B, c, W, D, K, h), h # NULL,
         NEW va \in VA(mc), P[va].frame = NULL,
         NEW x, NEW t, NEW fr, NEW V, AttachOk(mc, va, h, P[va], W, K[va], x, t, fr, V)
  PROVE  Solo(mc, Put(P, va, x), Put(T, va, t), Put(F, h, fr), B, c, V, D, K, NULL)
<1> USE DEF NULL, None
<1>x. /\ x \in PageRec /\ x.frame = h /\ x.slot = None /\ x.kind = IF va \in mc.maps THEN "file" ELSE "anon"
      /\ t \in PteRec /\ t.kva = h /\ t.p /\ (t.w <=> va \notin mc.readonly) /\ ~t.d
      /\ fr \in FrameRec /\ fr.live /\ fr.page = <<1, va>> /\ fr.ref_cnt = 1 /\ fr.data = K[va]
      /\ V \in [Sl(mc) -> SwapRec]
      /\ \A s \in Sl(mc) : IF s = P[va].slot THEN ~V[s].used ELSE V[s] = W[s]
  BY DEF AttachOk
<1> USE <1>x
<1> PICK P2, T2, F2 : P2 = Put(P, va, x) /\ T2 = Put(T, va, t) /\ F2 = Put(F, h, fr)
  OBVIOUS
<1>t. SoloType(mc, P, T, F, B, c, W, D, K) /\ h \in Fr(mc) /\ F[h].live /\ F[h].ref_cnt = 1
  BY DEF Solo, OwnedOk
<1>1. /\ P2 \in [VA(mc) -> PageRec] /\ P2[va] = x /\ \A w \in VA(mc) : w # va => P2[w] = P[w]
      /\ T2 \in [VA(mc) -> PteRec] /\ T2[va] = t /\ \A w \in VA(mc) : w # va => T2[w] = T[w]
      /\ F2 \in [Fr(mc) -> FrameRec] /\ F2[h] = fr /\ \A f \in Fr(mc) : f # h => F2[f] = F[f]
  <2>1. P \in [VA(mc) -> PageRec] /\ T \in [VA(mc) -> PteRec] /\ F \in [Fr(mc) -> FrameRec] /\ h \in Fr(mc)
    BY <1>t DEF SoloType
  <2>2. P2 \in [VA(mc) -> PageRec] /\ P2[va] = x /\ \A w \in VA(mc) : w # va => P2[w] = P[w]
    BY <2>1 DEF Put
  <2>3. T2 \in [VA(mc) -> PteRec] /\ T2[va] = t /\ \A w \in VA(mc) : w # va => T2[w] = T[w]
    BY <2>1 DEF Put
  <2>4. F2 \in [Fr(mc) -> FrameRec] /\ F2[h] = fr /\ \A f \in Fr(mc) : f # h => F2[f] = F[f]
    BY <2>1 DEF Put
  <2> QED BY <2>2, <2>3, <2>4
<1>2. SoloType(mc, P2, T2, F2, B, c, V, D, K)
  BY <1>t, <1>1 DEF SoloType
<1>o. \A w \in VA(mc) : VaOk(mc, w, P[w], T[w], F, W, D, K[w], h)
  BY DEF Solo
<1>s. SlotsOk(mc, P, W) /\ OwnedOk(mc, P, F, h) /\ TableOk(mc, F, B) /\ ClockOk(B, c)
  BY DEF Solo
<1>3. ASSUME NEW w \in VA(mc) PROVE VaOk(mc, w, P2[w], T2[w], F2, V, D, K[w], NULL)
  <2>1. CASE w = va
    <3>1. VaOk(mc, va, P[va], T[va], F, W, D, K[va], h)
      BY <1>o
    <3>2. x.frame \in Fr(mc) /\ x.frame # NULL
      BY <1>t
    <3>3. va \in mc.maps => K[va] = D[va]
      BY <3>1 DEF VaOk, Fresh
    <3> QED BY <1>1, <1>t, <2>1, <3>2, <3>3 DEF VaOk
  <2>2. CASE w # va
    <3>1. VaOk(mc, w, P[w], T[w], F, W, D, K[w], h)
      BY <1>o
    <3>2. P[w].frame # NULL => F2[P[w].frame] = F[P[w].frame]
      BY <1>1, <3>1 DEF VaOk
    <3>3. P[w].slot # None => V[P[w].slot] = W[P[w].slot]
      BY <1>s, <3>1, <2>2 DEF VaOk, SlotsOk
    <3>4. P[w].frame \in Fr(mc) => P[w].frame # NULL
      BY DEF Fr
    <3> QED BY <1>1, <2>2, <3>1, <3>2, <3>3, <3>4 DEF VaOk
  <2> QED BY <2>1, <2>2
<1>4. SlotsOk(mc, P2, V)
  <2>1. \A v, w \in VA(mc) : P2[v].slot = P2[w].slot /\ P2[v].slot # None => v = w
    BY <1>1, <1>s DEF SlotsOk
  <2>2. ASSUME NEW s \in Sl(mc), V[s].used PROVE \E w \in VA(mc) : P2[w].slot = s
    <3>1. s # P[va].slot /\ W[s].used
      BY <2>2
    <3>2. PICK w \in VA(mc) : P[w].slot = s
      BY <1>s, <3>1 DEF SlotsOk
    <3> QED BY <1>1, <3>1, <3>2
  <2> QED BY <2>1, <2>2 DEF SlotsOk
<1>5. OwnedOk(mc, P2, F2, NULL)
  <2>1. ASSUME NEW f \in Fr(mc), F2[f].live PROVE F2[f].ref_cnt = 1 /\ \E w \in VA(mc) : P2[w].frame = f
    <3>1. CASE f = h
      BY <1>1, <3>1
    <3>2. CASE f # h
      <4>1. F[f].ref_cnt = 1 /\ F2[f] = F[f]
        BY <1>1, <1>s, <2>1, <3>2 DEF OwnedOk
      <4>2. PICK w \in VA(mc) : P[w].frame = f
        BY <1>1, <1>s, <2>1, <3>2 DEF OwnedOk
      <4>3. w # va
        BY <4>2 DEF Fr
      <4> QED BY <1>1, <4>1, <4>2, <4>3
    <3> QED BY <3>1, <3>2
  <2> QED BY <2>1 DEF OwnedOk
<1>6. TableOk(mc, F2, B)
  <2>1. \A f \in Fr(mc) : F2[f].live <=> F[f].live
    BY <1>1, <1>t
  <2> QED BY <1>s, <2>1 DEF TableOk
<1>7. Solo(mc, P2, T2, F2, B, c, V, D, K, NULL)
  BY <1>2, <1>3, <1>4, <1>5, <1>6, <1>s DEF Solo
<1> QED BY <1>7

\* A free frame comes into the kernel's hand.
LEMMA SoloFree ==
  ASSUME NEW mc, MachineOk(mc), NEW P, NEW T, NEW F, NEW B, NEW c, NEW W, NEW D, NEW K,
         Solo(mc, P, T, F, B, c, W, D, K, NULL),
         NEW f \in Fr(mc), ~F[f].live,
         NEW fr \in FrameRec, fr.live, fr.ref_cnt = 1
  PROVE  Solo(mc, P, T, Put(F, f, fr), Append(B, f), c, W, D, K, f)
<1> USE DEF NULL, None
<1> PICK F2, B2 : F2 = Put(F, f, fr) /\ B2 = Append(B, f)
  OBVIOUS
<1>t. SoloType(mc, P, T, F, B, c, W, D, K)
  BY DEF Solo
<1>1. F2 \in [Fr(mc) -> FrameRec] /\ F2[f] = fr /\ \A g \in Fr(mc) : g # f => F2[g] = F[g]
  BY <1>t DEF SoloType, Put
<1>n. f \in Nat /\ f # NULL
  BY DEF Fr, MachineOk
<1>b. /\ B2 \in Seq(Nat) /\ Len(B) \in Nat /\ DOMAIN B = 1 .. Len(B) /\ DOMAIN B2 = 1 .. Len(B) + 1
      /\ \A i \in 1 .. Len(B) : B2[i] = B[i]
      /\ B2[Len(B) + 1] = f
  BY <1>t, <1>n DEF SoloType
<1>2. SoloType(mc, P, T, F2, B2, c, W, D, K)
  BY <1>t, <1>1, <1>b DEF SoloType
<1>s. SlotsOk(mc, P, W) /\ OwnedOk(mc, P, F, NULL) /\ TableOk(mc, F, B) /\ ClockOk(B, c)
  BY DEF Solo
<1>3. ASSUME NEW w \in VA(mc) PROVE VaOk(mc, w, P[w], T[w], F2, W, D, K[w], f)
  <2>1. VaOk(mc, w, P[w], T[w], F, W, D, K[w], NULL)
    BY DEF Solo
  <2>2. P[w].frame # NULL => P[w].frame # f /\ F2[P[w].frame] = F[P[w].frame]
    BY <1>1, <2>1 DEF VaOk
  <2> QED BY <2>1, <2>2 DEF VaOk
<1>4. OwnedOk(mc, P, F2, f)
  <2>1. ASSUME NEW g \in Fr(mc), F2[g].live, g # f PROVE F2[g].ref_cnt = 1 /\ \E w \in VA(mc) : P[w].frame = g
    <3>1. F2[g] = F[g] /\ g # NULL
      BY <1>1, <2>1 DEF Fr
    <3> QED BY <1>s, <2>1, <3>1 DEF OwnedOk
  <2> QED BY <1>1, <2>1 DEF OwnedOk
<1>5. TableOk(mc, F2, B2)
  <2>0. \A i \in 1 .. Len(B) : B[i] # f
    BY <1>s, <1>b, <1>n DEF TableOk
  <2>1. ASSUME NEW i \in DOMAIN B2, B2[i] # NULL PROVE B2[i] \in Fr(mc) /\ F2[B2[i]].live
    <3>1. CASE i = Len(B) + 1
      BY <3>1, <1>b, <1>1
    <3>2. CASE i \in 1 .. Len(B)
      <4>1. B[i] \in Fr(mc) /\ F[B[i]].live /\ B[i] # f /\ B2[i] = B[i]
        BY <1>b, <1>s, <2>0, <2>1, <3>2 DEF TableOk
      <4> QED BY <1>1, <4>1
    <3> QED BY <1>b, <3>1, <3>2
  <2>2. ASSUME NEW g \in Fr(mc), F2[g].live PROVE \E i \in DOMAIN B2 : B2[i] = g
    <3>1. CASE g = f
      BY <3>1, <1>b
    <3>2. CASE g # f
      <4>1. F[g].live
        BY <1>1, <2>2, <3>2
      <4>2. PICK i \in 1 .. Len(B) : B[i] = g
        BY <1>s, <1>b, <4>1 DEF TableOk
      <4>3. i \in DOMAIN B2 /\ B2[i] = g
        BY <1>b, <4>2
      <4> QED BY <4>3
    <3> QED BY <3>1, <3>2
  <2>3. ASSUME NEW i \in DOMAIN B2, NEW j \in DOMAIN B2, B2[i] = B2[j], B2[i] # NULL PROVE i = j
    <3>1. \A a, b \in 1 .. Len(B) : B[a] = B[b] /\ B[a] # NULL => a = b
      BY <1>s, <1>b DEF TableOk
    <3> QED BY <1>b, <2>0, <2>3, <3>1
  <2> QED BY <2>1, <2>2, <2>3 DEF TableOk
<1>6. ClockOk(B2, c)
  <2>1. ASSUME \A i \in DOMAIN B2 : B2[i] # NULL PROVE c = NULL \/ \E i \in DOMAIN B2 : B2[i] = c
    <3>1. \A i \in DOMAIN B : B[i] # NULL
      BY <1>b, <2>1
    <3>2. c = NULL \/ \E i \in 1 .. Len(B) : B[i] = c
      BY <3>1, <1>s, <1>b DEF ClockOk
    <3>3. 1 .. Len(B) \subseteq DOMAIN B2
      BY <1>b
    <3> QED BY <3>2, <3>3, <1>b
  <2> QED BY <2>1 DEF ClockOk
<1>7. Solo(mc, P, T, F2, B2, c, W, D, K, f)
  BY <1>2, <1>3, <1>4, <1>5, <1>6, <1>s DEF Solo
<1> QED BY <1>7

\* The accessed bits matter to the clock only, and so does its place.
SameBits(mc, t, u) ==
  /\ u \in [VA(mc) -> PteRec]
  /\ \A va \in VA(mc) : u[va].p = t[va].p /\ u[va].kva = t[va].kva /\ u[va].w = t[va].w /\ u[va].d = t[va].d

\* The processor and the clock may change them freely.
LEMMA SoloAccess ==
  ASSUME NEW mc, MachineOk(mc), NEW P, NEW T, NEW F, NEW B, NEW c, NEW W, NEW D, NEW K, NEW h,
         Solo(mc, P, T, F, B, c, W, D, K, h),
         NEW T2, SameBits(mc, T, T2),
         NEW c2 \in Nat, c2 = c \/ c2 = NULL \/ \E i \in DOMAIN B : B[i] = c2
  PROVE  Solo(mc, P, T2, F, B, c2, W, D, K, h)
<1>1. ASSUME NEW w \in VA(mc) PROVE VaOk(mc, w, P[w], T2[w], F, W, D, K[w], h)
  <2>1. VaOk(mc, w, P[w], T[w], F, W, D, K[w], h)
    BY DEF Solo
  <2> QED BY <2>1 DEF VaOk, SameBits
<1>2. ClockOk(B, c2)
  BY DEF Solo, ClockOk
<1>3. SoloType(mc, P, T2, F, B, c2, W, D, K)
  BY DEF Solo, SoloType, SameBits
<1> QED BY <1>1, <1>2, <1>3 DEF Solo

\* The program writes to a page.
LEMMA SoloWrite ==
  ASSUME NEW mc, MachineOk(mc), NEW P, NEW T, NEW F, NEW B, NEW c, NEW W, NEW D, NEW K,
         Solo(mc, P, T, F, B, c, W, D, K, NULL),
         NEW va \in VA(mc), NEW f, f = P[va].frame, f # NULL, NEW v \in Value,
         NEW t \in PteRec, t.p, t.kva = T[va].kva, t.w = T[va].w, t.d,
         NEW fr \in FrameRec, fr.live, fr.page = F[f].page, fr.ref_cnt = F[f].ref_cnt, fr.data = v
  PROVE  Solo(mc, P, Put(T, va, t), Put(F, f, fr), B, c, W, D, Put(K, va, v), NULL)
<1> USE DEF NULL, None
<1> PICK T2, F2, K2 : T2 = Put(T, va, t) /\ F2 = Put(F, f, fr) /\ K2 = Put(K, va, v)
  OBVIOUS
<1>t. SoloType(mc, P, T, F, B, c, W, D, K)
  BY DEF Solo
<1>o. \A w \in VA(mc) : VaOk(mc, w, P[w], T[w], F, W, D, K[w], NULL)
  BY DEF Solo
<1>v. VaOk(mc, va, P[va], T[va], F, W, D, K[va], NULL)
  BY <1>o
<1>f. f \in Fr(mc) /\ F[f].live /\ F[f].page = <<1, va>>
  BY <1>v DEF VaOk
<1>1. F2 \in [Fr(mc) -> FrameRec] /\ F2[f] = fr /\ \A g \in Fr(mc) : g # f => F2[g] = F[g]
  BY <1>t, <1>f DEF SoloType, Put
<1>2. T2 \in [VA(mc) -> PteRec] /\ T2[va] = t /\ \A w \in VA(mc) : w # va => T2[w] = T[w]
  BY <1>t DEF SoloType, Put
<1>3. K2 \in [VA(mc) -> Value] /\ K2[va] = v /\ \A w \in VA(mc) : w # va => K2[w] = K[w]
  BY <1>t DEF SoloType, Put
<1>4. SoloType(mc, P, T2, F2, B, c, W, D, K2)
  BY <1>t, <1>1, <1>2, <1>3 DEF SoloType
<1>s. SlotsOk(mc, P, W) /\ OwnedOk(mc, P, F, NULL) /\ TableOk(mc, F, B) /\ ClockOk(B, c)
  BY DEF Solo
<1>5. ASSUME NEW w \in VA(mc) PROVE VaOk(mc, w, P[w], T2[w], F2, W, D, K2[w], NULL)
  <2>1. VaOk(mc, w, P[w], T[w], F, W, D, K[w], NULL)
    BY <1>o
  <2>2. CASE w = va
    BY <1>1, <1>2, <1>3, <1>f, <1>v, <2>2 DEF VaOk
  <2>3. CASE w # va
    <3>1. P[w].frame # NULL => P[w].frame # f
      BY <1>f, <2>1, <2>3 DEF VaOk
    <3>2. P[w].frame # NULL => F2[P[w].frame] = F[P[w].frame]
      BY <1>1, <2>1, <3>1 DEF VaOk
    <3> QED BY <1>2, <1>3, <2>1, <2>3, <3>2 DEF VaOk
  <2> QED BY <2>2, <2>3
<1>6. OwnedOk(mc, P, F2, NULL)
  BY <1>1, <1>f, <1>s DEF OwnedOk
<1>7. TableOk(mc, F2, B)
  <2>1. \A g \in Fr(mc) : F2[g].live <=> F[g].live
    BY <1>1, <1>f
  <2> QED BY <1>s, <2>1 DEF TableOk
<1>8. Solo(mc, P, T2, F2, B, c, W, D, K2, NULL)
  BY <1>4, <1>5, <1>6, <1>7, <1>s DEF Solo
<1> QED BY <1>8

\* Untouched pages of a file are mapped.
LEMMA SoloMap ==
  ASSUME NEW mc, MachineOk(mc), NEW P, NEW T, NEW F, NEW B, NEW c, NEW W, NEW D, NEW K,
         Solo(mc, P, T, F, B, c, W, D, K, NULL),
         NEW P2 \in [VA(mc) -> PageRec],
         \A w \in VA(mc) : \/ P2[w] = P[w]
                           \/ /\ P[w].kind = "none" /\ P2[w].kind \in {"none", "uninit"}
                              /\ P2[w].frame = NULL /\ P2[w].slot = None
  PROVE  Solo(mc, P2, T, F, B, c, W, D, K, NULL)
<1> USE DEF NULL, None
<1>o. \A w \in VA(mc) : VaOk(mc, w, P[w], T[w], F, W, D, K[w], NULL)
  BY DEF Solo
<1>1. \A w \in VA(mc) : P2[w].frame = P[w].frame /\ P2[w].slot = P[w].slot
  <2> SUFFICES ASSUME NEW w \in VA(mc) PROVE P2[w].frame = P[w].frame /\ P2[w].slot = P[w].slot
    OBVIOUS
  <2>1. VaOk(mc, w, P[w], T[w], F, W, D, K[w], NULL)
    BY <1>o
  <2> QED BY <2>1 DEF VaOk
<1>2. ASSUME NEW w \in VA(mc) PROVE VaOk(mc, w, P2[w], T[w], F, W, D, K[w], NULL)
  <2>1. VaOk(mc, w, P[w], T[w], F, W, D, K[w], NULL)
    BY <1>o
  <2> QED BY <1>1, <2>1 DEF VaOk
<1>3. SlotsOk(mc, P2, W) /\ OwnedOk(mc, P2, F, NULL)
  BY <1>1 DEF Solo, SlotsOk, OwnedOk
<1>4. SoloType(mc, P2, T, F, B, c, W, D, K)
  BY DEF Solo, SoloType
<1> QED BY <1>2, <1>3, <1>4 DEF Solo

\* What a page that is swapped out leaves: where its content is.
OutOk(mc, va, f, o, F, W, D, x, t, V, D2) ==
  /\ x \in PageRec /\ x.frame = NULL /\ x.kind = o.kind
  /\ V \in [Sl(mc) -> SwapRec] /\ D2 \in [mc.maps -> Value]
  /\ \/ /\ va \notin mc.maps /\ x.slot \in Sl(mc) /\ ~W[x.slot].used
        /\ V[x.slot].used /\ V[x.slot].data = F[f].data
        /\ \A s \in Sl(mc) : s # x.slot => V[s] = W[s]
        /\ D2 = D
     \/ /\ va \in mc.maps /\ x.slot = None /\ V = W /\ D2[va] = F[f].data
        /\ \A w \in mc.maps : w # va => D2[w] = D[w]
  /\ t \in PteRec /\ ~t.p /\ (va \in mc.maps => ~t.d)

\* A page goes to the swap disk or to its file; the frame is in the kernel's hand.
LEMMA SoloOut ==
  ASSUME NEW mc, MachineOk(mc), NEW P, NEW T, NEW F, NEW B, NEW c, NEW W, NEW D, NEW K,
         Solo(mc, P, T, F, B, c, W, D, K, NULL),
         NEW va \in VA(mc), NEW f, f = P[va].frame, f # NULL,
         NEW x, NEW t, NEW V, NEW D2, OutOk(mc, va, f, P[va], F, W, D, x, t, V, D2),
         NEW fr \in FrameRec, fr.live, fr.ref_cnt = 1,
         NEW B2 \in Seq(Nat), TableOk(mc, F, B2), ClockOk(B2, c)
  PROVE  Solo(mc, Put(P, va, x), Put(T, va, t), Put(F, f, fr), B2, c, V, D2, K, f)
<1> USE DEF NULL, None
<1>x. /\ x \in PageRec /\ x.frame = NULL /\ x.kind = P[va].kind
      /\ V \in [Sl(mc) -> SwapRec] /\ D2 \in [mc.maps -> Value]
      /\ \/ /\ va \notin mc.maps /\ x.slot \in Sl(mc) /\ ~W[x.slot].used
            /\ V[x.slot].used /\ V[x.slot].data = F[f].data
            /\ \A s \in Sl(mc) : s # x.slot => V[s] = W[s]
            /\ D2 = D
         \/ /\ va \in mc.maps /\ x.slot = None /\ V = W /\ D2[va] = F[f].data
            /\ \A w \in mc.maps : w # va => D2[w] = D[w]
      /\ t \in PteRec /\ ~t.p /\ (va \in mc.maps => ~t.d)
  BY DEF OutOk
<1> USE <1>x
<1> PICK P2, T2, F2 : P2 = Put(P, va, x) /\ T2 = Put(T, va, t) /\ F2 = Put(F, f, fr)
  OBVIOUS
<1>t. SoloType(mc, P, T, F, B, c, W, D, K)
  BY DEF Solo
<1>o. \A w \in VA(mc) : VaOk(mc, w, P[w], T[w], F, W, D, K[w], NULL)
  BY DEF Solo
<1>v. VaOk(mc, va, P[va], T[va], F, W, D, K[va], NULL)
  BY <1>o
<1>f. f \in Fr(mc) /\ F[f].live /\ F[f].page = <<1, va>> /\ F[f].data = K[va]
  BY <1>v DEF VaOk
<1>p. P[va] \in PageRec /\ P[va].kind # "none" /\ P[va].kind # "uninit"
  BY <1>t, <1>v DEF SoloType, VaOk
<1>k. x.kind = IF va \in mc.maps THEN "file" ELSE "anon"
  BY <1>p, <1>v DEF PageRec, VaOk
<1>1. P2 \in [VA(mc) -> PageRec] /\ P2[va] = x /\ \A w \in VA(mc) : w # va => P2[w] = P[w]
  BY <1>t DEF SoloType, Put
<1>2. T2 \in [VA(mc) -> PteRec] /\ T2[va] = t /\ \A w \in VA(mc) : w # va => T2[w] = T[w]
  BY <1>t DEF SoloType, Put
<1>3. F2 \in [Fr(mc) -> FrameRec] /\ F2[f] = fr /\ \A g \in Fr(mc) : g # f => F2[g] = F[g]
  BY <1>t, <1>f DEF SoloType, Put
<1>4. SoloType(mc, P2, T2, F2, B2, c, V, D2, K)
  BY <1>t, <1>1, <1>2, <1>3 DEF SoloType
<1>s. SlotsOk(mc, P, W) /\ OwnedOk(mc, P, F, NULL)
  BY DEF Solo
<1>5. ASSUME NEW w \in VA(mc) PROVE VaOk(mc, w, P2[w], T2[w], F2, V, D2, K[w], f)
  <2>1. VaOk(mc, w, P[w], T[w], F, W, D, K[w], NULL)
    BY <1>o
  <2>2. CASE w = va
    <3>1. x.slot # None => x.slot \in Sl(mc) /\ V[x.slot].used /\ V[x.slot].data = K[va] /\ va \notin mc.maps
      BY <1>f
    <3>2. va \in mc.maps => D2[va] = K[va] /\ x.slot = None
      BY <1>f
    <3>3. va \notin mc.maps => x.slot # None
      BY DEF Sl
    <3> QED BY <1>1, <1>2, <1>k, <2>2, <3>1, <3>2, <3>3 DEF VaOk, Fresh
  <2>3. CASE w # va
    <3>1. P[w].frame # NULL => P[w].frame # f
      BY <1>f, <2>1, <2>3 DEF VaOk
    <3>2. P[w].frame # NULL => F2[P[w].frame] = F[P[w].frame]
      BY <1>3, <2>1, <3>1 DEF VaOk
    <3>3. P[w].slot # None => V[P[w].slot] = W[P[w].slot]
      BY <2>1 DEF VaOk
    <3>4. w \in mc.maps => D2[w] = D[w]
      BY <2>3
    <3> QED BY <1>1, <1>2, <2>1, <2>3, <3>1, <3>2, <3>3, <3>4 DEF VaOk, Fresh
  <2> QED BY <2>2, <2>3
<1>6. SlotsOk(mc, P2, V)
  <2>0. \A w \in VA(mc) : P[w].slot # None => P[w].slot # x.slot
    <3> SUFFICES ASSUME NEW w \in VA(mc), P[w].slot # None, P[w].slot = x.slot PROVE FALSE
      OBVIOUS
    <3>1. W[P[w].slot].used
      BY <1>o DEF VaOk
    <3> QED BY <3>1
  <2>1. \A v, w \in VA(mc) : P2[v].slot = P2[w].slot /\ P2[v].slot # None => v = w
    BY <1>1, <1>s, <2>0 DEF SlotsOk
  <2>2. ASSUME NEW s \in Sl(mc), V[s].used PROVE \E w \in VA(mc) : P2[w].slot = s
    <3>1. CASE s = x.slot
      BY <1>1, <3>1
    <3>2. CASE s # x.slot
      <4>1. W[s].used /\ s # None
        <5>1. V[s] = W[s]
          BY <3>2
        <5>2. s # None
          BY DEF Sl, MachineOk
        <5> QED BY <2>2, <5>1, <5>2
      <4>2. PICK w \in VA(mc) : P[w].slot = s
        BY <1>s, <4>1 DEF SlotsOk
      <4>3. w # va
        <5>1. P[va].slot = None
          BY <1>v DEF VaOk
        <5> QED BY <4>1, <4>2, <5>1
      <4> QED BY <1>1, <4>2, <4>3
    <3> QED BY <3>1, <3>2
  <2> QED BY <2>1, <2>2 DEF SlotsOk
<1>7. OwnedOk(mc, P2, F2, f)
  <2>1. ASSUME NEW g \in Fr(mc), F2[g].live, g # f PROVE F2[g].ref_cnt = 1 /\ \E w \in VA(mc) : P2[w].frame = g
    <3>1. F2[g] = F[g] /\ g # NULL
      BY <1>3, <2>1 DEF Fr
    <3>2. F[g].ref_cnt = 1
      BY <1>s, <2>1, <3>1 DEF OwnedOk
    <3>3. PICK w \in VA(mc) : P[w].frame = g
      BY <1>s, <2>1, <3>1 DEF OwnedOk
    <3> QED BY <1>1, <2>1, <3>1, <3>2, <3>3
  <2> QED BY <1>3, <1>f, <2>1 DEF OwnedOk
<1>8. TableOk(mc, F2, B2)
  <2>1. \A g \in Fr(mc) : F2[g].live <=> F[g].live
    BY <1>3, <1>f
  <2> QED BY <2>1 DEF TableOk
<1>9. Solo(mc, P2, T2, F2, B2, c, V, D2, K, f)
  BY <1>4, <1>5, <1>6, <1>7, <1>8 DEF Solo
<1> QED BY <1>9

\* A mapped page that is not in memory is unmapped.
LEMMA SoloDrop ==
  ASSUME NEW mc, MachineOk(mc), NEW P, NEW T, NEW F, NEW B, NEW c, NEW W, NEW D, NEW K,
         Solo(mc, P, T, F, B, c, W, D, K, NULL),
         NEW va \in mc.maps, P[va].frame = NULL,
         NEW t \in PteRec, ~t.p, ~t.d
  PROVE  Solo(mc, Put(P, va, NoPage), Put(T, va, t), F, B, c, W, D, K, NULL)
<1> USE DEF NULL, None
<1> PICK P2, T2 : P2 = Put(P, va, NoPage) /\ T2 = Put(T, va, t)
  OBVIOUS
<1>a. va \in VA(mc)
  BY DEF VA
<1>t. SoloType(mc, P, T, F, B, c, W, D, K)
  BY DEF Solo
<1>o. \A w \in VA(mc) : VaOk(mc, w, P[w], T[w], F, W, D, K[w], NULL)
  BY DEF Solo
<1>v. VaOk(mc, va, P[va], T[va], F, W, D, K[va], NULL)
  BY <1>o, <1>a
<1>n. NoPage \in PageRec /\ NoPage.frame = NULL /\ NoPage.slot = None /\ NoPage.kind = "none"
  BY DEF NoPage, PageRec
<1>f. P[va].slot = None
  BY <1>v DEF VaOk
<1>1. P2 \in [VA(mc) -> PageRec] /\ P2[va] = NoPage /\ \A w \in VA(mc) : w # va => P2[w] = P[w]
  BY <1>t, <1>n, <1>a DEF SoloType, Put
<1>2. T2 \in [VA(mc) -> PteRec] /\ T2[va] = t /\ \A w \in VA(mc) : w # va => T2[w] = T[w]
  BY <1>t, <1>a DEF SoloType, Put
<1>4. SoloType(mc, P2, T2, F, B, c, W, D, K)
  BY <1>t, <1>1, <1>2 DEF SoloType
<1>s. SlotsOk(mc, P, W) /\ OwnedOk(mc, P, F, NULL) /\ TableOk(mc, F, B) /\ ClockOk(B, c)
  BY DEF Solo
<1>5. ASSUME NEW w \in VA(mc) PROVE VaOk(mc, w, P2[w], T2[w], F, W, D, K[w], NULL)
  <2>1. VaOk(mc, w, P[w], T[w], F, W, D, K[w], NULL)
    BY <1>o
  <2>2. CASE w = va
    <3>1. K[va] = Fresh(mc, D, va)
      BY <1>v, <1>f DEF VaOk
    <3> QED BY <1>1, <1>2, <1>n, <2>2, <3>1 DEF VaOk
  <2>3. CASE w # va
    BY <1>1, <1>2, <2>1, <2>3
  <2> QED BY <2>2, <2>3
<1>6. \A w \in VA(mc) : P2[w].frame = P[w].frame /\ P2[w].slot = P[w].slot
  BY <1>1, <1>n, <1>f
<1>7. SlotsOk(mc, P2, W) /\ OwnedOk(mc, P2, F, NULL)
  BY <1>6, <1>s DEF SlotsOk, OwnedOk
<1>9. Solo(mc, P2, T2, F, B, c, W, D, K, NULL)
  BY <1>4, <1>5, <1>7, <1>s DEF Solo
<1> QED BY <1>9

\* What is left of the entry, the frame, the table and the file.
ReleaseOk(mc, va, f, t, fr, B, B2, F, D, D2) ==
  /\ t \in PteRec /\ ~t.p /\ ~t.d
  /\ fr \in FrameRec /\ ~fr.live
  /\ B2 \in Seq(Nat) /\ DOMAIN B2 = DOMAIN B
  /\ \A i \in DOMAIN B : B2[i] = IF B[i] = f THEN NULL ELSE B[i]
  /\ D2 \in [mc.maps -> Value] /\ D2[va] = F[f].data /\ \A w \in mc.maps : w # va => D2[w] = D[w]

\* A mapped page in memory is unmapped: its frame is freed.
LEMMA SoloRelease ==
  ASSUME NEW mc, MachineOk(mc), NEW P, NEW T, NEW F, NEW B, NEW c, NEW W, NEW D, NEW K,
         Solo(mc, P, T, F, B, c, W, D, K, NULL),
         NEW va \in mc.maps, NEW f, f = P[va].frame, f # NULL,
         NEW t, NEW fr, NEW B2, NEW D2, ReleaseOk(mc, va, f, t, fr, B, B2, F, D, D2)
  PROVE  Solo(mc, Put(P, va, NoPage), Put(T, va, t), Put(F, f, fr), B2, c, W, D2, K, NULL)
<1> USE DEF NULL, None
<1>x. /\ t \in PteRec /\ ~t.p /\ ~t.d
      /\ fr \in FrameRec /\ ~fr.live
      /\ B2 \in Seq(Nat) /\ DOMAIN B2 = DOMAIN B
      /\ \A i \in DOMAIN B : B2[i] = IF B[i] = f THEN NULL ELSE B[i]
      /\ D2 \in [mc.maps -> Value] /\ D2[va] = F[f].data /\ \A w \in mc.maps : w # va => D2[w] = D[w]
  BY DEF ReleaseOk
<1> PICK P2, T2, F2 : P2 = Put(P, va, NoPage) /\ T2 = Put(T, va, t) /\ F2 = Put(F, f, fr)
  OBVIOUS
<1>a. va \in VA(mc)
  BY DEF VA
<1>t. SoloType(mc, P, T, F, B, c, W, D, K)
  BY DEF Solo
<1>o. \A w \in VA(mc) : VaOk(mc, w, P[w], T[w], F, W, D, K[w], NULL)
  BY DEF Solo
<1>v. VaOk(mc, va, P[va], T[va], F, W, D, K[va], NULL)
  BY <1>o, <1>a
<1>n. NoPage \in PageRec /\ NoPage.frame = NULL /\ NoPage.slot = None /\ NoPage.kind = "none"
  BY DEF NoPage, PageRec
<1>f. f \in Fr(mc) /\ F[f].live /\ F[f].page = <<1, va>> /\ F[f].data = K[va] /\ P[va].slot = None
  BY <1>v DEF VaOk
<1>1. P2 \in [VA(mc) -> PageRec] /\ P2[va] = NoPage /\ \A w \in VA(mc) : w # va => P2[w] = P[w]
  BY <1>t, <1>n, <1>a DEF SoloType, Put
<1>2. T2 \in [VA(mc) -> PteRec] /\ T2[va] = t /\ \A w \in VA(mc) : w # va => T2[w] = T[w]
  BY <1>x, <1>t, <1>a DEF SoloType, Put
<1>3. F2 \in [Fr(mc) -> FrameRec] /\ F2[f] = fr /\ \A g \in Fr(mc) : g # f => F2[g] = F[g]
  BY <1>x, <1>t, <1>f DEF SoloType, Put
<1>4. SoloType(mc, P2, T2, F2, B2, c, W, D2, K)
  BY <1>x, <1>t, <1>1, <1>2, <1>3 DEF SoloType
<1>s. SlotsOk(mc, P, W) /\ OwnedOk(mc, P, F, NULL) /\ TableOk(mc, F, B) /\ ClockOk(B, c)
  BY DEF Solo
<1>5. ASSUME NEW w \in VA(mc) PROVE VaOk(mc, w, P2[w], T2[w], F2, W, D2, K[w], NULL)
  <2>1. VaOk(mc, w, P[w], T[w], F, W, D, K[w], NULL)
    BY <1>x, <1>o
  <2>2. CASE w = va
    <3>1. K[va] = Fresh(mc, D2, va)
      BY <1>x, <1>f DEF Fresh
    <3> QED BY <1>x, <1>1, <1>2, <1>n, <2>2, <3>1 DEF VaOk
  <2>3. CASE w # va
    <3>1. P[w].frame # NULL => P[w].frame # f
      BY <1>x, <1>f, <2>1, <2>3 DEF VaOk
    <3>2. P[w].frame # NULL => F2[P[w].frame] = F[P[w].frame]
      BY <1>x, <1>3, <2>1, <3>1 DEF VaOk
    <3>3. w \in mc.maps => D2[w] = D[w]
      BY <1>x, <2>3
    <3> QED BY <1>x, <1>1, <1>2, <2>1, <2>3, <3>1, <3>2, <3>3 DEF VaOk, Fresh
  <2> QED BY <1>x, <2>2, <2>3
<1>6. \A w \in VA(mc) : P2[w].slot = P[w].slot
  BY <1>x, <1>1, <1>n, <1>f
<1>7. SlotsOk(mc, P2, W)
  <2>1. \A v, w \in VA(mc) : P2[v].slot = P2[w].slot /\ P2[v].slot # None => v = w
    BY <1>x, <1>6, <1>s DEF SlotsOk
  <2>2. \A s \in Sl(mc) : W[s].used => \E w \in VA(mc) : P2[w].slot = s
    BY <1>x, <1>6, <1>s DEF SlotsOk
  <2> QED BY <1>x, <2>1, <2>2 DEF SlotsOk
<1>8. OwnedOk(mc, P2, F2, NULL)
  <2>1. ASSUME NEW g \in Fr(mc), F2[g].live PROVE F2[g].ref_cnt = 1 /\ \E w \in VA(mc) : P2[w].frame = g
    <3>1. F2[g] = F[g] /\ g # NULL /\ g # f
      BY <1>x, <1>3, <2>1 DEF Fr
    <3>2. F[g].ref_cnt = 1
      BY <1>x, <1>s, <2>1, <3>1 DEF OwnedOk
    <3>3. PICK w \in VA(mc) : P[w].frame = g
      BY <1>x, <1>s, <2>1, <3>1 DEF OwnedOk
    <3> QED BY <1>x, <1>1, <2>1, <3>1, <3>2, <3>3
  <2> QED BY <1>x, <2>1 DEF OwnedOk
<1>10. TableOk(mc, F2, B2)
  <2>1. ASSUME NEW i \in DOMAIN B2, B2[i] # NULL PROVE B2[i] \in Fr(mc) /\ F2[B2[i]].live
    <3>1. B2[i] = B[i] /\ B[i] # f
      BY <1>x, <2>1
    <3> QED BY <1>x, <1>3, <1>s, <2>1, <3>1 DEF TableOk
  <2>2. ASSUME NEW g \in Fr(mc), F2[g].live PROVE \E i \in DOMAIN B2 : B2[i] = g
    <3>1. g # f /\ F[g].live
      BY <1>x, <1>3, <2>2
    <3> QED BY <1>x, <1>s, <3>1 DEF TableOk
  <2>3. \A i, j \in DOMAIN B2 : B2[i] = B2[j] /\ B2[i] # NULL => i = j
    BY <1>x, <1>s DEF TableOk
  <2> QED BY <1>x, <2>1, <2>2, <2>3 DEF TableOk
<1>11. ClockOk(B2, c)
  <2>1. PICK i \in DOMAIN B : B[i] = f
    BY <1>x, <1>f, <1>s DEF TableOk
  <2>2. B2[i] = NULL /\ i \in DOMAIN B2
    BY <1>x, <2>1
  <2> QED BY <1>x, <2>2 DEF ClockOk
<1>9. Solo(mc, P2, T2, F2, B2, c, W, D2, K, NULL)
  BY <1>x, <1>4, <1>5, <1>7, <1>8, <1>10, <1>11 DEF Solo
<1> QED BY <1>x, <1>9

-----------------------------------------------------------------------------
(* The clock *)

\* A set of numbers has a least member.
LEMMA LeastNat ==
  ASSUME NEW T \in SUBSET Nat, T # {}
  PROVE  \E x \in T : \A y \in T : x <= y
<1> DEFINE R == {ss \in Nat \X Nat : ss[1] < ss[2]}
<1>1. IsWellFoundedOn(OpToRel(<, Nat), Nat)
  BY NatLessThanWellFounded
<1>2. IsWellFoundedOn(R, Nat)
  BY <1>1 DEF OpToRel
<1>3. \A x, y \in Nat : y < x => <<y, x>> \in R
  OBVIOUS
<1> HIDE DEF R
<1>4. PICK x \in T : \A y \in T : ~(<<y, x>> \in R)
  BY <1>2, WFMin
<1>5. \A y \in T : ~(y < x)
  BY <1>3, <1>4
<1>6. \A y \in T : x <= y
  BY <1>5
<1> QED BY <1>6

\* Min finds a member.
LEMMA MinFacts ==
  ASSUME NEW T \in SUBSET Nat, T # {}
  PROVE  Min(T) \in T
  BY LeastNat DEF Min

\* The clock's arithmetic.
LEMMA ModFacts ==
  ASSUME NEW n \in Nat \ {0}
  PROVE  /\ \A x \in Nat : x % n \in 0 .. n - 1
         /\ \A x \in 0 .. n - 1 : x % n = x /\ (x + n) % n = x
  OBVIOUS

\* The victim is on the table.  The clock only clears accessed bits, and takes a
\* page whose bit is set only when all bits are set.
Clocked(mc, t, u, F, B, c2, f) ==
  /\ SameBits(mc, t, u)
  /\ c2 = NULL \/ \E i \in DOMAIN B : B[i] = c2
  /\ \E i \in DOMAIN B : B[i] = f
  /\ t[F[f].page[2]].a => \A i \in DOMAIN B : t[F[B[i]].page[2]].a

\* The clock's victim, from the definition of vm_get_victim.
LEMMA VictimFields ==
  ASSUME NEW mc, mc = machine, NEW m,
         Fields(m, m.pages, m.pte, m.frames, m.frame_table, m.clock_start, m.swap, m.disk),
         m.pte \in [Procs -> [VA(mc) -> PteRec]], NEW p \in Procs,
         m.frame_table \in Seq(Nat), m.frame_table # <<>>,
         m.clock_start = NULL \/ \E i \in DOMAIN m.frame_table : m.frame_table[i] = m.clock_start,
         NEW v, v = vm_get_victim(m, p)
  PROVE  \E u, c2 : /\ Fields(v.vm, m.pages, Put(m.pte, p, u), m.frames, m.frame_table, c2, m.swap, m.disk)
                    /\ Clocked(mc, m.pte[p], u, m.frames, m.frame_table, c2, v.victim)
<1> USE DEF NULL
<1> DEFINE n == Len(m.frame_table)
           start == IF m.clock_start = NULL THEN 1 ELSE place(m.frame_table, m.clock_start)
           At(k) == m.frame_table[((start - 1 + k) % n) + 1]
           Va(k) == m.frames[At(k)].page[2]
           Accessed(k) == m.pte[p][Va(k)].a
           cold == {k \in 0..n - 1 : ~Accessed(k)}
           met == IF cold = {} THEN n ELSE Min(cold)
           f == At(met % n)
           at == place(m.frame_table, f)
           u == [va \in VAs |-> [m.pte[p][va] EXCEPT !.a = @ /\ ~\E k \in 0..met - 1 : Va(k) = va]]
           c2 == IF at = n THEN NULL ELSE m.frame_table[at + 1]
<1>1. v = [vm |-> [m EXCEPT !.pte[p] = u, !.clock_start = c2], victim |-> f]
  BY DEF vm_get_victim
<1> HIDE DEF u, c2, f
<1>2. v.victim = f /\ v.vm = [m EXCEPT !.pte[p] = u, !.clock_start = c2]
  BY <1>1
<1>3. Fields(v.vm, m.pages, Put(m.pte, p, u), m.frames, m.frame_table, c2, m.swap, m.disk)
  BY <1>2 DEF Fields, VmRec, Put
<1>4. n \in Nat \ {0} /\ DOMAIN m.frame_table = 1 .. n
  OBVIOUS
<1>5. start \in 1 .. n
  BY <1>4 DEF place
<1> HIDE DEF start, n
<1>6. \A k \in Nat : ((start - 1 + k) % n) + 1 \in 1 .. n
  <2> SUFFICES ASSUME NEW k \in Nat PROVE ((start - 1 + k) % n) + 1 \in 1 .. n
    OBVIOUS
  <2>1. start - 1 + k \in Nat
    BY <1>4, <1>5
  <2>2. (start - 1 + k) % n \in 0 .. n - 1
    BY <1>4, <2>1, ModFacts
  <2> QED BY <1>4, <2>2
<1>7. met \in 0 .. n /\ (cold # {} => met \in cold)
  <2>0. cold \subseteq 0 .. n - 1
    BY Zenon
  <2> HIDE DEF cold
  <2>1. cold \in SUBSET Nat
    BY <1>4, <2>0
  <2>2. cold # {} => Min(cold) \in cold
    BY <2>1, MinFacts
  <2>3. CASE cold = {}
    BY <1>4, <2>3
  <2>4. CASE cold # {}
    <3>1. met = Min(cold) /\ met \in cold
      BY <2>2, <2>4
    <3> HIDE DEF met
    <3>2. met \in 0 .. n - 1
      BY <2>0, <3>1
    <3> QED BY <1>4, <3>1, <3>2
  <2> QED BY <2>3, <2>4
<1>8a. cold # {} => ~Accessed(met)
  BY <1>7
<1> HIDE DEF met, cold
<1>8. met % n \in Nat /\ (cold # {} => met % n = met)
  <2>1. met \in Nat
    BY <1>4, <1>7
  <2>2. cold # {} => met \in 0 .. n - 1
    BY <1>7 DEF cold
  <2>3. met % n \in 0 .. n - 1
    BY <1>4, <2>1, ModFacts
  <2>4. cold # {} => met % n = met
    BY <1>4, <2>2, ModFacts
  <2> QED BY <1>4, <2>3, <2>4
<1>9. \E i \in 1 .. n : m.frame_table[i] = f
  BY <1>6, <1>8 DEF f
<1>10. at \in 1 .. n
  BY <1>4, <1>9 DEF place
<1>11. c2 = NULL \/ \E i \in 1 .. n : m.frame_table[i] = c2
  BY <1>4, <1>10 DEF c2
<1>12. \A i \in 1 .. n : \E k \in 0 .. n - 1 : m.frame_table[i] = At(k)
  <2> SUFFICES ASSUME NEW i \in 1 .. n PROVE \E k \in 0 .. n - 1 : m.frame_table[i] = At(k)
    OBVIOUS
  <2>1. CASE i >= start
    <3>1. i - start \in 0 .. n - 1 /\ start - 1 + (i - start) = i - 1 /\ i - 1 \in 0 .. n - 1
      BY <1>4, <1>5, <2>1
    <3>2. (i - 1) % n = i - 1
      BY <1>4, <3>1, ModFacts
    <3>3. m.frame_table[i] = At(i - start)
      BY <3>1, <3>2
    <3> QED BY <3>1, <3>3
  <2>2. CASE i < start
    <3>0. i \in Int /\ start \in Int /\ n \in Int /\ 1 <= i /\ i <= n /\ 1 <= start /\ start <= n
      BY <1>4, <1>5
    <3>1. i - start + n \in 0 .. n - 1 /\ start - 1 + (i - start + n) = i - 1 + n /\ i - 1 \in 0 .. n - 1
      BY <3>0, <2>2
    <3>2. (i - 1 + n) % n = i - 1
      BY <1>4, <3>1, ModFacts
    <3>3. m.frame_table[i] = At(i - start + n)
      BY <3>1, <3>2
    <3> QED BY <3>1, <3>3
  <2> QED BY <1>4, <1>5, <2>1, <2>2
<1>13. m.pte[p][m.frames[f].page[2]].a => \A i \in 1 .. n : m.pte[p][m.frames[m.frame_table[i]].page[2]].a
  <2>1. CASE cold # {}
    BY <1>8, <1>8a, <2>1 DEF f
  <2>2. CASE cold = {}
    <3>1. \A k \in 0 .. n - 1 : m.pte[p][m.frames[At(k)].page[2]].a
      BY <2>2 DEF cold
    <3> QED BY <3>1, <1>12
  <2> QED BY <2>1, <2>2
<1>14. /\ u \in [VA(mc) -> PteRec]
       /\ \A va \in VA(mc) : u[va].p = m.pte[p][va].p /\ u[va].kva = m.pte[p][va].kva /\ u[va].w = m.pte[p][va].w /\ u[va].d = m.pte[p][va].d
  <2>1. PICK S : S = {va \in VAs : \E k \in 0..met - 1 : Va(k) = va}
    OBVIOUS
  <2>2. u = [va \in VAs |-> [m.pte[p][va] EXCEPT !.a = @ /\ va \notin S]]
    BY <2>1 DEF u
  <2>3. VAs = VA(mc)
    BY DEF VA, VAs
  <2>4. m.pte[p] \in [VA(mc) -> PteRec]
    OBVIOUS
  <2>5. ASSUME NEW e \in PteRec, NEW b \in BOOLEAN, NEW z, z = [e EXCEPT !.a = @ /\ b]
        PROVE  z \in PteRec /\ z.p = e.p /\ z.kva = e.kva /\ z.w = e.w /\ z.d = e.d
    BY <2>5 DEF PteRec
  <2>6. ASSUME NEW va \in VA(mc)
        PROVE  /\ u[va] \in PteRec /\ u[va].p = m.pte[p][va].p /\ u[va].kva = m.pte[p][va].kva
               /\ u[va].w = m.pte[p][va].w /\ u[va].d = m.pte[p][va].d
    <3>1. PICK b \in BOOLEAN : b = (va \notin S)
      OBVIOUS
    <3>2. u[va] = [m.pte[p][va] EXCEPT !.a = @ /\ b]
      BY <2>2, <2>3, <3>1
    <3>3. m.pte[p][va] \in PteRec
      BY <2>4
    <3> QED BY <2>5, <3>2, <3>3
  <2>7. u \in [VA(mc) -> PteRec]
    BY <2>2, <2>3, <2>6
  <2> QED BY <2>6, <2>7
<1>15. Clocked(mc, m.pte[p], u, m.frames, m.frame_table, c2, f)
  BY <1>4, <1>9, <1>11, <1>13, <1>14 DEF Clocked, SameBits
<1> QED BY <1>2, <1>3, <1>15

\* The same, the fields given.
LEMMA VictimFacts ==
  ASSUME NEW mc, mc = machine, NEW m, NEW P, NEW T, NEW F, NEW B, NEW c, NEW W, NEW D,
         Fields(m, P, T, F, B, c, W, D),
         T \in [Procs -> [VA(mc) -> PteRec]], NEW p \in Procs,
         B \in Seq(Nat), B # <<>>, c = NULL \/ \E i \in DOMAIN B : B[i] = c,
         NEW v, v = vm_get_victim(m, p)
  PROVE  \E u, c2 : /\ Fields(v.vm, P, Put(T, p, u), F, B, c2, W, D)
                    /\ Clocked(mc, T[p], u, F, B, c2, v.victim)
<1>1. /\ m.pages = P /\ m.pte = T /\ m.frames = F /\ m.frame_table = B /\ m.clock_start = c
      /\ m.swap = W /\ m.disk = D
  BY DEF Fields
<1> QED BY <1>1, VictimFields

-----------------------------------------------------------------------------
(* Frames for a process alone. *)

\* The same of the record vm: the other processes have no page.
SoloVm(mc, m, K, h) ==
  /\ Fields(m, m.pages, m.pte, m.frames, m.frame_table, m.clock_start, m.swap, m.disk)
  /\ m.pages \in [Procs -> [VA(mc) -> PageRec]] /\ m.pte \in [Procs -> [VA(mc) -> PteRec]]
  /\ \A q \in Procs : \A va \in VA(mc) : q # 1 => m.pages[q][va] = NoPage /\ m.pte[q][va] = NoPte
  /\ Solo(mc, m.pages[1], m.pte[1], m.frames, m.frame_table, m.clock_start, m.swap, m.disk, K, h)

\* The types of the two page tables of all processes.
VmType(mc, P, T) == P \in [Procs -> [VA(mc) -> PageRec]] /\ T \in [Procs -> [VA(mc) -> PteRec]]

\* A record whose fields are those of a process alone.
LEMMA SoloFields ==
  ASSUME NEW mc, NEW m, NEW K, NEW h0, SoloVm(mc, m, K, h0), 1 \in Procs, NEW h,
         NEW r, NEW P, NEW T, NEW F, NEW B, NEW c, NEW W, NEW D, Fields(r, P, T, F, B, c, W, D),
         NEW x, NEW t, P = Put(m.pages, 1, x), T = Put(m.pte, 1, t), NEW K2,
         Solo(mc, x, t, F, B, c, W, D, K2, h)
  PROVE  SoloVm(mc, r, K2, h)
<1>1. x \in [VA(mc) -> PageRec] /\ t \in [VA(mc) -> PteRec]
  BY DEF Solo, SoloType
<1>2. m.pages \in [Procs -> [VA(mc) -> PageRec]] /\ m.pte \in [Procs -> [VA(mc) -> PteRec]]
  BY DEF SoloVm
<1>3. P \in [Procs -> [VA(mc) -> PageRec]] /\ P[1] = x /\ \A q \in Procs : q # 1 => P[q] = m.pages[q]
  BY <1>1, <1>2 DEF Put
<1>4. T \in [Procs -> [VA(mc) -> PteRec]] /\ T[1] = t /\ \A q \in Procs : q # 1 => T[q] = m.pte[q]
  BY <1>1, <1>2 DEF Put
<1>5. /\ r.pages = P /\ r.pte = T /\ r.frames = F /\ r.frame_table = B /\ r.clock_start = c
      /\ r.swap = W /\ r.disk = D
  BY DEF Fields
<1>6. Fields(r, r.pages, r.pte, r.frames, r.frame_table, r.clock_start, r.swap, r.disk)
  BY <1>5
<1>7. \A q \in Procs : \A va \in VA(mc) : q # 1 => P[q][va] = NoPage /\ T[q][va] = NoPte
  BY <1>3, <1>4 DEF SoloVm
<1> QED BY <1>3, <1>4, <1>5, <1>6, <1>7 DEF SoloVm

\* The second of two changes at one place stays.
LEMMA PutPut ==
  ASSUME NEW X, NEW Y, NEW F \in [X -> Y], NEW x \in X, NEW a, NEW b
  PROVE  Put(Put(F, x, a), x, b) = Put(F, x, b)
  BY DEF Put

\* The changed place.
LEMMA PutHere ==
  ASSUME NEW X, NEW Y, NEW F \in [X -> Y], NEW x \in X, NEW a
  PROVE  Put(F, x, a)[x] = a
  BY DEF Put

\* A record updated at one place of one process's table.
LEMMA Put2Put ==
  ASSUME NEW F, NEW p, NEW x, NEW e
  PROVE  Put2(F, p, x, e) = Put(F, p, Put(F[p], x, e))
  BY DEF Put, Put2

\* What vm_get_frame leaves of the pages.
Untouched(mc, m, r) ==
  /\ \A va \in VA(mc) : m.pages[1][va].frame = NULL => r.pages[1][va] = m.pages[1][va]
  /\ \A va \in VA(mc) :
       m.pages[1][va].frame # NULL /\ r.pages[1][va].frame = NULL /\ m.pte[1][va].a
         => \A w \in VA(mc) : m.pte[1][w].p => m.pte[1][w].a

\* vm_get_frame when a frame is free.
LEMMA FreeFields ==
  ASSUME ~Reuse, NEW mc, mc = machine, MachineOk(mc), NEW m, NEW P, NEW T, NEW F, NEW B, NEW c, NEW W, NEW D,
         Fields(m, P, T, F, B, c, W, D), F \in [Fr(mc) -> FrameRec], unused(m) # {}, NEW p
  PROVE  \E f \in Fr(mc) : /\ f # NULL /\ ~F[f].live /\ vm_get_frame(m, p).frame = f
                           /\ Fields(vm_get_frame(m, p).vm, P, T, Put(F, f, Taken(Zero)), Append(B, f), c, W, D)
<1> USE DEF NULL
<1>m. m.frames = F
  BY DEF Fields
<1> PICK f : f = Min(unused(m))
  OBVIOUS
<1>1. f \in Fr(mc) /\ ~F[f].live
  <2>1. unused(m) \in SUBSET Nat
    BY DEF unused, Frame, MachineOk
  <2>2. f \in unused(m)
    BY <2>1, MinFacts
  <2> QED BY <1>m, <2>2 DEF unused, Frame, Fr
<1> PICK m1, m2 : m1 = DataOf(m, f, Zero) /\ m2 = TakeOf(m1, f)
  OBVIOUS
<1> PICK z, F1, fr : z = Filled(F[f], Zero) /\ F1 = Put(F, f, z) /\ fr = Taken(F1[f].data)
  OBVIOUS
<1>2. Fields(m1, P, T, F1, B, c, W, D)
  BY DataSet
<1>3. vm_get_frame(m, p).vm = m2 /\ vm_get_frame(m, p).frame = f
  BY InsertLast DEF vm_get_frame, DataOf, TakeOf
<1>4. F1[f].data = Zero
  <2>1. Zero \in Value /\ F[f] \in FrameRec
    BY <1>1 DEF Value
  <2>2. z.data = Zero
    BY <2>1, FilledFacts
  <2> QED BY <1>1, <2>1, <2>2 DEF Put
<1>5. Fields(m2, P, T, Put(F1, f, fr), Append(B, f), c, W, D)
  BY <1>2, TakeFrame
<1>6. Put(F1, f, fr) = Put(F, f, fr)
  BY <1>1 DEF Put
<1>7. f # NULL
  BY <1>1 DEF Fr, MachineOk
<1>8. Fields(vm_get_frame(m, p).vm, P, T, Put(F, f, Taken(Zero)), Append(B, f), c, W, D)
  BY <1>3, <1>4, <1>5, <1>6
<1> QED BY <1>1, <1>3, <1>7, <1>8

\* A free frame is taken: no page loses its own.
LEMMA FreeSolo ==
  ASSUME ~Reuse, NEW mc, mc = machine, MachineOk(mc), 1 \in Procs, NEW m, NEW K, SoloVm(mc, m, K, NULL),
         unused(m) # {}, NEW g, g = vm_get_frame(m, 1)
  PROVE  g.frame # NULL /\ SoloVm(mc, g.vm, K, g.frame) /\ Untouched(mc, m, g.vm)
<1>s. PICK P, T, F, B, c, W, D :
        /\ Solo(mc, P[1], T[1], F, B, c, W, D, K, NULL) /\ Fields(m, P, T, F, B, c, W, D)
        /\ m.pages = P /\ m.pte = T
  BY DEF SoloVm
<1>F. F \in [Fr(mc) -> FrameRec]
  BY <1>s DEF Solo, SoloType
<1>1. PICK f \in Fr(mc) : /\ f # NULL /\ ~F[f].live /\ g.frame = f
                          /\ Fields(g.vm, P, T, Put(F, f, Taken(Zero)), Append(B, f), c, W, D)
  BY <1>s, <1>F, FreeFields
<1>2. Taken(Zero) \in FrameRec /\ Taken(Zero).live /\ Taken(Zero).ref_cnt = 1
  BY TakenFacts DEF Value
<1>3. Solo(mc, P[1], T[1], Put(F, f, Taken(Zero)), Append(B, f), c, W, D, K, f)
  BY <1>1, <1>2, <1>s, SoloFree
<1>4. P = Put(m.pages, 1, P[1]) /\ T = Put(m.pte, 1, T[1])
  BY <1>s DEF SoloVm, Put
<1>5. SoloVm(mc, g.vm, K, f)
  BY <1>1, <1>3, <1>4, SoloFields
<1>6. Untouched(mc, m, g.vm)
  BY <1>s, <1>1 DEF Fields, Untouched
<1> QED BY <1>1, <1>5, <1>6

-----------------------------------------------------------------------------
(* An element goes to the end of the frame table. *)

\* What concatenation and removal do to the elements of a table.
Joined(X, q, s, r) ==
  /\ r \in Seq(X) /\ Len(q) \in Nat /\ Len(s) \in Nat /\ Len(r) = Len(q) + Len(s)
  /\ \A i \in 1 .. Len(q) : r[i] = q[i]
  /\ \A i \in 1 .. Len(s) : r[i + Len(q)] = s[i]

\* Concatenation keeps both parts.
LEMMA JoinAt ==
  ASSUME NEW X, NEW q, NEW s, q \in Seq(X) /\ s \in Seq(X) PROVE Joined(X, q, s, q \o s)
<1>1. PICK r : r = q \o s
  OBVIOUS
<1>2. /\ r \in Seq(X) /\ Len(q) \in Nat /\ Len(s) \in Nat /\ Len(r) = Len(q) + Len(s)
      /\ \A i \in 1 .. Len(q) : r[i] = q[i]
      /\ \A i \in 1 .. Len(s) : r[i + Len(q)] = s[i]
  BY <1>1
<1> QED BY <1>1, <1>2 DEF Joined

Without(X, q, k, r) ==
  /\ r \in Seq(X) /\ Len(r) = Len(q) - 1 /\ DOMAIN r = 1 .. Len(q) - 1
  /\ \A i \in 1 .. Len(q) - 1 : r[i] = IF i < k THEN q[i] ELSE q[i + 1]

\* RemoveAt drops one element.
LEMMA RemoveFacts ==
  ASSUME NEW X, NEW q \in Seq(X), NEW k \in 1 .. Len(q)
  PROVE  Without(X, q, k, RemoveAt(q, k))
<1>1. Len(q) \in Nat /\ DOMAIN q = 1 .. Len(q)
  OBVIOUS
<1>2. PICK a, b, r : a = SubSeq(q, 1, k - 1) /\ b = SubSeq(q, k + 1, Len(q)) /\ r = a \o b
  OBVIOUS
<1>3. a \in Seq(X) /\ Len(a) = k - 1 /\ \A i \in 1 .. k - 1 : a[i] = q[i]
  BY <1>2
<1>4. b \in Seq(X) /\ Len(b) = Len(q) - k /\ \A i \in 1 .. Len(q) - k : b[i] = q[i + k]
  BY <1>2
<1>5. /\ r \in Seq(X) /\ Len(r) = Len(a) + Len(b)
      /\ \A i \in 1 .. Len(a) : r[i] = a[i]
      /\ \A i \in 1 .. Len(b) : r[i + Len(a)] = b[i]
  <2>1. Joined(X, a, b, a \o b)
    BY <1>3, <1>4, JoinAt, Zenon
  <2> QED BY <1>2, <2>1 DEF Joined
<1>6. Len(r) = Len(q) - 1
  BY <1>1, <1>3, <1>4, <1>5
<1>7. ASSUME NEW i \in 1 .. Len(q) - 1 PROVE r[i] = IF i < k THEN q[i] ELSE q[i + 1]
  <2>1. CASE i < k
    BY <1>1, <1>3, <1>5, <2>1
  <2>2. CASE ~(i < k)
    <3>1. PICK j \in 1 .. Len(q) - k : j + (k - 1) = i
      <4>1. i - (k - 1) \in 1 .. Len(q) - k /\ i - (k - 1) + (k - 1) = i
        BY <1>1, <2>2
      <4> QED BY <4>1
    <3>2. r[i] = b[j]
      BY <1>3, <1>4, <1>5, <3>1
    <3>3. b[j] = q[j + k] /\ j + k = i + 1
      BY <1>1, <1>4, <3>1
    <3> QED BY <2>2, <3>2, <3>3
  <2> QED BY <2>1, <2>2
<1>8. r \in Seq(X) /\ DOMAIN r = 1 .. Len(q) - 1
  BY <1>5, <1>6
<1>9. Without(X, q, k, r)
  BY <1>6, <1>7, <1>8, Zenon DEF Without
<1> QED BY <1>2, <1>9 DEF RemoveAt

\* Two tables with the same elements; a table with each element once.
SameElements(q, r) == \A y : (\E i \in DOMAIN r : r[i] = y) <=> (\E i \in DOMAIN q : q[i] = y)
Once(q) == \A i, j \in DOMAIN q : q[i] = q[j] => i = j

\* The victim moved to the end of the table: the elements stay.
LEMMA RotateFacts ==
  ASSUME NEW B \in Seq(Nat), Once(B), NEW f, \E i \in DOMAIN B : B[i] = f,
         NEW R, R = Append(RemoveAt(B, place(B, f)), f)
  PROVE  R \in Seq(Nat) /\ SameElements(B, R) /\ Once(R)
<1>1. PICK k, n, r : k = place(B, f) /\ n = Len(B) /\ r = RemoveAt(B, k)
  OBVIOUS
<1>2. n \in Nat /\ DOMAIN B = 1 .. n /\ k \in 1 .. n /\ B[k] = f /\ f \in Nat
  BY <1>1 DEF place
<1>3. n >= 1 /\ n \in 1 .. n
  BY <1>2
<1>4. /\ r \in Seq(Nat) /\ Len(r) = n - 1 /\ DOMAIN r = 1 .. n - 1
      /\ \A i \in 1 .. n - 1 : r[i] = IF i < k THEN B[i] ELSE B[i + 1]
  <2>1. Without(Nat, B, k, RemoveAt(B, k))
    BY <1>1, <1>2, RemoveFacts
  <2> QED BY <1>1, <2>1 DEF Without
<1>5. R = Append(r, f)
  BY <1>1
<1>6. /\ R \in Seq(Nat) /\ DOMAIN R = 1 .. n
      /\ \A i \in 1 .. n - 1 : R[i] = r[i]
      /\ R[n] = f
  <2>1. R \in Seq(Nat) /\ Len(R) = Len(r) + 1
    BY <1>2, <1>4, <1>5
  <2>2. Len(R) = n
    BY <1>2, <1>4, <2>1
  <2>3. \A i \in 1 .. Len(r) : R[i] = r[i]
    BY <1>2, <1>4, <1>5
  <2>4. R[Len(r) + 1] = f
    BY <1>2, <1>4, <1>5
  <2>5. Len(r) + 1 = n
    BY <1>2, <1>4
  <2>6. DOMAIN R = 1 .. n
    BY <2>1, <2>2
  <2> QED BY <1>4, <2>1, <2>3, <2>4, <2>5, <2>6
<1>7. \A i \in 1 .. n : R[i] = IF i = n THEN f ELSE IF i < k THEN B[i] ELSE B[i + 1]
  <2> SUFFICES ASSUME NEW i \in 1 .. n PROVE R[i] = IF i = n THEN f ELSE IF i < k THEN B[i] ELSE B[i + 1]
    OBVIOUS
  <2>1. CASE i = n
    BY <1>6, <2>1
  <2>2. CASE i # n
    <3>1. i \in 1 .. n - 1
      BY <1>2, <2>2
    <3> QED BY <1>4, <1>6, <2>2, <3>1
  <2> QED BY <2>1, <2>2
<1>8. \A i \in 1 .. n : \E j \in 1 .. n :
         R[i] = B[j] /\ j = IF i = n THEN k ELSE IF i < k THEN i ELSE i + 1
  <2> SUFFICES ASSUME NEW i \in 1 .. n
               PROVE \E j \in 1 .. n : R[i] = B[j] /\ j = IF i = n THEN k ELSE IF i < k THEN i ELSE i + 1
    OBVIOUS
  <2>1. CASE i = n
    BY <1>2, <1>7, <2>1
  <2>2. CASE i # n /\ i < k
    BY <1>2, <1>7, <2>2
  <2>3. CASE i # n /\ ~(i < k)
    <3>1. i + 1 \in 1 .. n
      BY <1>2, <2>3
    <3> QED BY <1>7, <2>3, <3>1
  <2> QED BY <2>1, <2>2, <2>3
<1>9. Once(R)
  <2> SUFFICES ASSUME NEW i \in 1 .. n, NEW j \in 1 .. n, R[i] = R[j] PROVE i = j
    BY <1>6 DEF Once
  <2>1. PICK x \in 1 .. n : R[i] = B[x] /\ x = IF i = n THEN k ELSE IF i < k THEN i ELSE i + 1
    BY <1>8
  <2>2. PICK y \in 1 .. n : R[j] = B[y] /\ y = IF j = n THEN k ELSE IF j < k THEN j ELSE j + 1
    BY <1>8
  <2>3. x = y
    BY <1>2, <2>1, <2>2 DEF Once
  <2> HIDE <1>7, <1>8
  <2>4. i \in Int /\ j \in Int /\ k \in Int /\ n \in Int
    BY <1>2
  <2> QED BY <2>1, <2>2, <2>3, <2>4
<1>10. ASSUME NEW y, \E i \in DOMAIN R : R[i] = y PROVE \E i \in DOMAIN B : B[i] = y
  <2>1. PICK i \in 1 .. n : R[i] = y
    BY <1>6, <1>10
  <2>2. PICK j \in 1 .. n : R[i] = B[j]
    BY <1>8
  <2> QED BY <1>2, <2>1, <2>2
<1>11. ASSUME NEW y, \E i \in DOMAIN B : B[i] = y PROVE \E i \in DOMAIN R : R[i] = y
  <2>1. PICK j \in 1 .. n : B[j] = y
    BY <1>2, <1>11
  <2>0. j \in Int /\ k \in Int /\ n \in Int /\ 1 <= j /\ j <= n /\ 1 <= k /\ k <= n
    BY <1>2
  <2>2. CASE j = k
    BY <1>2, <1>3, <1>6, <2>1, <2>2
  <2>3. CASE j < k
    <3>1. j # n
      BY <2>0, <2>3
    <3>2. R[j] = B[j]
      BY <1>7, <2>3, <3>1
    <3> QED BY <1>6, <2>1, <3>2
  <2>4. CASE j > k
    <3>1. PICK i \in 1 .. n : i + 1 = j /\ i # n /\ ~(i < k)
      <4>1. j - 1 \in 1 .. n /\ (j - 1) + 1 = j /\ j - 1 # n /\ ~(j - 1 < k)
        BY <2>0, <2>4
      <4> QED BY <4>1
    <3>2. R[i] = B[j]
      BY <1>7, <3>1
    <3> QED BY <1>6, <2>1, <3>2
  <2> QED BY <2>0, <2>2, <2>3, <2>4
<1> QED BY <1>6, <1>9, <1>10, <1>11 DEF SameElements

\* The table is as good after it.
LEMMA RotateTable ==
  ASSUME NEW mc, NEW F, NEW B \in Seq(Nat), TableOk(mc, F, B), NEW c, ClockOk(B, c),
         \A i \in DOMAIN B : B[i] # NULL, NEW f, \E i \in DOMAIN B : B[i] = f,
         NEW R, R = Append(RemoveAt(B, place(B, f)), f)
  PROVE  R \in Seq(Nat) /\ TableOk(mc, F, R) /\ ClockOk(R, c)
<1>1. Once(B)
  BY DEF TableOk, Once
<1>2. R \in Seq(Nat) /\ SameElements(B, R) /\ Once(R)
  BY <1>1, RotateFacts
<1>3. TableOk(mc, F, R)
  <2>1. ASSUME NEW i \in DOMAIN R PROVE R[i] \in Fr(mc) /\ F[R[i]].live
    <3>1. PICK j \in DOMAIN B : B[j] = R[i]
      BY <1>2 DEF SameElements
    <3> QED BY <3>1 DEF TableOk
  <2>2. ASSUME NEW g \in Fr(mc), F[g].live PROVE \E i \in DOMAIN R : R[i] = g
    <3>1. \E i \in DOMAIN B : B[i] = g
      BY <2>2 DEF TableOk
    <3> QED BY <1>2, <3>1 DEF SameElements
  <2> QED BY <1>2, <2>1, <2>2 DEF TableOk, Once
<1>4. ClockOk(R, c)
  BY <1>2 DEF ClockOk, SameElements
<1> QED BY <1>2, <1>3, <1>4

-----------------------------------------------------------------------------
(* The eviction *)

\* What an eviction leaves: the page in a slot or in its file, its entry
\* absent, the others as they were.
SwappedOut(mc, va, f, r, P, T, F, B, c, W, D) ==
  \E x, t, V, D2 :
    /\ Fields(r, Put(P, 1, Put(P[1], va, x)), Put(T, 1, Put(T[1], va, t)),
              Put(F, f, OwnedBy(F[f], NoOwner)), B, c, V, D2)
    /\ OutOk(mc, va, f, P[1][va], F, W, D, x, t, V, D2)

\* The eviction of one page: swap_out, then the entry is cleared.
LEMMA SwapOutSolo ==
  ASSUME NEW mc, mc = machine, MachineOk(mc), 1 \in Procs, NEW K,
         NEW n, NEW P, NEW T, NEW F, NEW B, NEW c, NEW W, NEW D, Fields(n, P, T, F, B, c, W, D),
         VmType(mc, P, T), Solo(mc, P[1], T[1], F, B, c, W, D, K, NULL),
         NEW va \in VA(mc), NEW f, f = P[1][va].frame, f # NULL, free_slots(n) # {},
         NEW r, r = pml4_clear_page(swap_out(n, 1, 1, va), 1, va)
  PROVE  SwappedOut(mc, va, f, r, P, T, F, B, c, W, D)
<1> USE DEF NULL, None
<1> PICK o, e, fo, m0 : o = P[1][va] /\ e = T[1][va] /\ fo = OwnedBy(F[f], NoOwner) /\ m0 = swap_out(n, 1, 1, va)
  OBVIOUS
<1>t. /\ P[1] \in [VA(mc) -> PageRec] /\ T[1] \in [VA(mc) -> PteRec] /\ F \in [Fr(mc) -> FrameRec]
      /\ W \in [Sl(mc) -> SwapRec] /\ D \in [mc.maps -> Value] /\ o \in PageRec /\ e \in PteRec
  BY DEF Solo, SoloType
<1>v. VaOk(mc, va, o, e, F, W, D, K[va], NULL)
  BY DEF Solo
<1>f. f \in Fr(mc) /\ F[f] \in FrameRec /\ F[f].data \in Value /\ F[f].data = K[va]
  BY <1>v, <1>t DEF VaOk, FrameRec
<1>m. n.pages = P /\ n.pte = T /\ n.frames = F /\ n.swap = W /\ n.disk = D
  BY DEF Fields
<1>y. P \in [Procs -> [VA(mc) -> PageRec]] /\ T \in [Procs -> [VA(mc) -> PteRec]]
  BY DEF VmType
<1>1. CASE o.kind # "file"
  <2>0. va \notin mc.maps
    <3>1. o.kind \in {"none", "uninit", "anon", "file"}
      BY <1>t DEF PageRec
    <3> QED BY <1>1, <1>v, <3>1 DEF VaOk
  <2>1. m0 = anon_swap_out(n, 1, va)
    BY <1>1, <1>m DEF swap_out
  <2> PICK s : s = Min(free_slots(n))
    OBVIOUS
  <2>2. s \in Sl(mc) /\ ~W[s].used /\ s \in Int
    <3>1. free_slots(n) \in SUBSET Nat
      BY DEF free_slots, Slot, MachineOk
    <3>2. s \in free_slots(n)
      BY <3>1, MinFacts
    <3> QED BY <1>m, <3>1, <3>2 DEF free_slots, Slot, Sl
  <2> PICK x, V, t : x = Stored(o, s) /\ V = Put(W, s, Saved(F[f].data)) /\ t = Absent(e)
    OBVIOUS
  <2>3. Fields(m0, Put2(P, 1, va, x), T, Put(F, f, fo), B, c, V, D)
    BY <2>1, AnonOut
  <2>4. Fields(r, Put2(P, 1, va, x), Put2(T, 1, va, t), Put(F, f, fo), B, c, V, D)
    BY <2>3, ClearPage
  <2>5. Fields(r, Put(P, 1, Put(P[1], va, x)), Put(T, 1, Put(T[1], va, t)), Put(F, f, fo), B, c, V, D)
    BY <2>4, Put2Put
  <2>6. x \in PageRec /\ x.frame = NULL /\ x.kind = o.kind /\ x.slot = s
    BY <1>t, <2>2, StoredFacts
  <2>7. t \in PteRec /\ ~t.p
    BY <1>t, PteFacts
  <2>8. Saved(F[f].data) \in SwapRec /\ Saved(F[f].data).used /\ Saved(F[f].data).data = F[f].data
    <3>1. W[s] \in SwapRec
      BY <1>t, <2>2
    <3> QED BY <1>f, <3>1, SwapFacts
  <2>9. V \in [Sl(mc) -> SwapRec] /\ V[s] = Saved(F[f].data) /\ \A z \in Sl(mc) : z # s => V[z] = W[z]
    BY <1>t, <2>2, <2>8 DEF Put
  <2>10. OutOk(mc, va, f, o, F, W, D, x, t, V, D)
    <3>1. D \in [mc.maps -> Value]
      BY <1>t
    <3>2. /\ x.slot \in Sl(mc) /\ ~W[x.slot].used /\ V[x.slot].used /\ V[x.slot].data = F[f].data
          /\ \A z \in Sl(mc) : z # x.slot => V[z] = W[z]
      BY <2>2, <2>6, <2>8, <2>9
    <3> QED BY <2>0, <2>6, <2>7, <2>9, <3>1, <3>2 DEF OutOk
  <2> QED BY <2>5, <2>10 DEF SwappedOut
<1>2. CASE o.kind = "file"
  <2>0. va \in mc.maps /\ o.slot = None
    BY <1>2, <1>v DEF VaOk
  <2> PICK x, n1 : x = InFrame(o, NULL) /\ n1 = write_back(n, 1, 1, va)
    OBVIOUS
  <2>1. m0 = LoseOf(n1, 1, va, f)
    BY <1>2, <1>m DEF swap_out, file_backed_swap_out, LoseOf
  <2>2. x \in PageRec /\ x.frame = NULL /\ x.kind = o.kind /\ x.slot = None
    BY <1>t, <2>0, InFrameFacts
  <2>3. CASE e.d
    <3> PICK t1, T1, t, D2 : /\ t1 = Clean(e) /\ T1 = Put2(T, 1, va, t1) /\ t = Absent(t1)
                             /\ D2 = Put(D, va, F[f].data)
      OBVIOUS
    <3>1. Fields(n1, P, T1, F, B, c, W, D2)
      BY <2>3, WriteBack
    <3>2. Fields(m0, Put2(P, 1, va, x), T1, Put(F, f, fo), B, c, W, D2)
      BY <2>1, <3>1, LoseFrame
    <3>3. T1[1][va] = t1 /\ Put2(T1, 1, va, t) = Put(T, 1, Put(T[1], va, t))
      BY <1>y DEF Put2, Put
    <3>4. Fields(r, Put2(P, 1, va, x), Put2(T1, 1, va, t), Put(F, f, fo), B, c, W, D2)
      BY <3>2, <3>3, ClearPage
    <3>5. Fields(r, Put(P, 1, Put(P[1], va, x)), Put(T, 1, Put(T[1], va, t)), Put(F, f, fo), B, c, W, D2)
      BY <3>3, <3>4, Put2Put
    <3>6. t1 \in PteRec /\ ~t1.d
      BY <1>t, PteFacts
    <3>7. t \in PteRec /\ ~t.p /\ ~t.d
      BY <3>6, PteFacts
    <3>8. D2 \in [mc.maps -> Value] /\ D2[va] = F[f].data /\ \A w \in mc.maps : w # va => D2[w] = D[w]
      BY <1>t, <1>f, <2>0 DEF Put
    <3>9. OutOk(mc, va, f, o, F, W, D, x, t, W, D2)
      BY <1>t, <2>0, <2>2, <3>7, <3>8 DEF OutOk
    <3> QED BY <3>5, <3>9 DEF SwappedOut
  <2>4. CASE ~e.d
    <3> PICK t : t = Absent(e)
      OBVIOUS
    <3>1. Fields(n1, P, T, F, B, c, W, D)
      BY <2>4, WriteBack
    <3>2. Fields(m0, Put2(P, 1, va, x), T, Put(F, f, fo), B, c, W, D)
      BY <2>1, <3>1, LoseFrame
    <3>4. Fields(r, Put2(P, 1, va, x), Put2(T, 1, va, t), Put(F, f, fo), B, c, W, D)
      BY <3>2, ClearPage
    <3>5. Fields(r, Put(P, 1, Put(P[1], va, x)), Put(T, 1, Put(T[1], va, t)), Put(F, f, fo), B, c, W, D)
      BY <3>4, Put2Put
    <3>7. t \in PteRec /\ ~t.p /\ ~t.d
      BY <1>t, <2>4, PteFacts
    <3>8. D[va] = F[f].data
      BY <1>f, <1>v, <2>0, <2>4 DEF VaOk
    <3>9. OutOk(mc, va, f, o, F, W, D, x, t, W, D)
      BY <1>t, <2>0, <2>2, <3>7, <3>8 DEF OutOk
    <3> QED BY <3>5, <3>9 DEF SwappedOut
  <2> QED BY <2>3, <2>4
<1> QED BY <1>1, <1>2

\* vm_evict_frame, and the frame taken.
LEMMA EvictSolo ==
  ASSUME ~Reuse, NEW mc, mc = machine, MachineOk(mc), 1 \in Procs, NEW m, NEW K, SoloVm(mc, m, K, NULL),
         unused(m) = {}, CanGetFrame(m), NEW g, g = vm_get_frame(m, 1)
  PROVE  g.frame # NULL /\ SoloVm(mc, g.vm, K, g.frame) /\ Untouched(mc, m, g.vm)
<1> USE DEF NULL
<1> PICK P, T, F, B, c, W, D : /\ P = m.pages /\ T = m.pte /\ F = m.frames /\ B = m.frame_table
                               /\ c = m.clock_start /\ W = m.swap /\ D = m.disk
  OBVIOUS
<1>s. Solo(mc, P[1], T[1], F, B, c, W, D, K, NULL) /\ Fields(m, P, T, F, B, c, W, D)
  BY DEF SoloVm
<1>t. /\ P \in [Procs -> [VA(mc) -> PageRec]] /\ T \in [Procs -> [VA(mc) -> PteRec]]
      /\ F \in [Fr(mc) -> FrameRec] /\ B \in Seq(Nat) /\ c \in Nat
      /\ T[1] \in [VA(mc) -> PteRec]
  BY <1>s DEF SoloVm, Solo, SoloType
<1>c. free_slots(m) # {} /\ \A i \in DOMAIN B : B[i] # NULL
  BY DEF CanGetFrame
<1>b. TableOk(mc, F, B) /\ ClockOk(B, c) /\ OwnedOk(mc, P[1], F, NULL)
  BY <1>s DEF Solo
<1>1. B # <<>>
  <2>1. 1 \in Fr(mc) /\ F[1].live
    BY DEF unused, Frame, Fr, MachineOk
  <2>2. PICK i \in DOMAIN B : B[i] = 1
    BY <1>b, <2>1 DEF TableOk
  <2> QED BY <2>2
<1> PICK v, f : v = vm_get_victim(m, 1) /\ f = v.victim
  OBVIOUS
<1>2. PICK u, c2 : /\ Fields(v.vm, P, Put(T, 1, u), F, B, c2, W, D)
                   /\ Clocked(mc, T[1], u, F, B, c2, f)
  <2>1. c = NULL \/ \E i \in DOMAIN B : B[i] = c
    BY <1>b, <1>c DEF ClockOk
  <2>2. Fields(m, P, T, F, B, c, W, D) /\ T \in [Procs -> [VA(mc) -> PteRec]] /\ B \in Seq(Nat)
    BY <1>s, <1>t
  <2> QED BY <1>1, <2>1, <2>2, VictimFacts, Zenon
<1>3. /\ SameBits(mc, T[1], u) /\ u \in [VA(mc) -> PteRec]
      /\ c2 = NULL \/ \E i \in DOMAIN B : B[i] = c2
      /\ \E i \in DOMAIN B : B[i] = f
      /\ T[1][F[f].page[2]].a => \A i \in DOMAIN B : T[1][F[B[i]].page[2]].a
  BY <1>2 DEF Clocked, SameBits
<1>4. f \in Fr(mc) /\ F[f].live /\ f # NULL
  BY <1>3, <1>b, <1>c DEF TableOk
<1>5. PICK x \in VA(mc) : P[1][x].frame = f
  BY <1>4, <1>b DEF OwnedOk
<1>6. \A w \in VA(mc) : P[1][w].frame # NULL => P[1][w].frame \in Fr(mc) /\ F[P[1][w].frame].live /\ F[P[1][w].frame].page = <<1, w>>
  BY <1>s DEF Solo, VaOk
<1>7. F[f].page = <<1, x>>
  BY <1>4, <1>5, <1>6
<1>8. c2 \in Nat
  <2>1. \A i \in DOMAIN B : B[i] \in Nat
    BY <1>t
  <2>2. c2 = NULL \/ \E i \in DOMAIN B : B[i] = c2
    BY <1>3
  <2> QED BY <2>1, <2>2
<1>9. Solo(mc, P[1], u, F, B, c2, W, D, K, NULL)
  BY <1>s, <1>3, <1>8, SoloAccess
<1> PICK T1, m1 : T1 = Put(T, 1, u) /\ m1 = pml4_clear_page(swap_out(v.vm, 1, 1, x), 1, x)
  OBVIOUS
<1>10. T1 \in [Procs -> [VA(mc) -> PteRec]] /\ T1[1] = u
  BY <1>t, <1>3 DEF Put
<1>11. free_slots(v.vm) # {}
  <2>1. v.vm.swap = W
    BY <1>2 DEF Fields
  <2>2. free_slots(v.vm) = free_slots(m)
    BY <2>1 DEF free_slots
  <2> QED BY <1>c, <2>2
<1>12. PICK px, t, V, D2 :
         /\ Fields(m1, Put(P, 1, Put(P[1], x, px)), Put(T1, 1, Put(u, x, t)),
                   Put(F, f, OwnedBy(F[f], NoOwner)), B, c2, V, D2)
         /\ OutOk(mc, x, f, P[1][x], F, W, D, px, t, V, D2)
  <2>1. VmType(mc, P, T1) /\ Solo(mc, P[1], T1[1], F, B, c2, W, D, K, NULL)
    BY <1>t, <1>9, <1>10 DEF VmType
  <2> HIDE DEF NULL
  <2>2. f = P[1][x].frame /\ f # NULL
    BY <1>4, <1>5
  <2>3. Fields(v.vm, P, T1, F, B, c2, W, D)
    BY <1>2
  <2>4. SwappedOut(mc, x, f, m1, P, T1, F, B, c2, W, D)
    BY <2>3, <2>1, <2>2, <1>11, SwapOutSolo
  <2> QED BY <2>4, <1>10 DEF SwappedOut
<1> PICK R, m2, m3, F1, fr : /\ R = RemoveAt(B, place(B, f)) /\ m2 = TableOf(m1, R) /\ m3 = TakeOf(m2, f)
                             /\ F1 = Put(F, f, OwnedBy(F[f], NoOwner)) /\ fr = Taken(F1[f].data)
  OBVIOUS
<1>13. g.vm = m3 /\ g.frame = f
  <2>1. m.frames[v.victim].page[1] = 1 /\ m.frames[v.victim].page[2] = x
    BY <1>7
  <2>2. m1.frame_table = B
    BY <1>12 DEF Fields
  <2>3. vm_evict_frame(m, 1) = [vm |-> [m1 EXCEPT !.frame_table = RemoveAt(@, place(@, v.victim))], frame |-> v.victim]
    BY <2>1 DEF vm_evict_frame
  <2>4. vm_evict_frame(m, 1).vm = m2 /\ vm_evict_frame(m, 1).frame = f
    BY <2>2, <2>3 DEF TableOf
  <2> QED BY <2>4, InsertLast DEF vm_get_frame, TakeOf
<1>14. Fields(m2, Put(P, 1, Put(P[1], x, px)), Put(T1, 1, Put(u, x, t)), F1, R, c2, V, D2)
  BY <1>12, TableSet
<1>15. Fields(m3, Put(P, 1, Put(P[1], x, px)), Put(T1, 1, Put(u, x, t)), Put(F1, f, fr), Append(R, f), c2, V, D2)
  BY <1>14, TakeFrame
<1>16. Put(F1, f, fr) = Put(F, f, fr) /\ Put(T1, 1, Put(u, x, t)) = Put(T, 1, Put(u, x, t))
  BY <1>t, <1>4 DEF Put
<1>17. fr \in FrameRec /\ fr.live /\ fr.ref_cnt = 1
  <2>1. F[f] \in FrameRec
    BY <1>t, <1>4
  <2>2. OwnedBy(F[f], NoOwner) \in FrameRec
    BY <2>1, OwnedByFacts, OwnerFacts
  <2>3. F1[f] = OwnedBy(F[f], NoOwner)
    BY <1>t, <1>4 DEF Put
  <2>4. F1[f].data \in Value
    BY <2>2, <2>3 DEF FrameRec
  <2> QED BY <2>4, TakenFacts
<1>18. Append(R, f) \in Seq(Nat) /\ TableOk(mc, F, Append(R, f)) /\ ClockOk(Append(R, f), c2)
  <2>1. ClockOk(B, c2)
    BY <1>3 DEF ClockOk
  <2> QED BY <1>3, <1>t, <1>b, <1>c, <2>1, RotateTable
<1>19. Solo(mc, Put(P[1], x, px), Put(u, x, t), Put(F, f, fr), Append(R, f), c2, V, D2, K, f)
  <2> HIDE DEF NULL
  <2>1. PICK Q, R2 : Q = P[1] /\ R2 = Append(R, f)
    OBVIOUS
  <2>2. Solo(mc, Q, u, F, B, c2, W, D, K, NULL) /\ f = Q[x].frame /\ f # NULL
    BY <1>4, <1>5, <1>9, <2>1
  <2>3. OutOk(mc, x, f, Q[x], F, W, D, px, t, V, D2)
    BY <1>12, <2>1
  <2>4. R2 \in Seq(Nat) /\ TableOk(mc, F, R2) /\ ClockOk(R2, c2)
    BY <1>18, <2>1
  <2>5. Solo(mc, Put(Q, x, px), Put(u, x, t), Put(F, f, fr), R2, c2, V, D2, K, f)
    BY <1>17, <2>2, <2>3, <2>4, SoloOut, ZenonT(60)
  <2> QED BY <2>1, <2>5
<1>20. SoloVm(mc, m3, K, f)
  <2> HIDE DEF NULL
  <2>1. PICK P2, T2, F2, R2, y, z : /\ P2 = Put(m.pages, 1, y) /\ y = Put(P[1], x, px) /\ P2 = Put(P, 1, y)
                                    /\ T2 = Put(m.pte, 1, z) /\ z = Put(u, x, t) /\ T2 = Put(T, 1, z)
                                    /\ F2 = Put(F, f, fr) /\ R2 = Append(R, f)
    OBVIOUS
  <2>2. Fields(m3, P2, T2, F2, R2, c2, V, D2)
    BY <1>15, <1>16, <2>1
  <2>3. Solo(mc, y, z, F2, R2, c2, V, D2, K, f)
    BY <1>19, <2>1
  <2>4. P2 = Put(m.pages, 1, y) /\ T2 = Put(m.pte, 1, z)
    BY <2>1
  <2> QED BY <2>2, <2>3, <2>4, SoloFields, ZenonT(30)
<1>21. Untouched(mc, m, m3)
  <2>1. m3.pages[1] = Put(P[1], x, px)
    BY <1>15, <1>t DEF Fields, Put
  <2>2. m3.pages[1][x] = px /\ \A w \in VA(mc) : w # x => m3.pages[1][w] = P[1][w]
    BY <2>1, <1>t DEF Put
  <2>3. ASSUME T[1][x].a, NEW w \in VA(mc), T[1][w].p PROVE T[1][w].a
    <3>1. P[1][w].frame # NULL
      BY <1>s, <2>3 DEF Solo, VaOk
    <3>2. PICK i \in DOMAIN B : B[i] = P[1][w].frame
      BY <1>6, <1>b, <3>1 DEF TableOk
    <3>3. F[B[i]].page = <<1, w>>
      BY <1>6, <3>1, <3>2
    <3>4. F[f].page[2] = x /\ F[B[i]].page[2] = w
      BY <1>7, <3>3
    <3> QED BY <1>3, <2>3, <3>4
  <2>4. ASSUME NEW w \in VA(mc), P[1][w].frame = NULL PROVE m3.pages[1][w] = P[1][w]
    <3>1. w # x
      BY <1>4, <1>5, <2>4
    <3> QED BY <2>2, <3>1
  <2>5. ASSUME NEW w \in VA(mc), P[1][w].frame # NULL, m3.pages[1][w].frame = NULL PROVE w = x
    BY <2>2, <2>5
  <2>6. ASSUME NEW w \in VA(mc), P[1][w].frame # NULL, m3.pages[1][w].frame = NULL, T[1][w].a,
               NEW y \in VA(mc), T[1][y].p
        PROVE  T[1][y].a
    <3>1. w = x
      BY <2>5, <2>6
    <3> QED BY <2>3, <2>6, <3>1
  <2>7. m.pages = P /\ m.pte = T
    OBVIOUS
  <2> HIDE DEF NULL
  <2>8. ASSUME NEW w \in VA(mc), m.pages[1][w].frame = NULL PROVE m3.pages[1][w] = m.pages[1][w]
    BY <2>4, <2>7, <2>8
  <2>9. ASSUME NEW w \in VA(mc), m.pages[1][w].frame # NULL, m3.pages[1][w].frame = NULL, m.pte[1][w].a,
               NEW y \in VA(mc), m.pte[1][y].p
        PROVE  m.pte[1][y].a
    BY <2>6, <2>7, <2>9
  <2> QED BY <2>8, <2>9, Zenon DEF Untouched
<1> QED BY <1>4, <1>13, <1>20, <1>21

\* vm_get_frame hands out a frame that no page is in, and keeps every content.
LEMMA GetFrameSolo ==
  ASSUME ~Reuse, NEW mc, mc = machine, MachineOk(mc), 1 \in Procs, NEW m, NEW K, SoloVm(mc, m, K, NULL),
         CanGetFrame(m), NEW g, g = vm_get_frame(m, 1)
  PROVE  g.frame # NULL /\ SoloVm(mc, g.vm, K, g.frame) /\ Untouched(mc, m, g.vm)
<1>1. CASE unused(m) # {}
  BY <1>1, FreeSolo
<1>2. CASE unused(m) = {}
  BY <1>2, EvictSolo
<1> QED BY <1>1, <1>2

-----------------------------------------------------------------------------
(* The claim of a page *)

\* The second of two changes at one address is what stays.
Put2At(F, p, va, a, b) == Put2(F, p, va, a)[p][va] = a /\ Put2(Put2(F, p, va, a), p, va, b) = Put2(F, p, va, b)

\* Two changes of one page.
LEMMA Put2Put2 ==
  ASSUME NEW mc, NEW P, NEW T, VmType(mc, P, T), NEW p \in Procs, NEW va \in VA(mc), NEW a, NEW b
  PROVE  Put2At(P, p, va, a, b)
  BY DEF VmType, Put2, Put2At

\* What a claim leaves: the page in the frame h, with its content, mapped.
Attached(mc, va, h, r, P, T, F, B, c, W, D, k) ==
  \E x, t, fr, V :
    /\ Fields(r, Put2(P, 1, va, x), Put2(T, 1, va, t), Put(F, h, fr), B, c, V, D)
    /\ AttachOk(mc, va, h, P[1][va], W, k, x, t, fr, V)

\* The page is read into its frame.
LEMMA SwapInSolo ==
  ASSUME NEW mc, mc = machine, MachineOk(mc), 1 \in Procs, NEW K, NEW h, h # NULL,
         NEW n, NEW P, NEW T, NEW F, NEW B, NEW c, NEW W, NEW D, Fields(n, P, T, F, B, c, W, D),
         VmType(mc, P, T), Solo(mc, P[1], T[1], F, B, c, W, D, K, h),
         NEW va \in VA(mc), P[1][va].frame = NULL, P[1][va].kind # "none",
         NEW m1, m1 = OwnOf(n, 1, va, h), NEW m2, m2 = pml4_set_page(m1, 1, va, h, Writable(va)),
         NEW r, r = swap_in(m2, 1, va)
  PROVE  Attached(mc, va, h, r, P, T, F, B, c, W, D, K[va])
<1> USE DEF NULL, None
<1> PICK o, x1, t, f1, P1, T1, F1 :
       /\ o = P[1][va] /\ x1 = InFrame(o, h) /\ t = Entry(h, Writable(va)) /\ f1 = OwnedBy(F[h], <<1, va>>)
       /\ P1 = Put2(P, 1, va, x1) /\ T1 = Put2(T, 1, va, t) /\ F1 = Put(F, h, f1)
  OBVIOUS
<1>1. Fields(m1, P1, T, F1, B, c, W, D)
  BY OwnFrame
<1>2. Fields(m2, P1, T1, F1, B, c, W, D)
  BY <1>1, SetPage
<1>t. /\ F \in [Fr(mc) -> FrameRec] /\ W \in [Sl(mc) -> SwapRec] /\ D \in [mc.maps -> Value] /\ K \in [VA(mc) -> Value]
      /\ o \in PageRec /\ T[1][va] \in PteRec
  BY DEF Solo, SoloType
<1>h. h \in Fr(mc) /\ h \in Nat /\ F[h] \in FrameRec /\ F[h].live /\ F[h].ref_cnt = 1
  BY <1>t DEF Solo, OwnedOk, Fr, MachineOk
<1>v. VaOk(mc, va, o, T[1][va], F, W, D, K[va], h)
  BY DEF Solo
<1>n. va \in Nat
  BY DEF VA, MachineOk
<1>3. x1 \in PageRec /\ x1.frame = h /\ x1.kind = o.kind /\ x1.slot = o.slot
  BY <1>h, <1>t, InFrameFacts
<1>4. t \in PteRec /\ t.kva = h /\ t.p /\ (t.w <=> va \notin mc.readonly) /\ ~t.d
  BY <1>h, EntryFacts DEF Writable
<1>5. f1 \in FrameRec /\ f1.live /\ f1.page = <<1, va>> /\ f1.ref_cnt = 1
  BY <1>h, <1>n, OwnedByFacts, OwnerFacts
<1>6. P1[1][va] = x1 /\ \A b : Put2(P1, 1, va, b) = Put2(P, 1, va, b)
  BY Put2Put2 DEF Put2At
<1>7. F1[h] = f1 /\ F1 \in [Fr(mc) -> FrameRec] /\ \A b : Put(F1, h, b) = Put(F, h, b)
  BY <1>t, <1>h, <1>5 DEF Put
<1>m. m2.pages = P1 /\ m2.frames = F1 /\ m2.disk = D /\ m2.swap = W
  BY <1>2 DEF Fields
<1>k. o.kind \in {"uninit", "anon", "file"} /\ m2.pages[1][va] = x1
  BY <1>t, <1>m, <1>6 DEF PageRec
<1>V. o.slot = None => \A s \in Sl(mc) : IF s = o.slot THEN ~W[s].used ELSE W[s] = W[s]
  BY DEF Sl, MachineOk
<1>8. ASSUME NEW d, d = K[va]
      PROVE  Filled(f1, d) \in FrameRec /\ Filled(f1, d).live /\ Filled(f1, d).page = <<1, va>>
             /\ Filled(f1, d).ref_cnt = 1 /\ Filled(f1, d).data = K[va]
  BY <1>5, <1>8, <1>t, FilledFacts
<1>9. CASE o.kind = "uninit"
  <2>0. o.slot = None /\ K[va] = Fresh(mc, D, va)
    BY <1>v, <1>9 DEF VaOk
  <2>1. r = uninit_initialize(m2, 1, va)
    BY <1>k, <1>3, <1>9 DEF swap_in
  <2>2. CASE va \in mc.maps
    <3> PICK x, d, m3 : x = OfFile(x1) /\ d = D[va] /\ m3 = file_backed_initializer(m2, 1, va)
      OBVIOUS
    <3>1. Fields(m3, Put2(P1, 1, va, x), T1, F1, B, c, W, D)
      BY <1>2, <1>6, FileInit
    <3>2. x \in PageRec /\ x.frame = h /\ x.slot = None /\ x.kind = "file"
      BY <1>3, <2>0, KindFacts
    <3>3. m3.pages[1][va].frame = h /\ m3.disk = D
      <4>1. m3.pages = Put2(P, 1, va, x) /\ m3.disk = D
        BY <3>1, <1>6 DEF Fields
      <4>2. m3.pages[1][va] = x
        BY <4>1, Put2Put2 DEF Put2At
      <4> QED BY <3>2, <4>1, <4>2
    <3>4. r = DataOf(m3, h, d)
      BY <2>1, <2>2, <3>3 DEF uninit_initialize, lazy_load_segment, DataOf
    <3>5. Fields(r, Put2(P1, 1, va, x), T1, Put(F1, h, Filled(f1, d)), B, c, W, D)
      BY <3>1, <3>4, <1>7, DataSet
    <3>6. Fields(r, Put2(P, 1, va, x), T1, Put(F, h, Filled(f1, d)), B, c, W, D)
      BY <3>5, <1>6, <1>7
    <3>7. d = K[va]
      BY <2>0, <2>2 DEF Fresh
    <3>8. AttachOk(mc, va, h, o, W, K[va], x, t, Filled(f1, d), W)
      BY <1>t, <1>4, <1>8, <1>V, <2>0, <2>2, <3>2, <3>7 DEF AttachOk
    <3> QED BY <3>6, <3>8 DEF Attached
  <2>3. CASE va \notin mc.maps
    <3> PICK x, m3, f3 : x = Anon(x1) /\ m3 = anon_initializer(m2, 1, va) /\ f3 = Filled(f1, Zero)
      OBVIOUS
    <3>1. Fields(m3, Put2(P1, 1, va, x), T1, Put(F1, h, f3), B, c, W, D)
      <4>1. F1[h].ref_cnt <= 1
        BY <1>5, <1>7
      <4>2. h = P1[1][va].frame
        BY <1>3, <1>6
      <4>3. Fields(m3, Put2(P1, 1, va, Anon(P1[1][va])), T1, Put(F1, h, Filled(F1[h], Zero)), B, c, W, D)
        BY <4>1, <4>2, <1>2, AnonInit
      <4> QED BY <4>3, <1>6, <1>7
    <3>2. x \in PageRec /\ x.frame = h /\ x.slot = None /\ x.kind = "anon"
      BY <1>3, <2>0, KindFacts
    <3>3. CASE va \notin mc.segs
      <4>1. r = m3
        BY <2>1, <2>3, <3>3 DEF uninit_initialize
      <4>2. Zero = K[va]
        BY <2>0, <2>3, <3>3 DEF Fresh
      <4>3. Fields(r, Put2(P, 1, va, x), T1, Put(F, h, f3), B, c, W, D)
        BY <3>1, <4>1, <1>6, <1>7
      <4>4. AttachOk(mc, va, h, o, W, K[va], x, t, f3, W)
        BY <1>t, <1>4, <1>8, <1>V, <2>0, <2>3, <3>2, <4>2 DEF AttachOk
      <4> QED BY <4>3, <4>4 DEF Attached
    <3>4. CASE va \in mc.segs
      <4> PICK f4 : f4 = Filled(f3, Image)
        OBVIOUS
      <4>1. m3.pages[1][va].frame = h
        <5>1. m3.pages = Put2(P, 1, va, x)
          BY <3>1, <1>6 DEF Fields
        <5>2. m3.pages[1][va] = x
          BY <5>1, Put2Put2 DEF Put2At
        <5> QED BY <3>2, <5>2
      <4>2. r = DataOf(m3, h, Image)
        BY <2>1, <2>3, <3>4, <4>1 DEF uninit_initialize, lazy_load_segment, DataOf
      <4>3. Zero \in Value /\ Image \in Value /\ Image = K[va]
        BY <2>0, <2>3, <3>4 DEF Fresh, Value
      <4>4. f3 \in FrameRec /\ f3.live /\ f3.page = <<1, va>> /\ f3.ref_cnt = 1
        BY <1>5, <4>3, FilledFacts
      <4>5. f4 \in FrameRec /\ f4.live /\ f4.page = <<1, va>> /\ f4.ref_cnt = 1 /\ f4.data = K[va]
        BY <4>3, <4>4, FilledFacts
      <4>6. Put(F1, h, f3) = Put(F, h, f3) /\ Put(F, h, f3)[h] = f3 /\ Put(Put(F, h, f3), h, f4) = Put(F, h, f4)
        BY <1>t, <1>h, <1>7 DEF Put
      <4>7. Fields(m3, Put2(P, 1, va, x), T1, Put(F, h, f3), B, c, W, D)
        BY <3>1, <1>6, <4>6
      <4>8. Fields(r, Put2(P, 1, va, x), T1, Put(Put(F, h, f3), h, f4), B, c, W, D)
        BY <4>2, <4>6, <4>7, DataSet
      <4>9. AttachOk(mc, va, h, o, W, K[va], x, t, f4, W)
        BY <1>t, <1>4, <1>V, <2>0, <2>3, <3>2, <4>5 DEF AttachOk
      <4> QED BY <4>6, <4>8, <4>9 DEF Attached
    <3> QED BY <3>3, <3>4
  <2> QED BY <2>2, <2>3
<1>10. CASE o.kind = "anon"
  <2>0. o.slot \in Sl(mc) /\ W[o.slot].data = K[va] /\ va \notin mc.maps
    BY <1>v, <1>10 DEF VaOk
  <2>1. r = anon_swap_in(m2, 1, va)
    BY <1>k, <1>3, <1>10 DEF swap_in
  <2> PICK x, s, f2, V : x = Unstored(x1) /\ s = o.slot /\ f2 = Filled(f1, K[va]) /\ V = Put(W, s, Unused(W[s]))
    OBVIOUS
  <2>2. Fields(r, Put2(P1, 1, va, x), T1, Put(F1, h, f2), B, c, V, D)
    <3>1. h = P1[1][va].frame /\ s = P1[1][va].slot /\ W[s].data = K[va]
      BY <1>3, <1>6, <2>0
    <3>2. Fields(anon_swap_in(m2, 1, va), Put2(P1, 1, va, Unstored(P1[1][va])), T1,
                 Put(F1, h, Filled(F1[h], W[s].data)), B, c, Put(W, s, Unused(W[s])), D)
      BY <3>1, <1>2, AnonIn, Zenon
    <3> QED BY <2>1, <3>1, <3>2, <1>6, <1>7
  <2>3. Fields(r, Put2(P, 1, va, x), T1, Put(F, h, f2), B, c, V, D)
    BY <2>2, <1>6, <1>7
  <2>4. x \in PageRec /\ x.frame = h /\ x.slot = None /\ x.kind = "anon"
    BY <1>3, <1>10, KindFacts
  <2>5. W[s] \in SwapRec /\ W[s].data \in Value
    BY <1>t, <2>0 DEF SwapRec
  <2>6. Unused(W[s]) \in SwapRec /\ ~Unused(W[s]).used
    BY <2>5, SwapFacts
  <2>7. V \in [Sl(mc) -> SwapRec] /\ \A z \in Sl(mc) : IF z = o.slot THEN ~V[z].used ELSE V[z] = W[z]
    BY <1>t, <2>0, <2>6 DEF Put
  <2>8. AttachOk(mc, va, h, o, W, K[va], x, t, f2, V)
    BY <1>4, <1>8, <2>0, <2>4, <2>7 DEF AttachOk
  <2> QED BY <2>3, <2>8 DEF Attached
<1>11. CASE o.kind = "file"
  <2>0. o.slot = None /\ va \in mc.maps /\ D[va] = K[va]
    BY <1>v, <1>11 DEF VaOk, Fresh
  <2>1. r = DataOf(m2, h, D[va])
    BY <1>k, <1>m, <1>3, <1>11 DEF swap_in, file_backed_swap_in, DataOf
  <2> PICK f2 : f2 = Filled(f1, K[va])
    OBVIOUS
  <2>2. Fields(r, P1, T1, Put(F1, h, f2), B, c, W, D)
    BY <1>2, <1>7, <2>0, <2>1, DataSet
  <2>3. Fields(r, Put2(P, 1, va, x1), T1, Put(F, h, f2), B, c, W, D)
    BY <2>2, <1>7
  <2>4. AttachOk(mc, va, h, o, W, K[va], x1, t, f2, W)
    BY <1>t, <1>3, <1>4, <1>8, <1>11, <1>V, <2>0 DEF AttachOk
  <2> QED BY <2>3, <2>4 DEF Attached
<1> QED BY <1>k, <1>9, <1>10, <1>11

\* The clock of vm_get_victim, seen from the processes.
Spared(mc, m, r) ==
  \A va \in VA(mc) :
    m.pages[1][va].frame # NULL /\ r.pages[1][va].frame = NULL /\ m.pte[1][va].a
      => \A w \in VA(mc) : m.pte[1][w].p => m.pte[1][w].a

\* vm_do_claim_page of a page that is not in memory.
LEMMA ClaimSolo ==
  ASSUME ~Reuse, NEW mc, mc = machine, MachineOk(mc), 1 \in Procs, NEW m, NEW K, SoloVm(mc, m, K, NULL),
         CanGetFrame(m), NEW va \in VA(mc), m.pages[1][va].frame = NULL, m.pages[1][va].kind # "none",
         NEW r, r = vm_do_claim_page(m, 1, va)
  PROVE  SoloVm(mc, r, K, NULL) /\ Spared(mc, m, r)
<1>1. PICK h, n : /\ h # NULL /\ SoloVm(mc, n, K, h) /\ Untouched(mc, m, n)
                  /\ vm_get_frame(m, 1).frame = h /\ vm_get_frame(m, 1).vm = n
  BY GetFrameSolo
<1>2. PICK P, T, F, B, c, W, D :
        /\ Solo(mc, P[1], T[1], F, B, c, W, D, K, h) /\ Fields(n, P, T, F, B, c, W, D) /\ VmType(mc, P, T)
  BY <1>1 DEF SoloVm, VmType
<1>p. n.pages = P /\ n.pte = T
  BY <1>2 DEF Fields
<1>3. P[1][va] = m.pages[1][va]
  BY <1>1, <1>p DEF Untouched
<1>4. P[1][va].frame = NULL /\ P[1][va].kind # "none"
  BY <1>3
<1>5. PICK m1, m2 : /\ m1 = OwnOf(n, 1, va, h) /\ m2 = pml4_set_page(m1, 1, va, h, Writable(va))
                    /\ r = swap_in(m2, 1, va)
  BY <1>1 DEF vm_do_claim_page, OwnOf
<1>6. Attached(mc, va, h, r, P, T, F, B, c, W, D, K[va])
  BY <1>1, <1>2, <1>4, <1>5, SwapInSolo
<1>7. PICK x, t, fr, V :
        /\ Fields(r, Put2(P, 1, va, x), Put2(T, 1, va, t), Put(F, h, fr), B, c, V, D)
        /\ AttachOk(mc, va, h, P[1][va], W, K[va], x, t, fr, V)
  BY <1>6 DEF Attached
<1>8. Solo(mc, Put(P[1], va, x), Put(T[1], va, t), Put(F, h, fr), B, c, V, D, K, NULL)
  BY <1>1, <1>2, <1>4, <1>7, SoloAttach
<1>9. Fields(r, Put(P, 1, Put(P[1], va, x)), Put(T, 1, Put(T[1], va, t)), Put(F, h, fr), B, c, V, D)
  BY <1>7, Put2Put
<1>10. SoloVm(mc, r, K, NULL)
  BY <1>1, <1>p, <1>8, <1>9, SoloFields
<1>11. Spared(mc, m, r)
  <2>1. r.pages[1] = Put(P[1], va, x)
    BY <1>2, <1>9 DEF Fields, VmType, Put
  <2>2. r.pages[1][va] = x /\ \A w \in VA(mc) : w # va => r.pages[1][w] = n.pages[1][w]
    BY <1>2, <1>p, <2>1 DEF Put, VmType
  <2>3. x.frame # NULL
    BY <1>1, <1>7 DEF AttachOk
  <2> QED BY <1>1, <2>2, <2>3 DEF Spared, Untouched
<1> QED BY <1>10, <1>11

\* What is left of a mapped page that had the frame f.
Released(mc, m, va, f, P, T, F, B, c, W, D) ==
  \E t, fr, D2 :
    /\ Fields(m, P, Put2(T, 1, va, t), Put(F, f, fr), Nulled(B, f), c, W, D2)
    /\ t \in PteRec /\ ~t.p /\ ~t.d /\ fr \in FrameRec /\ ~fr.live
    /\ D2 \in [mc.maps -> Value] /\ (T[1][va].d => D2[va] = F[f].data) /\ (~T[1][va].d => D2[va] = D[va])
    /\ \A w \in mc.maps : w # va => D2[w] = D[w]

\* file_backed_destroy writes back, unmaps and frees.
LEMMA DestroyFile ==
  ASSUME NEW mc, 1 \in Procs, NEW va \in mc.maps, NEW m, NEW P, NEW T, NEW F, NEW B, NEW c, NEW W, NEW D,
         Fields(m, P, T, F, B, c, W, D), VmType(mc, P, T), D \in [mc.maps -> Value], ~T[1][va].p,
         NEW f, P[1][va].frame = f, f # NULL, NEW X, f \in X, F \in [X -> FrameRec], F[f].ref_cnt < 1
  PROVE  Released(mc, file_backed_destroy(m, 1, va), va, f, P, T, F, B, c, W, D)
<1>a. va \in VA(mc)
  BY DEF VA
<1>b. T[1][va] \in PteRec /\ F[f] \in FrameRec /\ F[f].data \in Value
  BY <1>a DEF VmType, FrameRec
<1>1. PICK n, t1, D2 : /\ n = write_back(m, 1, 1, va) /\ Fields(n, P, Put2(T, 1, va, t1), F, B, c, W, D2)
                      /\ t1 \in PteRec /\ ~t1.d
                      /\ D2 \in [mc.maps -> Value] /\ (T[1][va].d => D2[va] = F[f].data) /\ (~T[1][va].d => D2[va] = D[va])
                      /\ \A w \in mc.maps : w # va => D2[w] = D[w]
  <2>1. CASE T[1][va].d
    <3>1. Fields(write_back(m, 1, 1, va), P, Put2(T, 1, va, Clean(T[1][va])), F, B, c, W, Put(D, va, F[P[1][va].frame].data))
      BY <2>1, WriteBack
    <3>2. Fields(write_back(m, 1, 1, va), P, Put2(T, 1, va, Clean(T[1][va])), F, B, c, W, Put(D, va, F[f].data))
      BY <3>1
    <3>3. Clean(T[1][va]) \in PteRec /\ ~Clean(T[1][va]).d
      BY <1>b, PteFacts
    <3>4. /\ Put(D, va, F[f].data) \in [mc.maps -> Value] /\ Put(D, va, F[f].data)[va] = F[f].data
          /\ \A w \in mc.maps : w # va => Put(D, va, F[f].data)[w] = D[w]
      BY <1>b DEF Put
    <3> QED BY <2>1, <3>2, <3>3, <3>4
  <2>2. CASE ~T[1][va].d
    <3>1. write_back(m, 1, 1, va) = m
      BY <2>2, WriteBack
    <3>2. Put2(T, 1, va, T[1][va]) = T
      BY <1>a DEF VmType, Put2
    <3>3. Fields(write_back(m, 1, 1, va), P, Put2(T, 1, va, T[1][va]), F, B, c, W, D)
      BY <3>1, <3>2
    <3> WITNESS write_back(m, 1, 1, va), T[1][va], D
    <3> QED BY <1>b, <2>2, <3>3
  <2> QED BY <2>1, <2>2
<1>2. Fields(pml4_clear_page(n, 1, va), P, Put2(T, 1, va, Absent(t1)), F, B, c, W, D2)
  <2>1. Fields(pml4_clear_page(n, 1, va), P, Put2(Put2(T, 1, va, t1), 1, va, Absent(Put2(T, 1, va, t1)[1][va])), F, B, c, W, D2)
    BY <1>1, ClearPage
  <2>2. Put2(T, 1, va, t1)[1][va] = t1 /\ Put2(Put2(T, 1, va, t1), 1, va, Absent(t1)) = Put2(T, 1, va, Absent(t1))
    BY <1>a DEF VmType, Put2
  <2> QED BY <2>1, <2>2
<1>3. file_backed_destroy(m, 1, va) = FreeOf(pml4_clear_page(n, 1, va), f)
  <2>1. m.pages = P /\ m.frames = F
    BY DEF Fields
  <2> QED BY <1>1, <2>1 DEF file_backed_destroy, FreeOf
<1>4. Fields(file_backed_destroy(m, 1, va), P, Put2(T, 1, va, Absent(t1)), Put(F, f, Dead(F[f])), Nulled(B, f), c, W, D2)
  BY <1>2, <1>3, FreeSet
<1>5. Absent(t1) \in PteRec /\ ~Absent(t1).p /\ ~Absent(t1).d
  BY <1>1, PteFacts
<1>6. Dead(F[f]) \in FrameRec /\ ~Dead(F[f]).live
  BY <1>b, DeadFacts
<1> SUFFICES \E t, fr, DD :
               /\ Fields(file_backed_destroy(m, 1, va), P, Put2(T, 1, va, t), Put(F, f, fr), Nulled(B, f), c, W, DD)
               /\ t \in PteRec /\ ~t.p /\ ~t.d /\ fr \in FrameRec /\ ~fr.live
               /\ DD \in [mc.maps -> Value] /\ (T[1][va].d => DD[va] = F[f].data) /\ (~T[1][va].d => DD[va] = D[va])
               /\ \A w \in mc.maps : w # va => DD[w] = D[w]
  BY DEF Released
<1> WITNESS Absent(t1), Dead(F[f]), D2
<1> QED BY <1>1, <1>4, <1>5, <1>6

\* spt_remove_page of a mapped page.
LEMMA RemoveSolo ==
  ASSUME NEW mc, MachineOk(mc), 1 \in Procs, NEW m, NEW K, SoloVm(mc, m, K, NULL),
         NEW va \in mc.maps, NEW r, r = spt_remove_page(m, 1, va)
  PROVE  SoloVm(mc, r, K, NULL) /\ (\A w \in VA(mc) : w # va => r.pages[1][w] = m.pages[1][w])
         /\ r.pages[1][va].kind = "none"
<1> USE DEF NULL, None
<1>a. va \in VA(mc)
  BY DEF VA
<1>s. PICK P, T, F, B, c, W, D :
        /\ Solo(mc, P[1], T[1], F, B, c, W, D, K, NULL) /\ Fields(m, P, T, F, B, c, W, D) /\ VmType(mc, P, T)
  BY DEF SoloVm, VmType
<1>p. m.pages = P /\ m.pte = T
  BY <1>s DEF Fields
<1> PICK o, e, t0, T0, m0 : /\ o = P[1][va] /\ e = T[1][va] /\ t0 = Absent(e) /\ T0 = Put2(T, 1, va, t0)
                            /\ m0 = pml4_clear_page(m, 1, va)
  OBVIOUS
<1>t. /\ F \in [Fr(mc) -> FrameRec] /\ W \in [Sl(mc) -> SwapRec] /\ D \in [mc.maps -> Value] /\ B \in Seq(Nat)
      /\ o \in PageRec /\ e \in PteRec
  BY <1>s, <1>a DEF Solo, SoloType
<1>v. VaOk(mc, va, o, e, F, W, D, K[va], NULL)
  BY <1>s, <1>a DEF Solo
<1>1. Fields(m0, P, T0, F, B, c, W, D)
  BY <1>s, ClearPage
<1>2. t0 \in PteRec /\ ~t0.p /\ t0.d = e.d
  BY <1>t, PteFacts
<1>3. T0[1][va] = t0 /\ \A b : Put2(T0, 1, va, b) = Put2(T, 1, va, b)
  BY <1>s, <1>a DEF VmType, Put2
<1>4. o.kind # "anon" /\ o.slot = None
  BY <1>v DEF VaOk
<1>5. m0.pages[1][va] = o
  BY <1>1 DEF Fields
<1>n. NoPage.kind = "none"
  BY DEF NoPage
<1>6. ASSUME NEW t, NEW F2, NEW B2, NEW D2, Fields(r, Put2(P, 1, va, NoPage), Put2(T, 1, va, t), F2, B2, c, W, D2),
             Solo(mc, Put(P[1], va, NoPage), Put(T[1], va, t), F2, B2, c, W, D2, K, NULL)
      PROVE  SoloVm(mc, r, K, NULL) /\ (\A w \in VA(mc) : w # va => r.pages[1][w] = m.pages[1][w])
             /\ r.pages[1][va].kind = "none"
  <2>1. Fields(r, Put(P, 1, Put(P[1], va, NoPage)), Put(T, 1, Put(T[1], va, t)), F2, B2, c, W, D2)
    BY <1>6, Put2Put
  <2>2. SoloVm(mc, r, K, NULL)
    BY <1>6, <1>p, <2>1, SoloFields
  <2>3. r.pages = Put(P, 1, Put(P[1], va, NoPage))
    BY <2>1 DEF Fields
  <2>a. P \in [Procs -> [VA(mc) -> PageRec]] /\ P[1] \in [VA(mc) -> PageRec]
    BY <1>s DEF VmType
  <2>b. Put(P, 1, Put(P[1], va, NoPage))[1] = Put(P[1], va, NoPage)
    BY <2>a DEF Put
  <2>c. Put(P[1], va, NoPage)[va] = NoPage /\ \A w \in VA(mc) : w # va => Put(P[1], va, NoPage)[w] = P[1][w]
    BY <1>a, <2>a DEF Put
  <2>4. r.pages[1][va] = NoPage /\ \A w \in VA(mc) : w # va => r.pages[1][w] = P[1][w]
    BY <2>3, <2>b, <2>c
  <2> QED BY <1>n, <1>p, <2>2, <2>4
<1>7. CASE o.frame = NULL
  <2>0. ~e.d
    BY <1>7, <1>v DEF VaOk
  <2>1. PICK t, m2 : /\ r = PageOf(m2, 1, va, NoPage) /\ Fields(m2, P, Put2(T, 1, va, t), F, B, c, W, D)
                     /\ t \in PteRec /\ ~t.p /\ ~t.d
    <3>1. CASE o.kind = "file"
      <4> PICK t, n1, m2 : t = Absent(t0) /\ n1 = write_back(m0, 1, 1, va) /\ m2 = pml4_clear_page(n1, 1, va)
        OBVIOUS
      <4>1. n1 = m0
        BY <1>1, <1>2, <1>3, <2>0, WriteBack
      <4>2. Fields(m2, P, Put2(T0, 1, va, t), F, B, c, W, D)
        BY <1>1, <1>3, <4>1, ClearPage
      <4>3. r = PageOf(m2, 1, va, NoPage)
        BY <1>5, <1>7, <3>1 DEF spt_remove_page, vm_dealloc_page, file_backed_destroy, PageOf
      <4>4. t \in PteRec /\ ~t.p /\ ~t.d
        BY <1>2, <2>0, PteFacts
      <4> QED BY <1>3, <4>2, <4>3, <4>4
    <3>2. CASE o.kind # "file"
      <4>1. r = PageOf(m0, 1, va, NoPage)
        BY <1>4, <1>5, <1>7, <3>2 DEF spt_remove_page, vm_dealloc_page, PageOf
      <4> QED BY <1>1, <1>2, <2>0, <4>1
    <3> QED BY <3>1, <3>2
  <2>2. Fields(r, Put2(P, 1, va, NoPage), Put2(T, 1, va, t), F, B, c, W, D)
    BY <2>1, PageSet
  <2>3. Solo(mc, Put(P[1], va, NoPage), Put(T[1], va, t), F, B, c, W, D, K, NULL)
    BY <1>s, <1>7, <2>1, SoloDrop
  <2> QED BY <1>6, <2>2, <2>3
<1>8. CASE o.frame # NULL
  <2>1. PICK f : f = P[1][va].frame /\ f \in Fr(mc) /\ F[f].live /\ f # NULL /\ F[f] \in FrameRec /\ F[f].ref_cnt = 1
    <3>1. o.frame \in Fr(mc) /\ F[o.frame].live /\ o.frame # NULL
      BY <1>8, <1>v DEF VaOk
    <3>2. F[o.frame].ref_cnt = 1
      BY <3>1, <1>s DEF Solo, OwnedOk
    <3> QED BY <1>t, <3>1, <3>2
  <2>2. o.kind = "file"
    <3>1. o.kind \in {"none", "uninit", "anon", "file"}
      BY <1>t DEF PageRec
    <3> QED BY <1>4, <1>8, <1>v, <3>1 DEF VaOk
  <2>3. PICK f1 \in FrameRec : f1 = Counted(F[f], F[f].ref_cnt - 1) /\ f1.ref_cnt = 0 /\ f1.data = F[f].data
    <3>1. F[f].ref_cnt - 1 \in Int /\ F[f].ref_cnt - 1 = 0
      BY <2>1
    <3> QED BY <2>1, <3>1, CountedFacts
  <2>4. PICK F1 : F1 \in [Fr(mc) -> FrameRec] /\ F1 = Put(F, f, f1) /\ F1[f] = f1 /\ \A b : Put(F1, f, b) = Put(F, f, b)
    <3>1. Put(F, f, f1) \in [Fr(mc) -> FrameRec] /\ Put(F, f, f1)[f] = f1
      BY <1>t, <2>1, <2>3 DEF Put
    <3>2. \A b : Put(Put(F, f, f1), f, b) = Put(F, f, b)
      BY <1>t, <2>1 DEF Put
    <3> QED BY <3>1, <3>2
  <2>5. PICK m1 : m1 = StoreOf(m0, f, F[f].ref_cnt - 1) /\ Fields(m1, P, T0, F1, B, c, W, D)
    BY <1>1, <2>3, <2>4, StoreSet
  <2>6. T0[1][va] = t0 /\ VmType(mc, P, T0)
    BY <1>2, <1>s, <1>a DEF VmType, Put2
  <2>7. Released(mc, file_backed_destroy(m1, 1, va), va, f, P, T0, F1, B, c, W, D)
    <3>1. F1[f].ref_cnt < 1 /\ ~T0[1][va].p /\ P[1][va].frame = f
      BY <2>1, <2>3, <2>4, <2>6, <1>2
    <3> QED BY <1>t, <2>1, <2>4, <2>5, <2>6, <3>1, DestroyFile
  <2>8. PICK t, fr, D2 :
          /\ Fields(file_backed_destroy(m1, 1, va), P, Put2(T0, 1, va, t), Put(F1, f, fr), Nulled(B, f), c, W, D2)
          /\ t \in PteRec /\ ~t.p /\ ~t.d /\ fr \in FrameRec /\ ~fr.live
          /\ D2 \in [mc.maps -> Value] /\ (T0[1][va].d => D2[va] = F1[f].data) /\ (~T0[1][va].d => D2[va] = D[va])
          /\ \A w \in mc.maps : w # va => D2[w] = D[w]
    BY <2>7 DEF Released
  <2>9. r = PageOf(file_backed_destroy(m1, 1, va), 1, va, NoPage)
    <3>0. m.frames[m.pages[1][va].frame] = F[f]
      BY <1>s, <1>p, <2>1 DEF Fields
    <3>1. r = vm_dealloc_page(m0, 1, va, F[f].ref_cnt)
      BY <3>0 DEF spt_remove_page
    <3>2. m0.pages[1][va].frame = f /\ f # NULL /\ m0.pages[1][va].kind = "file"
      BY <1>5, <2>1, <2>2
    <3>3. m1 = [m0 EXCEPT !.frames[f].ref_cnt = F[f].ref_cnt - 1]
      BY <2>5 DEF StoreOf
    <3> QED BY <3>1, <3>2, <3>3 DEF vm_dealloc_page, PageOf
  <2>10. Fields(r, Put2(P, 1, va, NoPage), Put2(T, 1, va, t), Put(F, f, fr), Nulled(B, f), c, W, D2)
    <3>1. Fields(r, Put2(P, 1, va, NoPage), Put2(T0, 1, va, t), Put(F1, f, fr), Nulled(B, f), c, W, D2)
      BY <2>8, <2>9, PageSet
    <3> QED BY <1>3, <2>4, <3>1
  <2>11. D2[va] = F[f].data
    BY <1>8, <1>v, <1>2, <2>1, <2>3, <2>4, <2>6, <2>8 DEF VaOk
  <2>12. /\ Nulled(B, f) \in Seq(Nat) /\ DOMAIN Nulled(B, f) = DOMAIN B
         /\ \A i \in DOMAIN B : Nulled(B, f)[i] = IF B[i] = f THEN NULL ELSE B[i]
    <3>1. B \in [1 .. Len(B) -> Nat] /\ Len(B) \in Nat /\ DOMAIN B = 1 .. Len(B)
      BY <1>t
    <3>2. Nulled(B, f) \in [1 .. Len(B) -> Nat]
      BY <3>1 DEF Nulled
    <3>3. Nulled(B, f) \in Seq(Nat)
      BY <3>1, <3>2
    <3> QED BY <3>3 DEF Nulled
  <2>13. PICK B2 \in Seq(Nat) : /\ B2 = Nulled(B, f) /\ DOMAIN B2 = DOMAIN B
                               /\ \A i \in DOMAIN B : B2[i] = IF B[i] = f THEN NULL ELSE B[i]
    BY <2>12
  <2>14. Solo(mc, Put(P[1], va, NoPage), Put(T[1], va, t), Put(F, f, fr), B2, c, W, D2, K, NULL)
    <3>1. t \in PteRec /\ ~t.p /\ ~t.d /\ fr \in FrameRec /\ ~fr.live
      BY <2>8
    <3>2. D2 \in [mc.maps -> Value] /\ \A w \in mc.maps : w # va => D2[w] = D[w]
      BY <2>8
    <3>3. f = P[1][va].frame /\ f # NULL
      BY <2>1
    <3>4. ReleaseOk(mc, va, f, t, fr, B, B2, F, D, D2)
      BY <2>11, <2>13, <3>1, <3>2 DEF ReleaseOk
    <3> QED BY <1>s, <3>3, <3>4, SoloRelease
  <2> QED BY <1>6, <2>10, <2>13, <2>14
<1> QED BY <1>7, <1>8

-----------------------------------------------------------------------------
(* What the program of a process alone does. *)

\* The processor's bits, and the record after a read, a write and a mmap.
Used(t) == [t EXCEPT !.a = TRUE]
Touched(t) == [t EXCEPT !.a = TRUE, !.d = TRUE]
UseOf(m, p, va) == [m EXCEPT !.pte[p][va].a = TRUE]
TouchOf(m, p, va, f, v) == [m EXCEPT !.pte[p][va] = [@ EXCEPT !.a = TRUE, !.d = TRUE], !.frames[f].data = v]
MapOf(m, p, x) == [m EXCEPT !.pages[p] = x]

\* The processor sets the accessed and the dirty bit.
LEMMA UseFacts ==
  ASSUME NEW t \in PteRec
  PROVE  /\ Used(t) \in PteRec /\ Used(t).p = t.p /\ Used(t).w = t.w /\ Used(t).kva = t.kva /\ Used(t).d = t.d
         /\ Touched(t) \in PteRec /\ Touched(t).p = t.p /\ Touched(t).w = t.w /\ Touched(t).kva = t.kva
         /\ Touched(t).d
  BY DEF PteRec, Used, Touched

\* A read.
LEMMA UseSet ==
  ASSUME NEW m, NEW P, NEW T, NEW F, NEW B, NEW c, NEW W, NEW D, Fields(m, P, T, F, B, c, W, D),
         NEW p, NEW va
  PROVE  Fields(UseOf(m, p, va), P, Put2(T, p, va, Used(T[p][va])), F, B, c, W, D)
  BY DEF Fields, VmRec, UseOf, Put2, Used

\* A write.
LEMMA TouchSet ==
  ASSUME NEW m, NEW P, NEW T, NEW F, NEW B, NEW c, NEW W, NEW D, Fields(m, P, T, F, B, c, W, D),
         NEW p, NEW va, NEW f, NEW v
  PROVE  Fields(TouchOf(m, p, va, f, v), P, Put2(T, p, va, Touched(T[p][va])), Put(F, f, Filled(F[f], v)), B, c, W, D)
  BY DEF Fields, VmRec, TouchOf, Put2, Put, Touched, Filled

\* New pages for one process.
LEMMA MapSet ==
  ASSUME NEW m, NEW P, NEW T, NEW F, NEW B, NEW c, NEW W, NEW D, Fields(m, P, T, F, B, c, W, D),
         NEW p, NEW x
  PROVE  Fields(MapOf(m, p, x), Put(P, p, x), T, F, B, c, W, D)
  BY DEF Fields, VmRec, MapOf, Put

\* The page tables and the fields of a process alone.
LEMMA SoloOpen ==
  ASSUME NEW mc, NEW m, NEW K, SoloVm(mc, m, K, NULL)
  PROVE  \E P, T, F, B, c, W, D :
           /\ Solo(mc, P[1], T[1], F, B, c, W, D, K, NULL) /\ Fields(m, P, T, F, B, c, W, D) /\ VmType(mc, P, T)
           /\ m.pages = P /\ m.pte = T
  BY DEF SoloVm, VmType

\* A read keeps everything.
LEMMA ReadSolo ==
  ASSUME NEW mc, MachineOk(mc), 1 \in Procs, NEW m, NEW K, SoloVm(mc, m, K, NULL), NEW va \in VA(mc)
  PROVE  SoloVm(mc, UseOf(m, 1, va), K, NULL) /\ UseOf(m, 1, va).pages = m.pages
<1>1. PICK P, T, F, B, c, W, D :
        /\ Solo(mc, P[1], T[1], F, B, c, W, D, K, NULL) /\ Fields(m, P, T, F, B, c, W, D) /\ VmType(mc, P, T)
        /\ m.pages = P /\ m.pte = T
  BY SoloOpen
<1>2. PICK t : t = Used(T[1][va]) /\ t \in PteRec /\ t.p = T[1][va].p /\ t.w = T[1][va].w
               /\ t.kva = T[1][va].kva /\ t.d = T[1][va].d
  BY <1>1, UseFacts DEF VmType
<1>3. Fields(UseOf(m, 1, va), P, Put(T, 1, Put(T[1], va, t)), F, B, c, W, D)
  BY <1>1, <1>2, UseSet, Put2Put
<1>4. SameBits(mc, T[1], Put(T[1], va, t))
  BY <1>1, <1>2 DEF SameBits, VmType, Put
<1>5. c \in Nat
  BY <1>1 DEF Solo, SoloType
<1>6. Solo(mc, P[1], Put(T[1], va, t), F, B, c, W, D, K, NULL)
  BY <1>1, <1>4, <1>5, SoloAccess
<1>7. P = Put(P, 1, P[1])
  BY <1>1 DEF VmType, Put
<1>8. SoloVm(mc, UseOf(m, 1, va), K, NULL)
  BY <1>1, <1>3, <1>6, <1>7, SoloFields
<1> QED BY <1>1, <1>3, <1>8 DEF Fields

\* A write through a present entry reaches the page's frame, and only it.
LEMMA WriteSolo ==
  ASSUME NEW mc, MachineOk(mc), 1 \in Procs, NEW m, NEW K, SoloVm(mc, m, K, NULL), NEW va \in VA(mc),
         m.pte[1][va].p, NEW v \in Value, NEW f, f = m.pte[1][va].kva
  PROVE  /\ SoloVm(mc, TouchOf(m, 1, va, f, v), Put(K, va, v), NULL)
         /\ TouchOf(m, 1, va, f, v).pages = m.pages
<1>1. PICK P, T, F, B, c, W, D :
        /\ Solo(mc, P[1], T[1], F, B, c, W, D, K, NULL) /\ Fields(m, P, T, F, B, c, W, D) /\ VmType(mc, P, T)
        /\ m.pages = P /\ m.pte = T
  BY SoloOpen
<1>2. PICK t : t = Touched(T[1][va]) /\ t \in PteRec /\ t.p = T[1][va].p /\ t.w = T[1][va].w
               /\ t.kva = T[1][va].kva /\ t.d
  BY <1>1, UseFacts DEF VmType
<1>3. f = P[1][va].frame /\ f # NULL /\ f \in Fr(mc) /\ F[f].live
  BY <1>1 DEF Solo, VaOk
<1>4. F[f] \in FrameRec
  BY <1>1, <1>3 DEF Solo, SoloType
<1>5. PICK fr : fr = Filled(F[f], v) /\ fr \in FrameRec /\ fr.data = v /\ fr.live = F[f].live
                /\ fr.page = F[f].page /\ fr.ref_cnt = F[f].ref_cnt
  BY <1>4, FilledFacts
<1>6. Fields(TouchOf(m, 1, va, f, v), P, Put(T, 1, Put(T[1], va, t)), Put(F, f, fr), B, c, W, D)
  BY <1>1, <1>2, <1>5, TouchSet, Put2Put
<1>7. Solo(mc, P[1], Put(T[1], va, t), Put(F, f, fr), B, c, W, D, Put(K, va, v), NULL)
  BY <1>1, <1>2, <1>3, <1>5, SoloWrite
<1>8. P = Put(P, 1, P[1])
  BY <1>1 DEF VmType, Put
<1>9. SoloVm(mc, TouchOf(m, 1, va, f, v), Put(K, va, v), NULL)
  BY <1>1, <1>6, <1>7, <1>8, SoloFields
<1> QED BY <1>1, <1>6, <1>9 DEF Fields

\* Pages that were not there are made.
LEMMA MapSolo ==
  ASSUME NEW mc, MachineOk(mc), 1 \in Procs, NEW m, NEW K, SoloVm(mc, m, K, NULL),
         NEW x, x \in [VA(mc) -> PageRec],
         \A w \in VA(mc) : \/ x[w] = m.pages[1][w]
                           \/ /\ m.pages[1][w].kind = "none" /\ x[w].kind \in {"none", "uninit"}
                              /\ x[w].frame = NULL /\ x[w].slot = None
  PROVE  /\ SoloVm(mc, MapOf(m, 1, x), K, NULL)
         /\ MapOf(m, 1, x).pages[1] = x /\ MapOf(m, 1, x).pte = m.pte
<1>1. PICK P, T, F, B, c, W, D :
        /\ Solo(mc, P[1], T[1], F, B, c, W, D, K, NULL) /\ Fields(m, P, T, F, B, c, W, D) /\ VmType(mc, P, T)
        /\ m.pages = P /\ m.pte = T
  BY SoloOpen
<1>2. Solo(mc, x, T[1], F, B, c, W, D, K, NULL)
  BY <1>1, SoloMap
<1>3. Fields(MapOf(m, 1, x), Put(P, 1, x), T, F, B, c, W, D)
  BY <1>1, MapSet
<1>4. T = Put(T, 1, T[1]) /\ Put(P, 1, x)[1] = x
  BY <1>1 DEF VmType, Put
<1>5. SoloVm(mc, MapOf(m, 1, x), K, NULL)
  BY <1>1, <1>2, <1>3, <1>4, SoloFields
<1> QED BY <1>1, <1>3, <1>4, <1>5 DEF Fields

-----------------------------------------------------------------------------
(* The steps of a machine whose program never forks. *)

\* No call is under way but munmap's loop, and only process 1 lives.
SoloCalls ==
  /\ life = [p \in Procs |-> IF p = 1 THEN "alive" ELSE "unborn"]
  /\ copying = [p \in Procs |-> Idle] /\ making = [p \in Procs |-> NULL]
  /\ counting = [p \in Procs |-> Idle]
  /\ unmapping \in [Procs -> Int] /\ \A q \in Procs : q # 1 => unmapping[q] = None
  /\ unmapping[1] # None => machine.maps # {}

\* The invariant of a machine whose program does not fork.
SoloInv ==
  /\ SoloVm(machine, vm, kept[1], NULL) /\ kept \in [Procs -> [VA(machine) -> Value]]
  /\ SoloCalls

\* The machine that runs is as assumed.
LEMMA MachineFacts ==
  ASSUME machine \in Machines
  PROVE  /\ MachineOk(machine) /\ machine.readonly \subseteq machine.segs
         /\ machine.forks \in BOOLEAN /\ machine.unmaps \in BOOLEAN
         /\ machine.forks => machine.maps = {}
  BY MachinesAssumption DEF MachineOk

\* The processes.
LEMMA ProcsFacts == 1 \in Procs /\ \A p \in Procs : p \in Nat /\ p # 0
  BY MachinesAssumption DEF Procs

\* The machine's sets.
LEMMA VAFacts == VAs = VA(machine) /\ Frame = Fr(machine) /\ Slot = Sl(machine)
  BY DEF VAs, VA, Frame, Fr, Slot, Sl

\* The program starts with its segments untouched and no frame in use.
LEMMA SoloInit ==
  ASSUME Init, ~machine.forks
  PROVE  SoloInv
<1> USE DEF NULL, None
<1>0. machine \in Machines
  BY DEF Init
<1>m. MachineOk(machine)
  BY <1>0, MachineFacts
<1>1. PICK P, T, F, B, W, D :
        /\ P = [p \in Procs |-> [va \in VAs |->
                          IF p = 1 /\ va \in machine.segs
                          THEN [NoPage EXCEPT !.kind = "uninit"] ELSE NoPage]]
        /\ T = [p \in Procs |-> [va \in VAs |-> NoPte]]
        /\ F = [f \in Frame |-> FreeFrame] /\ B = <<>>
        /\ W = [s \in Slot |-> [used |-> FALSE, data |-> Zero]] /\ D = [va \in machine.maps |-> Zero]
  OBVIOUS
<1>2. Fields(vm, P, T, F, B, NULL, W, D)
  BY <1>1 DEF Init, Fields, VmRec
<1>3. /\ NoPage \in PageRec /\ NoPage.frame = NULL /\ NoPage.slot = None /\ NoPage.kind = "none"
      /\ [NoPage EXCEPT !.kind = "uninit"] \in PageRec
      /\ [NoPage EXCEPT !.kind = "uninit"].kind = "uninit"
      /\ [NoPage EXCEPT !.kind = "uninit"].frame = NULL /\ [NoPage EXCEPT !.kind = "uninit"].slot = None
  BY DEF NoPage, PageRec
<1>4. NoPte \in PteRec /\ ~NoPte.p /\ ~NoPte.d
  BY DEF NoPte, PteRec
<1>5. FreeFrame \in FrameRec /\ ~FreeFrame.live
  <2> HIDE DEF NoOwner
  <2> QED BY OwnerFacts DEF FreeFrame, FrameRec, Value
<1>6. /\ P \in [Procs -> [VA(machine) -> PageRec]] /\ T \in [Procs -> [VA(machine) -> PteRec]]
      /\ F \in [Fr(machine) -> FrameRec]
  BY <1>1, <1>3, <1>4, <1>5, VAFacts
<1>7. /\ W \in [Sl(machine) -> SwapRec] /\ D \in [machine.maps -> Value] /\ B \in Seq(Nat)
      /\ \A s \in Sl(machine) : ~W[s].used
  BY <1>1, VAFacts DEF SwapRec, Value
<1>8. kept \in [Procs -> [VA(machine) -> Value]] /\ \A va \in VA(machine) : kept[1][va] = Fresh(machine, D, va)
  BY <1>m, <1>1, ProcsFacts, VAFacts DEF Init, Value, Fresh, MachineOk
<1>9. ASSUME NEW va \in VA(machine) PROVE VaOk(machine, va, P[1][va], T[1][va], F, W, D, kept[1][va], NULL)
  <2>1. T[1][va] = NoPte /\ P[1][va].frame = NULL /\ P[1][va].slot = None /\ P[1][va].kind \in {"none", "uninit"}
    BY <1>1, <1>3, ProcsFacts, VAFacts
  <2> QED BY <1>4, <1>8, <2>1 DEF VaOk
<1>10. \A f \in Fr(machine) : ~F[f].live
  BY <1>1, <1>5, VAFacts
<1>11. Solo(machine, P[1], T[1], F, B, NULL, W, D, kept[1], NULL)
  <2>1. SoloType(machine, P[1], T[1], F, B, NULL, W, D, kept[1])
    BY <1>6, <1>7, <1>8, ProcsFacts DEF SoloType
  <2>2. SlotsOk(machine, P[1], W)
    <3>1. \A va \in VA(machine) : P[1][va].slot = None
      BY <1>1, <1>3, ProcsFacts, VAFacts
    <3> QED BY <1>7, <3>1 DEF SlotsOk
  <2>3. OwnedOk(machine, P[1], F, NULL)
    BY <1>10 DEF OwnedOk
  <2>4. TableOk(machine, F, B) /\ ClockOk(B, NULL)
    BY <1>1, <1>10 DEF TableOk, ClockOk
  <2> QED BY <1>9, <2>1, <2>2, <2>3, <2>4 DEF Solo
<1>12. \A q \in Procs : \A va \in VA(machine) : q # 1 => P[q][va] = NoPage /\ T[q][va] = NoPte
  BY <1>1, VAFacts
<1>13. SoloVm(machine, vm, kept[1], NULL)
  BY <1>2, <1>6, <1>11, <1>12 DEF SoloVm, Fields
<1>14. SoloCalls
  BY ProcsFacts DEF Init, SoloCalls
<1> QED BY <1>8, <1>13, <1>14 DEF SoloInv

\* In such a machine only process 1 runs, and no page is shared.
LEMMA SoloRuns ==
  ASSUME SoloInv, NEW p \in Procs
  PROVE  /\ life[p] = "alive" => p = 1
         /\ life[p] # "dead" /\ copying[p] = Idle /\ making[p] = NULL
         /\ \A va \in VA(machine) : p # 1 => vm.pages[p][va] = NoPage /\ vm.pte[p][va] = NoPte
<1>1. life[p] = IF p = 1 THEN "alive" ELSE "unborn"
  BY DEF SoloInv, SoloCalls
<1>2. copying[p] = Idle /\ making[p] = NULL
  BY DEF SoloInv, SoloCalls
<1>3. \A va \in VA(machine) : p # 1 => vm.pages[p][va] = NoPage /\ vm.pte[p][va] = NoPte
  BY DEF SoloInv, SoloVm
<1> QED BY <1>1, <1>2, <1>3

\* Only a page of process 1 can leave the memory.
LEMMA SoloUsedKept ==
  ASSUME SoloInv, machine' = machine, \/ Spared(machine, vm, vm')
                                      \/ \A va \in VA(machine) : \/ vm'.pages[1][va] = vm.pages[1][va]
                                                                 \/ vm'.pages[1][va].kind = "none"
  PROVE  UsedKept
<1> USE DEF NULL
<1> SUFFICES ASSUME NEW p \in Procs, NEW va \in VA(machine),
                    vm.pte[p][va].a, vm.pages[p][va].frame # NULL, vm.pages[p][va].kind # "none",
                    vm'.pages[p][va].kind = vm.pages[p][va].kind, vm'.pages[p][va].frame = NULL,
                    NEW w \in VA(machine), vm.pte[p][w].p
             PROVE  vm.pte[p][w].a
  BY VAFacts DEF UsedKept, Page
<1>1. p = 1
  <2>1. NoPage.frame = NULL
    BY DEF NoPage
  <2> QED BY <2>1, SoloRuns
<1>2. CASE Spared(machine, vm, vm')
  BY <1>1, <1>2 DEF Spared
<1>3. CASE \A v \in VA(machine) : vm'.pages[1][v] = vm.pages[1][v] \/ vm'.pages[1][v].kind = "none"
  BY <1>1, <1>3
<1> QED BY <1>2, <1>3

\* A step that leaves the calls alone and keeps vm and kept right keeps all right.
LEMMA SoloKept ==
  ASSUME SoloInv, machine' = machine, life' = life, copying' = copying, making' = making,
         counting' = counting,
         unmapping' \in [Procs -> Int], \A q \in Procs : q # 1 => unmapping'[q] = None,
         unmapping'[1] # None => machine.maps # {},
         SoloVm(machine, vm', kept'[1], NULL), kept' \in [Procs -> [VA(machine) -> Value]]
  PROVE  SoloInv'
<1>1. SoloCalls'
  BY DEF SoloInv, SoloCalls
<1>2. SoloVm(machine', vm', kept[1]', NULL)
  OBVIOUS
<1> QED BY <1>1, <1>2 DEF SoloInv

\* The same when no call begins or ends.
LEMMA SoloSame ==
  ASSUME SoloInv, UNCHANGED <<machine, life, calls>>,
         SoloVm(machine, vm', kept'[1], NULL), kept' \in [Procs -> [VA(machine) -> Value]]
  PROVE  SoloInv'
<1>1. /\ machine' = machine /\ life' = life /\ copying' = copying /\ making' = making
      /\ unmapping' = unmapping /\ counting' = counting
  BY DEF calls
<1>2. /\ unmapping \in [Procs -> Int] /\ \A q \in Procs : q # 1 => unmapping[q] = None
      /\ unmapping[1] # None => machine.maps # {}
  BY DEF SoloInv, SoloCalls
<1> QED BY <1>1, <1>2, SoloKept

\* A page that the processes have not touched.
New == [NoPage EXCEPT !.kind = "uninit"]

\* An untouched page is nowhere.
LEMMA NewFacts == New \in PageRec /\ New.kind = "uninit" /\ New.frame = NULL /\ New.slot = None
  BY DEF New, NoPage, PageRec, NULL, None

\* user_read.
LEMMA SoloRead ==
  ASSUME SoloInv, machine \in Machines, NEW p \in Procs, NEW va \in VAs, user_read(p, va)
  PROVE  SoloInv' /\ UsedKept
<1>1. p = 1 /\ va \in VA(machine) /\ MachineOk(machine)
  BY SoloRuns, VAFacts, MachineFacts DEF user_read, Runs
<1>2. vm' = UseOf(vm, 1, va) /\ kept' = kept /\ UNCHANGED <<machine, life, calls>>
  BY <1>1 DEF user_read, UseOf
<1>3. SoloVm(machine, vm', kept[1], NULL) /\ vm'.pages = vm.pages
  BY <1>1, <1>2, ReadSolo, ProcsFacts DEF SoloInv
<1>4. SoloInv'
  BY <1>2, <1>3, SoloSame DEF SoloInv
<1> QED BY <1>2, <1>3, <1>4, SoloUsedKept

\* user_write.
LEMMA SoloWritten ==
  ASSUME SoloInv, machine \in Machines, NEW p \in Procs, NEW va \in VAs, NEW v \in Written, user_write(p, va, v)
  PROVE  SoloInv' /\ UsedKept
<1>1. p = 1 /\ va \in VA(machine) /\ MachineOk(machine) /\ v \in Value /\ 1 \in Procs
  BY SoloRuns, VAFacts, MachineFacts, ProcsFacts DEF user_write, Runs, Value
<1>2. PICK f : f = vm.pte[1][va].kva /\ vm' = TouchOf(vm, 1, va, f, v)
  BY <1>1 DEF user_write, TouchOf
<1>3. vm.pte[1][va].p /\ kept' = [kept EXCEPT ![1][va] = v] /\ UNCHANGED <<machine, life, calls>>
  BY <1>1 DEF user_write
<1>4. kept' \in [Procs -> [VA(machine) -> Value]] /\ kept'[1] = Put(kept[1], va, v)
  BY <1>1, <1>3 DEF SoloInv, Put
<1>5. SoloVm(machine, vm', Put(kept[1], va, v), NULL) /\ vm'.pages = vm.pages
  BY <1>1, <1>2, <1>3, WriteSolo DEF SoloInv
<1>6. SoloInv'
  BY <1>3, <1>4, <1>5, SoloSame
<1> QED BY <1>3, <1>5, <1>6, SoloUsedKept

\* fault_absent: the eviction it may need spares the used pages.
LEMMA SoloFault ==
  ASSUME ~Reuse, SoloInv, machine \in Machines, NEW p \in Procs, NEW va \in VAs, fault_absent(p, va)
  PROVE  SoloInv' /\ UsedKept
<1> USE DEF NULL, None
<1>1. p = 1 /\ va \in VA(machine) /\ MachineOk(machine) /\ 1 \in Procs
  BY SoloRuns, VAFacts, MachineFacts, ProcsFacts DEF fault_absent, Runs
<1>2. SoloVm(machine, vm, kept[1], NULL) /\ kept \in [Procs -> [VA(machine) -> Value]]
  BY DEF SoloInv
<1>3. CanGetFrame(vm) /\ ~vm.pte[1][va].p /\ kept' = kept /\ UNCHANGED <<machine, life, calls>>
  BY <1>1 DEF fault_absent
<1>4. vm.pages[1][va].frame = NULL
  <2>1. VaOk(machine, va, vm.pages[1][va], vm.pte[1][va], vm.frames, vm.swap, vm.disk, kept[1][va], NULL)
    BY <1>1, <1>2 DEF SoloVm, Solo
  <2> QED BY <1>3, <2>1 DEF VaOk
<1>5. CASE vm.pages[1][va].kind # "none" /\ vm' = vm_do_claim_page(vm, 1, va)
  <2>1. SoloVm(machine, vm', kept[1], NULL) /\ Spared(machine, vm, vm')
    BY <1>1, <1>2, <1>3, <1>4, <1>5, ClaimSolo
  <2>2. SoloInv'
    BY <1>2, <1>3, <2>1, SoloSame
  <2> QED BY <1>3, <2>1, <2>2, SoloUsedKept
<1>6. CASE vm.pages[1][va].kind = "none" /\ vm' = vm_do_claim_page(vm_alloc_page(vm, 1, va), 1, va)
  <2>2. vm.pages \in [Procs -> [VA(machine) -> PageRec]] /\ vm.pages[1] \in [VA(machine) -> PageRec]
    BY <1>1, <1>2 DEF SoloVm
  <2>a. /\ Put(vm.pages[1], va, New) \in [VA(machine) -> PageRec] /\ Put(vm.pages[1], va, New)[va] = New
        /\ \A w \in VA(machine) : w # va => Put(vm.pages[1], va, New)[w] = vm.pages[1][w]
    BY <1>1, <2>2, NewFacts DEF Put
  <2>3. PICK x : /\ x = Put(vm.pages[1], va, New) /\ x \in [VA(machine) -> PageRec] /\ x[va] = New
                /\ \A w \in VA(machine) : w # va => x[w] = vm.pages[1][w]
    BY <2>a
  <2>4. PICK m : m = vm_alloc_page(vm, 1, va) /\ m = MapOf(vm, 1, x)
    BY <2>3 DEF vm_alloc_page, MapOf, Put, New
  <2>b. \A w \in VA(machine) : \/ x[w] = vm.pages[1][w]
                               \/ /\ vm.pages[1][w].kind = "none" /\ x[w].kind \in {"none", "uninit"}
                                  /\ x[w].frame = NULL /\ x[w].slot = None
    BY <1>6, <2>3, NewFacts
  <2>5. SoloVm(machine, m, kept[1], NULL) /\ m.pages[1] = x /\ m.pte = vm.pte
    BY <1>1, <1>2, <2>3, <2>4, <2>b, MapSolo
  <2>c. PICK P, T, F, B, c, W, D : Fields(vm, P, T, F, B, c, W, D)
    BY <1>2, SoloOpen
  <2>6. m.frames = vm.frames /\ m.frame_table = vm.frame_table /\ m.swap = vm.swap
    <3>1. Fields(m, Put(P, 1, x), T, F, B, c, W, D)
      BY <2>4, <2>c, MapSet
    <3> QED BY <2>c, <3>1 DEF Fields
  <2>7. CanGetFrame(m)
    BY <1>3, <2>6 DEF CanGetFrame, unused, free_slots
  <2>8. m.pages[1][va].frame = NULL /\ m.pages[1][va].kind # "none"
    BY <2>3, <2>5, NewFacts
  <2>9. SoloVm(machine, vm', kept[1], NULL) /\ Spared(machine, m, vm')
    BY <1>1, <1>6, <2>4, <2>5, <2>7, <2>8, ClaimSolo
  <2>10. Spared(machine, vm, vm')
    BY <1>4, <2>3, <2>5, <2>9 DEF Spared
  <2>11. SoloInv'
    BY <1>2, <1>3, <2>9, SoloSame
  <2> QED BY <1>3, <2>10, <2>11, SoloUsedKept
<1> QED BY <1>1, <1>5, <1>6 DEF fault_absent, Page

\* do_mmap.
LEMMA SoloMmap ==
  ASSUME SoloInv, machine \in Machines, NEW p \in Procs, do_mmap(p)
  PROVE  SoloInv' /\ UsedKept
<1> USE DEF NULL, None
<1>1. p = 1 /\ MachineOk(machine) /\ 1 \in Procs
  BY SoloRuns, MachineFacts, ProcsFacts DEF do_mmap, Runs
<1>2. SoloVm(machine, vm, kept[1], NULL) /\ kept \in [Procs -> [VA(machine) -> Value]]
  BY DEF SoloInv
<1>3. kept' = kept /\ UNCHANGED <<machine, life, calls>> /\ \A va \in machine.maps : vm.pages[1][va].kind = "none"
  BY <1>1 DEF do_mmap, Page
<1>5. vm.pages[1] \in [VA(machine) -> PageRec]
  BY <1>1, <1>2 DEF SoloVm
<1>6. PICK x : x = [va \in VA(machine) |-> IF va \in machine.maps THEN New ELSE vm.pages[1][va]]
  OBVIOUS
<1>7. x \in [VA(machine) -> PageRec] /\ \A w \in VA(machine) : x[w] = IF w \in machine.maps THEN New ELSE vm.pages[1][w]
  BY <1>5, <1>6, NewFacts
<1>8. vm' = MapOf(vm, 1, x)
  BY <1>1, <1>6, VAFacts DEF do_mmap, Page, MapOf, New
<1>9. \A w \in VA(machine) : \/ x[w] = vm.pages[1][w]
                             \/ /\ vm.pages[1][w].kind = "none" /\ x[w].kind \in {"none", "uninit"}
                                /\ x[w].frame = NULL /\ x[w].slot = None
  BY <1>3, <1>7, NewFacts
<1>10. SoloVm(machine, vm', kept[1], NULL) /\ vm'.pages[1] = x
  BY <1>1, <1>2, <1>7, <1>8, <1>9, MapSolo
<1>11. SoloInv'
  BY <1>2, <1>3, <1>10, SoloSame
<1>12. Spared(machine, vm, vm')
  <2>1. ASSUME NEW w \in machine.maps PROVE vm.pages[1][w].frame = NULL
    <3>1. w \in VA(machine)
      BY DEF VA
    <3>2. VaOk(machine, w, vm.pages[1][w], vm.pte[1][w], vm.frames, vm.swap, vm.disk, kept[1][w], NULL)
      BY <1>2, <3>1 DEF SoloVm, Solo
    <3> QED BY <1>3, <3>2 DEF VaOk
  <2> QED BY <1>7, <1>10, <2>1 DEF Spared
<1> QED BY <1>3, <1>11, <1>12, SoloUsedKept

\* do_munmap.
LEMMA SoloMunmap ==
  ASSUME SoloInv, machine \in Machines, NEW p \in Procs, do_munmap(p)
  PROVE  SoloInv' /\ UsedKept
<1>1. p = 1 /\ MachineOk(machine) /\ 1 \in Procs
  BY SoloRuns, MachineFacts, ProcsFacts DEF do_munmap, Runs
<1>2. SoloVm(machine, vm, kept[1], NULL) /\ kept \in [Procs -> [VA(machine) -> Value]]
  BY DEF SoloInv
<1>3. /\ vm' = vm /\ kept' = kept /\ machine' = machine /\ life' = life /\ copying' = copying /\ making' = making
      /\ counting' = counting
      /\ machine.maps # {} /\ unmapping' = [unmapping EXCEPT ![1] = Min(machine.maps) + 1]
  BY <1>1 DEF do_munmap
<1>4. machine.maps \in SUBSET Nat
  BY <1>1 DEF MachineOk
<1>5. Min(machine.maps) \in Nat
  BY <1>3, <1>4, MinFacts
<1>6. unmapping \in [Procs -> Int] /\ \A q \in Procs : q # 1 => unmapping[q] = None
  BY DEF SoloInv, SoloCalls
<1>7. unmapping' \in [Procs -> Int] /\ \A q \in Procs : q # 1 => unmapping'[q] = None
  <2>1. PICK n \in Int : unmapping' = [unmapping EXCEPT ![1] = n]
    <3>1. Min(machine.maps) + 1 \in Int
      BY <1>5
    <3> QED BY <1>3, <3>1
  <2> QED BY <1>1, <1>6, <2>1
<1>8. SoloInv'
  BY <1>2, <1>3, <1>7, SoloKept
<1> QED BY <1>3, <1>8, SoloUsedKept

\* munmap_page: the file holds what the page held.
LEMMA SoloUnmapPage ==
  ASSUME SoloInv, machine \in Machines, NEW p \in Procs, munmap_page(p)
  PROVE  SoloInv' /\ UsedKept
<1>1. MachineOk(machine) /\ 1 \in Procs
  BY MachineFacts, ProcsFacts
<1>2. SoloVm(machine, vm, kept[1], NULL) /\ kept \in [Procs -> [VA(machine) -> Value]]
  BY DEF SoloInv
<1>3. unmapping \in [Procs -> Int] /\ \A q \in Procs : q # 1 => unmapping[q] = None
  BY DEF SoloInv, SoloCalls
<1>4. p = 1 /\ machine.maps # {}
  BY <1>3 DEF SoloInv, SoloCalls, munmap_page
<1>5. machine.maps \in SUBSET Nat
  BY <1>1 DEF MachineOk
<1>6. Min(machine.maps) \in machine.maps
  BY <1>4, <1>5, MinFacts
<1>7. /\ kept' = kept /\ machine' = machine /\ life' = life /\ copying' = copying /\ making' = making
      /\ counting' = counting
  BY DEF munmap_page
<1>8. PICK va \in machine.maps : vm' = spt_remove_page(vm, 1, va)
  BY <1>4, <1>6 DEF munmap_page, is_my_mmap
<1>9. /\ SoloVm(machine, vm', kept[1], NULL) /\ (\A w \in VA(machine) : w # va => vm'.pages[1][w] = vm.pages[1][w])
      /\ vm'.pages[1][va].kind = "none"
  BY <1>1, <1>2, <1>8, RemoveSolo
<1>10. unmapping' \in [Procs -> Int] /\ \A q \in Procs : q # 1 => unmapping'[q] = None
  <2>1. PICK n \in Int : unmapping' = [unmapping EXCEPT ![1] = n]
    <3>1. unmapping[1] + 1 \in Int /\ None \in Int
      BY <1>1, <1>3 DEF None
    <3> QED BY <1>4, <3>1 DEF munmap_page
  <2> QED BY <1>1, <1>3, <2>1
<1>11. SoloInv'
  BY <1>2, <1>4, <1>7, <1>9, <1>10, SoloKept
<1> QED BY <1>7, <1>9, <1>11, SoloUsedKept

\* Every step keeps the invariant of one process, and evicts no used page
\* before an unused one.
LEMMA SoloNext ==
  ASSUME ~Reuse, SoloInv, machine \in Machines, ~machine.forks, Next
  PROVE  SoloInv' /\ UsedKept
<1>1. ASSUME NEW p \in Procs, NEW va \in VAs, user_read(p, va) PROVE SoloInv' /\ UsedKept
  BY <1>1, SoloRead
<1>2. ASSUME NEW p \in Procs, NEW va \in VAs, NEW v \in Written, user_write(p, va, v) PROVE SoloInv' /\ UsedKept
  BY <1>2, SoloWritten
<1>3. ASSUME NEW p \in Procs, NEW va \in VAs, fault_absent(p, va) PROVE SoloInv' /\ UsedKept
  BY <1>3, SoloFault
<1>4. ASSUME NEW p \in Procs, NEW va \in VAs, vm_handle_wp(p, va) PROVE FALSE
  <2>1. p = 1 /\ va \in VA(machine)
    BY <1>4, SoloRuns, VAFacts DEF vm_handle_wp, Runs
  <2>2. vm.pte[1][va].p /\ ~vm.pte[1][va].w /\ va \notin machine.readonly
    BY <1>4, <2>1 DEF vm_handle_wp, Writable
  <2>3. VaOk(machine, va, vm.pages[1][va], vm.pte[1][va], vm.frames, vm.swap, vm.disk, kept[1][va], NULL)
    BY <2>1 DEF SoloInv, SoloVm, Solo
  <2> QED BY <2>2, <2>3 DEF VaOk
<1>5. ASSUME NEW p \in Procs, NEW va \in VAs, write_readonly(p, va) PROVE FALSE
  BY <1>5 DEF write_readonly, exit
<1>6. ASSUME NEW p \in Procs, NEW va \in VAs, supplemental_page_table_copy(p, va) PROVE FALSE
  BY <1>6, SoloRuns DEF supplemental_page_table_copy
<1>7. ASSUME NEW p \in Procs, NEW va \in VAs, kill_load(p, va) \/ hash_spt_entry_kill(p, va) PROVE FALSE
  BY <1>7, SoloRuns DEF kill_load, hash_spt_entry_kill
<1>8. ASSUME NEW p \in Procs, wp_load(p) \/ wp_copied(p) \/ copy_counted(p) \/ do_fork(p) \/ exit(p) PROVE FALSE
  BY <1>8, SoloRuns DEF wp_load, wp_copied, copy_counted, do_fork, exit
<1>9. ASSUME NEW p \in Procs, NEW c \in Procs, process_fork(p, c) PROVE FALSE
  BY <1>9 DEF process_fork
<1>10. ASSUME NEW p \in Procs, do_mmap(p) PROVE SoloInv' /\ UsedKept
  BY <1>10, SoloMmap
<1>11. ASSUME NEW p \in Procs, do_munmap(p) PROVE SoloInv' /\ UsedKept
  BY <1>11, SoloMunmap
<1>12. ASSUME NEW p \in Procs, munmap_page(p) PROVE SoloInv' /\ UsedKept
  BY <1>12, SoloUnmapPage
<1> QED BY <1>1, <1>2, <1>3, <1>4, <1>5, <1>6, <1>7, <1>8, <1>9, <1>10, <1>11, <1>12 DEF Next

\* The process finds what it last wrote.
LEMMA SoloMemory ==
  ASSUME SoloInv
  PROVE  MemoryKept
<1> USE DEF NULL, None
<1> SUFFICES ASSUME NEW p \in Procs, NEW va \in VAs, life[p] = "alive" PROVE Content(p, va) = kept[p][va]
  BY DEF MemoryKept
<1>1. p = 1 /\ va \in VA(machine)
  BY SoloRuns, VAFacts
<1>2. VaOk(machine, va, vm.pages[1][va], vm.pte[1][va], vm.frames, vm.swap, vm.disk, kept[1][va], NULL)
  BY <1>1 DEF SoloInv, SoloVm, Solo
<1>3. CASE vm.pages[1][va].frame # NULL
  BY <1>1, <1>2, <1>3 DEF VaOk, Content, Page
<1>4. CASE vm.pages[1][va].frame = NULL /\ vm.pages[1][va].slot # None
  BY <1>1, <1>2, <1>4 DEF VaOk, Content, Page
<1>5. CASE vm.pages[1][va].frame = NULL /\ vm.pages[1][va].slot = None
  <2>1. kept[1][va] = Fresh(machine, vm.disk, va)
    BY <1>2, <1>5 DEF VaOk
  <2> QED BY <1>1, <1>5, <2>1 DEF Content, Page, Fresh
<1> QED BY <1>3, <1>4, <1>5

\* The tables agree.
LEMMA SoloTables ==
  ASSUME SoloInv, machine \in Machines
  PROVE  FramesConsistent
<1> USE DEF NULL, None
<1>m. MachineOk(machine) /\ 1 \in Procs
  BY MachineFacts, ProcsFacts
<1>s. Solo(machine, vm.pages[1], vm.pte[1], vm.frames, vm.frame_table, vm.clock_start, vm.swap, vm.disk, kept[1], NULL)
  BY DEF SoloInv, SoloVm
<1>v. ASSUME NEW va \in VA(machine)
      PROVE  VaOk(machine, va, vm.pages[1][va], vm.pte[1][va], vm.frames, vm.swap, vm.disk, kept[1][va], NULL)
  BY <1>s DEF Solo
<1>n. NoPage.frame = NULL /\ NoPage.slot = None /\ NoPage.kind = "none" /\ ~NoPte.p
  BY DEF NoPage, NoPte
<1>o. ASSUME NEW p \in Procs, NEW va \in VA(machine), p # 1
      PROVE  /\ vm.pages[p][va].frame = NULL /\ vm.pages[p][va].slot = None /\ vm.pages[p][va].kind = "none"
             /\ ~vm.pte[p][va].p
  BY <1>n, <1>o, SoloRuns
<1>1. SlotsOwned
  <2>1. ASSUME NEW s \in Sl(machine)
        PROVE  Cardinality({x \in Procs \X VAs : Page(x[1], x[2]).slot = s}) = IF vm.swap[s].used THEN 1 ELSE 0
    <3> PICK S : S = {x \in Procs \X VAs : vm.pages[x[1]][x[2]].slot = s}
      OBVIOUS
    <3>0. s # None
      BY <1>m DEF Sl, MachineOk
    <3>1. /\ S \subseteq Procs \X VA(machine)
          /\ \A p \in Procs, va \in VA(machine) : <<p, va>> \in S <=> vm.pages[p][va].slot = s
      BY VAFacts
    <3>2. CASE vm.swap[s].used
      <4>1. PICK va \in VA(machine) : vm.pages[1][va].slot = s
        BY <1>s, <3>2 DEF Solo, SlotsOk
      <4>2. \A w \in VA(machine) : vm.pages[1][w].slot = s => w = va
        BY <1>s, <3>0, <4>1 DEF Solo, SlotsOk
      <4>3. \A p \in Procs, w \in VA(machine) : <<p, w>> \in S => p = 1 /\ w = va
        BY <1>o, <3>0, <3>1, <4>2
      <4>4. <<1, va>> \in S
        BY <1>m, <3>1, <4>1
      <4>5. S = {<<1, va>>}
        BY <3>1, <4>3, <4>4
      <4> QED BY <3>2, <4>5, FS_Singleton DEF Page
    <3>3. CASE ~vm.swap[s].used
      <4>1. ASSUME NEW p \in Procs, NEW w \in VA(machine) PROVE vm.pages[p][w].slot # s
        <5>1. CASE p = 1
          BY <1>v, <3>0, <3>3, <5>1 DEF VaOk
        <5>2. CASE p # 1
          BY <1>o, <3>0, <5>2
        <5> QED BY <5>1, <5>2
      <4>2. S = {}
        BY <3>1, <4>1
      <4> QED BY <3>3, <4>2, FS_EmptySet DEF Page
    <3> QED BY <3>2, <3>3
  <2>2. ASSUME NEW p \in Procs, NEW va \in VA(machine), vm.pages[p][va].kind = "anon"
        PROVE  (vm.pages[p][va].frame = NULL) # (vm.pages[p][va].slot = None)
    <3>1. p = 1
      BY <1>o, <2>2
    <3> QED BY <1>v, <2>2, <3>1 DEF VaOk
  <2> QED BY <2>1, <2>2, VAFacts DEF SlotsOwned, Page
<1>2. FramesLinked
  <2>1. ASSUME NEW p \in Procs, NEW va \in VA(machine)
        PROVE  /\ vm.pte[p][va].p <=> vm.pages[p][va].frame # NULL
               /\ vm.pte[p][va].p => /\ vm.pte[p][va].kva = vm.pages[p][va].frame
                                     /\ vm.frames[vm.pages[p][va].frame].live
    <3>1. CASE p = 1
      BY <1>v, <3>1 DEF VaOk
    <3>2. CASE p # 1
      BY <1>o, <3>2
    <3> QED BY <3>1, <3>2
  <2>2. ASSUME NEW f \in Fr(machine), vm.frames[f].live
        PROVE  Cardinality({i \in DOMAIN vm.frame_table : vm.frame_table[i] = f}) = 1
    <3>1. f # NULL
      BY DEF Fr
    <3>2. PICK i \in DOMAIN vm.frame_table : vm.frame_table[i] = f
      BY <1>s, <2>2 DEF Solo, TableOk
    <3>3. {j \in DOMAIN vm.frame_table : vm.frame_table[j] = f} = {i}
      BY <1>s, <3>1, <3>2 DEF Solo, TableOk
    <3> QED BY <3>3, FS_Singleton
  <2> QED BY <2>1, <2>2, VAFacts DEF FramesLinked, Page
<1>3. RefCounted
  <2>1. ASSUME NEW f \in Fr(machine), vm.frames[f].live
        PROVE  vm.frames[f].ref_cnt >= Cardinality(Sharers(f))
    <3>1. f # NULL
      BY DEF Fr
    <3>2. vm.frames[f].ref_cnt = 1
      BY <1>s, <2>1, <3>1 DEF Solo, OwnedOk
    <3>3. PICK va \in VA(machine) : vm.pages[1][va].frame = f
      BY <1>s, <2>1, <3>1 DEF Solo, OwnedOk
    <3>4. \A w \in VA(machine) : vm.pages[1][w].frame = f => w = va
      <4>1. ASSUME NEW w \in VA(machine), vm.pages[1][w].frame = f PROVE w = va
        <5>1. vm.frames[f].page = <<1, w>> /\ vm.frames[f].page = <<1, va>>
          BY <1>v, <3>1, <3>3, <4>1 DEF VaOk
        <5> QED BY <5>1
      <4> QED BY <4>1
    <3>5. /\ Sharers(f) \subseteq Procs \X VA(machine)
          /\ \A p \in Procs, w \in VA(machine) : <<p, w>> \in Sharers(f) <=> vm.pages[p][w].frame = f
      BY VAFacts DEF Sharers, Page
    <3>6. \A p \in Procs, w \in VA(machine) : <<p, w>> \in Sharers(f) => p = 1 /\ w = va
      BY <1>o, <3>1, <3>4, <3>5
    <3>7. <<1, va>> \in Sharers(f)
      BY <1>m, <3>3, <3>5
    <3>8. Sharers(f) = {<<1, va>>}
      BY <3>5, <3>6, <3>7
    <3>9. Cardinality(Sharers(f)) = 1
      BY <3>8, FS_Singleton, Zenon
    <3> QED BY <3>2, <3>9
  <2> QED BY <2>1, VAFacts DEF RefCounted
<1> QED BY <1>1, <1>2, <1>3 DEF FramesConsistent

-----------------------------------------------------------------------------
(* Processes that fork.  Their machine has no mapping and no slot, so a page *)
(* stays in the frame it was given; frames are shared instead.               *)

\* The types of what a write fault remembers, and of a process's life.
CallRec == [va : Nat, from : Nat, cnt : Int]
Stage == {"unborn", "made", "alive", "dead"}

\* The types of what the relatives of a fork work on.
ForkType(mc, P, T, F, B, cp, l, mk, K) ==
  /\ P \in [Procs -> [VA(mc) -> PageRec]] /\ T \in [Procs -> [VA(mc) -> PteRec]] /\ F \in [Fr(mc) -> FrameRec]
  /\ B \in Seq(Nat) /\ K \in [Procs -> [VA(mc) -> Value]]
  /\ cp \in [Procs -> CallRec] /\ l \in [Procs -> Stage] /\ mk \in [Procs -> Nat]

\* A page is in a frame once it was touched, and its entry leads there unless the
\* process is about to change it.
PgOk(mc, va, x, t, F, c) ==
  /\ x.frame # NULL => x.frame \in Fr(mc) /\ F[x.frame].live
  /\ x.slot = None /\ x.kind # "file" /\ (x.kind = "anon" <=> x.frame # NULL)
  /\ c = Idle \/ c.va # va => (t.p <=> x.frame # NULL) /\ (t.p => t.kva = x.frame)

\* That of every page of every process.
PagesOk(mc, P, T, F, cp) ==
  \A p \in Procs : \A va \in VA(mc) : PgOk(mc, va, P[p][va], T[p][va], F, cp[p])

\* Pages that share a frame have the same address.
Shared(mc, P) ==
  \A p, q \in Procs : \A va, w \in VA(mc) :
    P[p][va].frame = P[q][w].frame /\ P[p][va].frame # NULL => va = w

\* The processes that use a frame: with a page, or with a copy they make of it.
Holders(mc, P, cp, f) ==
  {q \in Procs : (\E va \in VA(mc) : P[q][va].frame = f) \/ (cp[q] # Idle /\ cp[q].from = f)}

\* A frame in use is counted at least once for each of them, and the count
\* that a write fault has loaded covers them too.
CountOk(mc, P, F, cp) ==
  /\ \A f \in Fr(mc) : F[f].live => Cardinality(Holders(mc, P, cp, f)) <= F[f].ref_cnt
  /\ \A q \in Procs : cp[q].cnt # None => Cardinality(Holders(mc, P, cp, cp[q].from)) <= cp[q].cnt

\* A process that copies a page already has the new frame, and nothing of the old.
CopyOk(mc, P, F, cp, l, mk) ==
  \A p \in Procs : cp[p] # Idle =>
    /\ l[p] = "alive" /\ mk[p] = NULL
    /\ cp[p].va \in VA(mc) /\ cp[p].from \in Fr(mc) /\ F[cp[p].from].live
    /\ P[p][cp[p].va].frame # NULL
    /\ \A w \in VA(mc) : P[p][w].frame # cp[p].from

\* A child has the pages of its mother that are copied already, and she waits.
BornOk(mc, P, l, mk) ==
  /\ \A p \in Procs : mk[p] # NULL =>
       /\ l[p] = "alive" /\ mk[p] \in Procs /\ l[mk[p]] = "made"
       /\ \A q \in Procs : mk[q] = mk[p] => q = p
       /\ \A va \in VA(mc) : P[mk[p]][va].kind # "none" =>
            P[mk[p]][va].kind = P[p][va].kind /\ P[mk[p]][va].frame = P[p][va].frame
  /\ \A p \in Procs : l[p] = "unborn" => \A va \in VA(mc) : P[p][va].kind = "none"

\* What the page holds, found as Content finds it without swap and files.
Held(mc, va, x, F) ==
  IF x.frame # NULL THEN F[x.frame].data ELSE IF va \in mc.segs THEN Image ELSE Zero

\* A living process finds what it last wrote.
KeptOk(mc, P, F, K, l) ==
  \A p \in Procs : l[p] = "alive" => \A va \in VA(mc) : Held(mc, va, P[p][va], F) = K[p][va]

\* What holds between any two steps of the relatives of a fork.
Fork(mc, P, T, F, B, cp, l, mk, K) ==
  /\ ForkType(mc, P, T, F, B, cp, l, mk, K) /\ PagesOk(mc, P, T, F, cp) /\ Shared(mc, P)
  /\ TableOk(mc, F, B) /\ CountOk(mc, P, F, cp) /\ CopyOk(mc, P, F, cp, l, mk)
  /\ BornOk(mc, P, l, mk) /\ KeptOk(mc, P, F, K, l)

\* No write fault under way.
LEMMA IdleFacts == Idle \in CallRec /\ Idle.from = NULL /\ Idle.cnt = None
  BY DEF Idle, CallRec, NULL, None

\* The holders can be counted.
LEMMA HoldersFinite ==
  ASSUME NEW mc, NEW P, NEW cp, NEW f
  PROVE  IsFiniteSet(Holders(mc, P, cp, f)) /\ Cardinality(Holders(mc, P, cp, f)) \in Nat
<1>1. IsFiniteSet(Procs)
  BY MachinesAssumption, FS_Interval DEF Procs
<1>2. Holders(mc, P, cp, f) \in SUBSET Procs
  BY DEF Holders
<1>3. IsFiniteSet(Holders(mc, P, cp, f))
  BY <1>1, <1>2, FS_Subset
<1> QED BY <1>3, FS_CardinalityType

\* Fewer holders, one more, one less, one alone.
LEMMA HoldersCount ==
  ASSUME NEW mc, NEW P, NEW cp, NEW f, NEW P2, NEW cp2, NEW p \in Procs,
         NEW H, H = Holders(mc, P, cp, f), NEW H2, H2 = Holders(mc, P2, cp2, f)
  PROVE  /\ H2 \subseteq H => Cardinality(H2) <= Cardinality(H)
         /\ H2 \subseteq H \cup {p} => Cardinality(H2) <= Cardinality(H) + 1
         /\ H2 \subseteq H \ {p} /\ p \in H => Cardinality(H2) <= Cardinality(H) - 1
         /\ H2 \subseteq {p} => Cardinality(H2) <= 1
         /\ p \in H => 1 <= Cardinality(H)
<1>1. IsFiniteSet(H) /\ IsFiniteSet(H2) /\ Cardinality(H) \in Nat /\ Cardinality(H2) \in Nat
  BY HoldersFinite
<1>2. H2 \subseteq H => Cardinality(H2) <= Cardinality(H)
  BY <1>1, FS_Subset
<1>3. ASSUME H2 \subseteq H \cup {p} PROVE Cardinality(H2) <= Cardinality(H) + 1
  <2>1. IsFiniteSet(H \cup {p}) /\ Cardinality(H \cup {p}) = IF p \in H THEN Cardinality(H) ELSE Cardinality(H) + 1
    BY <1>1, FS_AddElement
  <2>2. H2 \in SUBSET (H \cup {p})
    BY <1>3
  <2>3. Cardinality(H2) <= Cardinality(H \cup {p})
    BY <2>1, <2>2, FS_Subset
  <2> QED BY <1>1, <2>1, <2>3
<1>4. ASSUME H2 \subseteq H \ {p}, p \in H PROVE Cardinality(H2) <= Cardinality(H) - 1
  <2>1. IsFiniteSet(H \ {p}) /\ Cardinality(H \ {p}) = Cardinality(H) - 1
    BY <1>1, <1>4, FS_RemoveElement
  <2>2. H2 \in SUBSET (H \ {p})
    BY <1>4
  <2> QED BY <2>1, <2>2, FS_Subset
<1>5. ASSUME H2 \subseteq {p} PROVE Cardinality(H2) <= 1
  <2>1. IsFiniteSet({p}) /\ Cardinality({p}) = 1
    BY FS_Singleton
  <2>2. H2 \in SUBSET {p}
    BY <1>5
  <2>3. Cardinality(H2) <= Cardinality({p})
    BY <2>1, <2>2, FS_Subset
  <2> QED BY <2>1, <2>3
<1>6. p \in H => 1 <= Cardinality(H)
  <2>1. p \in H => Cardinality(H) # 0
    BY <1>1, FS_EmptySet
  <2> QED BY <1>1, <2>1
<1> QED BY <1>2, <1>3, <1>4, <1>5, <1>6

\* The frame table does not look at what is in a frame.
LEMMA TableSame ==
  ASSUME NEW mc, NEW F, NEW B, TableOk(mc, F, B), NEW F2, \A f \in Fr(mc) : F2[f].live = F[f].live
  PROVE  TableOk(mc, F2, B)
  BY DEF TableOk

\* A taken frame at the end of the table.
LEMMA TableAdd ==
  ASSUME NEW mc, NEW F, NEW B, B \in Seq(Nat), TableOk(mc, F, B), NEW f \in Fr(mc), ~F[f].live, f \in Nat,
         F \in [Fr(mc) -> FrameRec], NEW fr, fr.live
  PROVE  Append(B, f) \in Seq(Nat) /\ TableOk(mc, Put(F, f, fr), Append(B, f))
<1> PICK A, F2 : A = Append(B, f) /\ F2 = Put(F, f, fr)
  OBVIOUS
<1>0. F2[f].live /\ \A g \in Fr(mc) : g # f => F2[g].live = F[g].live
  BY DEF Put
<1>1. /\ A \in Seq(Nat) /\ Len(B) \in Nat /\ DOMAIN A = 1 .. Len(B) + 1 /\ A[Len(B) + 1] = f
      /\ \A i \in 1 .. Len(B) : A[i] = B[i]
  OBVIOUS
<1>2. DOMAIN B = 1 .. Len(B)
  OBVIOUS
<1>3. \A i \in 1 .. Len(B) : B[i] # f
  <2>1. f # NULL
    BY DEF Fr, NULL
  <2>2. \A i \in DOMAIN B : B[i] # NULL => F[B[i]].live
    BY DEF TableOk
  <2> QED BY <1>2, <2>1, <2>2
<1>4. \A i \in DOMAIN A : i \in 1 .. Len(B) \/ i = Len(B) + 1
  BY <1>1
<1>5. \A i \in DOMAIN A : A[i] # NULL => A[i] \in Fr(mc) /\ F2[A[i]].live
  BY <1>0, <1>1, <1>2, <1>3, <1>4 DEF TableOk
<1>6. \A g \in Fr(mc) : F2[g].live => \E i \in DOMAIN A : A[i] = g
  <2> SUFFICES ASSUME NEW g \in Fr(mc), F2[g].live PROVE \E i \in DOMAIN A : A[i] = g
    OBVIOUS
  <2>1. CASE g = f
    BY <1>1, <2>1
  <2>2. CASE g # f
    <3>1. PICK i \in DOMAIN B : B[i] = g
      BY <1>0, <2>2 DEF TableOk
    <3>2. i \in DOMAIN A /\ A[i] = g
      BY <1>1, <1>2, <3>1
    <3> QED BY <3>2
  <2> QED BY <2>1, <2>2
<1>7. \A i, j \in DOMAIN A : A[i] = A[j] /\ A[i] # NULL => i = j
  BY <1>1, <1>2, <1>3, <1>4 DEF TableOk
<1> QED BY <1>1, <1>5, <1>6, <1>7 DEF TableOk

\* The page of p at va is the only one in its frame.
Alone(mc, P, p, va, f) ==
  \A q \in Procs : \A w \in VA(mc) : P[q][w].frame = f => q = p /\ w = va

\* One page of one process, and the same of the entries and the contents.
At2(mc, P, P2, p, va, x) ==
  /\ P2[p][va] = x
  /\ \A q \in Procs : \A w \in VA(mc) : q # p \/ w # va => P2[q][w] = P[q][w]

\* One changed page.
LEMMA PageAt ==
  ASSUME NEW mc, NEW P, P \in [Procs -> [VA(mc) -> PageRec]], NEW p \in Procs, NEW va \in VA(mc), NEW x \in PageRec
  PROVE  Put2(P, p, va, x) \in [Procs -> [VA(mc) -> PageRec]] /\ At2(mc, P, Put2(P, p, va, x), p, va, x)
  BY DEF Put2, At2

\* One changed entry.
LEMMA PteAt ==
  ASSUME NEW mc, NEW T, T \in [Procs -> [VA(mc) -> PteRec]], NEW p \in Procs, NEW va \in VA(mc), NEW t \in PteRec
  PROVE  Put2(T, p, va, t) \in [Procs -> [VA(mc) -> PteRec]] /\ At2(mc, T, Put2(T, p, va, t), p, va, t)
  BY DEF Put2, At2

\* One written value.
LEMMA KeptAt ==
  ASSUME NEW mc, NEW K, K \in [Procs -> [VA(mc) -> Value]], NEW p \in Procs, NEW va \in VA(mc), NEW v \in Value
  PROVE  Put2(K, p, va, v) \in [Procs -> [VA(mc) -> Value]] /\ At2(mc, K, Put2(K, p, va, v), p, va, v)
  BY DEF Put2, At2

\* One changed frame.
LEMMA FrameAt ==
  ASSUME NEW mc, NEW F, F \in [Fr(mc) -> FrameRec], NEW f \in Fr(mc), NEW fr \in FrameRec
  PROVE  /\ Put(F, f, fr) \in [Fr(mc) -> FrameRec] /\ Put(F, f, fr)[f] = fr
         /\ \A g \in Fr(mc) : g # f => Put(F, f, fr)[g] = F[g]
  BY DEF Put

\* One changed call.
LEMMA CallAt ==
  ASSUME NEW cp, cp \in [Procs -> CallRec], NEW p \in Procs, NEW c \in CallRec
  PROVE  /\ Put(cp, p, c) \in [Procs -> CallRec] /\ Put(cp, p, c)[p] = c
         /\ \A q \in Procs : q # p => Put(cp, p, c)[q] = cp[q]
  BY DEF Put

\* A write to a page that is alone in its frame.
LEMMA ForkWrite ==
  ASSUME NEW mc, NEW P, NEW T, NEW F, NEW B, NEW cp, NEW l, NEW mk, NEW K, Fork(mc, P, T, F, B, cp, l, mk, K),
         NEW p \in Procs, NEW va \in VA(mc), NEW f, f = P[p][va].frame, f # NULL, Alone(mc, P, p, va, f),
         NEW v \in Value, NEW t \in PteRec, t.p = T[p][va].p, t.kva = T[p][va].kva,
         NEW fr \in FrameRec, fr.live = F[f].live, fr.ref_cnt = F[f].ref_cnt, fr.data = v
  PROVE  Fork(mc, P, Put2(T, p, va, t), Put(F, f, fr), B, cp, l, mk, Put2(K, p, va, v))
<1>t. ForkType(mc, P, T, F, B, cp, l, mk, K)
  BY DEF Fork
<1>p. \A q \in Procs : \A w \in VA(mc) : PgOk(mc, w, P[q][w], T[q][w], F, cp[q])
  BY DEF Fork, PagesOk
<1>f. f \in Fr(mc) /\ F[f].live
  BY <1>p DEF PgOk
<1>1. PICK T2 : T2 = Put2(T, p, va, t) /\ T2 \in [Procs -> [VA(mc) -> PteRec]] /\ At2(mc, T, T2, p, va, t)
  BY <1>t, PteAt DEF ForkType
<1>2. PICK K2 : K2 = Put2(K, p, va, v) /\ K2 \in [Procs -> [VA(mc) -> Value]] /\ At2(mc, K, K2, p, va, v)
  BY <1>t, KeptAt DEF ForkType
<1>3. PICK F2 : /\ F2 = Put(F, f, fr) /\ F2 \in [Fr(mc) -> FrameRec] /\ F2[f] = fr
                /\ \A g \in Fr(mc) : g # f => F2[g] = F[g]
  BY <1>t, <1>f, FrameAt DEF ForkType
<1>4. \A g \in Fr(mc) : F2[g].live = F[g].live /\ F2[g].ref_cnt = F[g].ref_cnt
  BY <1>3
<1>5. ForkType(mc, P, T2, F2, B, cp, l, mk, K2)
  BY <1>t, <1>1, <1>2, <1>3 DEF ForkType
<1>6. PagesOk(mc, P, T2, F2, cp)
  <2>1. ASSUME NEW q \in Procs, NEW w \in VA(mc) PROVE PgOk(mc, w, P[q][w], T2[q][w], F2, cp[q])
    <3>1. PgOk(mc, w, P[q][w], T[q][w], F, cp[q])
      BY <1>p
    <3>2. T2[q][w].p = T[q][w].p /\ T2[q][w].kva = T[q][w].kva
      BY <1>1 DEF At2
    <3> QED BY <1>4, <3>1, <3>2 DEF PgOk
  <2> QED BY <2>1 DEF PagesOk
<1>7. TableOk(mc, F2, B)
  BY <1>4, TableSame DEF Fork
<1>8. CountOk(mc, P, F2, cp)
  BY <1>4 DEF Fork, CountOk
<1>9. CopyOk(mc, P, F2, cp, l, mk)
  BY <1>4 DEF Fork, CopyOk
<1>10. KeptOk(mc, P, F2, K2, l)
  <2>1. ASSUME NEW q \in Procs, l[q] = "alive", NEW w \in VA(mc) PROVE Held(mc, w, P[q][w], F2) = K2[q][w]
    <3>1. Held(mc, w, P[q][w], F) = K[q][w]
      BY <2>1 DEF Fork, KeptOk
    <3>2. CASE q = p /\ w = va
      BY <1>2, <1>3, <3>2 DEF Held, At2
    <3>3. CASE q # p \/ w # va
      <4>1. P[q][w].frame # f
        BY <3>3 DEF Alone
      <4>2. P[q][w].frame # NULL => P[q][w].frame \in Fr(mc)
        BY <1>p DEF PgOk
      <4>3. K2[q][w] = K[q][w]
        BY <1>2, <3>3 DEF At2
      <4> QED BY <1>3, <3>1, <4>1, <4>2, <4>3 DEF Held
    <3> QED BY <3>2, <3>3
  <2> QED BY <2>1 DEF KeptOk
<1>11. Fork(mc, P, T2, F2, B, cp, l, mk, K2)
  BY <1>5, <1>6, <1>7, <1>8, <1>9, <1>10 DEF Fork
<1> QED BY <1>1, <1>2, <1>3, <1>11

\* A free frame goes to a page that was not in memory, or to one that leaves its
\* frame (from) to copy it.
LEMMA ForkPlace ==
  ASSUME NEW mc, MachineOk(mc), NEW P, NEW T, NEW F, NEW B, NEW cp, NEW l, NEW mk, NEW K,
         Fork(mc, P, T, F, B, cp, l, mk, K),
         NEW p \in Procs, NEW va \in VA(mc), l[p] = "alive", mk[p] = NULL, cp[p] = Idle,
         NEW h \in Fr(mc), ~F[h].live,
         NEW x \in PageRec, x.frame = h, x.slot = None, x.kind = "anon",
         NEW t \in PteRec, NEW c \in CallRec, c.cnt = None,
         \/ c = Idle /\ P[p][va].frame = NULL /\ t.p /\ t.kva = h
         \/ c # Idle /\ P[p][va].frame # NULL /\ c.va = va /\ c.from = P[p][va].frame,
         NEW fr \in FrameRec, fr.live, fr.ref_cnt = 1, fr.data = K[p][va]
  PROVE  Fork(mc, Put2(P, p, va, x), Put2(T, p, va, t), Put(F, h, fr), Append(B, h), Put(cp, p, c), l, mk, K)
<1> USE DEF NULL, None
<1>t. ForkType(mc, P, T, F, B, cp, l, mk, K)
  BY DEF Fork
<1>p. \A q \in Procs : \A w \in VA(mc) : PgOk(mc, w, P[q][w], T[q][w], F, cp[q])
  BY DEF Fork, PagesOk
<1>T. F \in [Fr(mc) -> FrameRec] /\ cp \in [Procs -> CallRec] /\ B \in Seq(Nat)
  BY <1>t DEF ForkType
<1>h. h # NULL /\ h \in Nat
  BY DEF Fr, MachineOk
<1>n. \A q \in Procs : \A w \in VA(mc) : P[q][w].frame # h
  BY <1>p, <1>h DEF PgOk
<1>1. PICK T2 : T2 = Put2(T, p, va, t) /\ T2 \in [Procs -> [VA(mc) -> PteRec]] /\ At2(mc, T, T2, p, va, t)
  BY <1>t, PteAt DEF ForkType
<1>2. PICK P2 : P2 = Put2(P, p, va, x) /\ P2 \in [Procs -> [VA(mc) -> PageRec]] /\ At2(mc, P, P2, p, va, x)
  BY <1>t, PageAt DEF ForkType
<1>3. PICK F2 : /\ F2 = Put(F, h, fr) /\ F2 \in [Fr(mc) -> FrameRec] /\ F2[h] = fr
                /\ \A g \in Fr(mc) : g # h => F2[g] = F[g]
  BY <1>T, FrameAt
<1>4. PICK cp2 : /\ cp2 = Put(cp, p, c) /\ cp2 \in [Procs -> CallRec] /\ cp2[p] = c
                 /\ \A q \in Procs : q # p => cp2[q] = cp[q]
  BY <1>T, CallAt
<1>5. PICK A : A = Append(B, h) /\ A \in Seq(Nat) /\ TableOk(mc, F2, A)
  <2>1. TableOk(mc, F, B)
    BY DEF Fork
  <2>2. Append(B, h) \in Seq(Nat) /\ TableOk(mc, Put(F, h, fr), Append(B, h))
    BY <1>T, <1>h, <2>1, TableAdd
  <2> QED BY <1>3, <2>2
<1>6. ForkType(mc, P2, T2, F2, A, cp2, l, mk, K)
  BY <1>t, <1>1, <1>2, <1>3, <1>4, <1>5 DEF ForkType
<1>7. PagesOk(mc, P2, T2, F2, cp2)
  <2>1. ASSUME NEW q \in Procs, NEW w \in VA(mc) PROVE PgOk(mc, w, P2[q][w], T2[q][w], F2, cp2[q])
    <3>1. PgOk(mc, w, P[q][w], T[q][w], F, cp[q])
      BY <1>p
    <3>2. CASE q = p /\ w = va
      <4>1. P2[q][w] = x /\ T2[q][w] = t /\ cp2[q] = c
        BY <1>1, <1>2, <1>4, <3>2 DEF At2
      <4>2. c = Idle \/ c.va # va => t.p /\ t.kva = h
        OBVIOUS
      <4> QED BY <1>h, <1>3, <3>2, <4>1, <4>2 DEF PgOk
    <3>3. CASE q # p \/ w # va
      <4>1. P2[q][w] = P[q][w] /\ T2[q][w] = T[q][w]
        BY <1>1, <1>2, <3>3 DEF At2
      <4>2. P[q][w].frame # NULL => F2[P[q][w].frame] = F[P[q][w].frame]
        BY <1>n, <1>3, <3>1 DEF PgOk
      <4>3. cp[q] = Idle \/ cp[q].va # w \/ cp2[q] = cp[q]
        BY <1>4
      <4>4. cp2[q] = Idle \/ cp2[q].va # w => cp[q] = Idle \/ cp[q].va # w
        BY <4>3
      <4> QED BY <3>1, <4>1, <4>2, <4>4 DEF PgOk
    <3> QED BY <3>2, <3>3
  <2> QED BY <2>1 DEF PagesOk
<1>8. Shared(mc, P2)
  <2>1. \A q \in Procs : \A w \in VA(mc) : P2[q][w].frame = h => q = p /\ w = va
    BY <1>n, <1>2 DEF At2
  <2>2. ASSUME NEW q \in Procs, NEW r \in Procs, NEW w \in VA(mc), NEW z \in VA(mc),
               P2[q][w].frame = P2[r][z].frame, P2[q][w].frame # NULL
        PROVE  w = z
    <3>1. CASE P2[q][w].frame = h
      BY <2>1, <2>2, <3>1
    <3>2. CASE P2[q][w].frame # h
      <4>1. P2[q][w] = P[q][w] /\ P2[r][z] = P[r][z]
        BY <1>2, <2>2, <3>2 DEF At2
      <4> QED BY <2>2, <4>1 DEF Fork, Shared
    <3> QED BY <3>1, <3>2
  <2> QED BY <2>2 DEF Shared
<1>9. CountOk(mc, P2, F2, cp2)
  <2>1. ASSUME NEW g \in Fr(mc), g # h PROVE Holders(mc, P2, cp2, g) \subseteq Holders(mc, P, cp, g)
    <3>1. ASSUME NEW q \in Holders(mc, P2, cp2, g) PROVE q \in Holders(mc, P, cp, g)
      <4>0. q \in Procs
        BY DEF Holders
      <4>1. CASE \E w \in VA(mc) : P2[q][w].frame = g
        <5>1. PICK w \in VA(mc) : P2[q][w].frame = g
          BY <4>1
        <5>2. P[q][w].frame = g
          BY <1>2, <2>1, <4>0, <5>1 DEF At2
        <5> QED BY <4>0, <5>2 DEF Holders
      <4>2. CASE cp2[q] # Idle /\ cp2[q].from = g
        <5>1. CASE q = p
          <6>1. P[p][va].frame = g
            BY <1>4, <4>2, <5>1
          <6> QED BY <4>0, <5>1, <6>1 DEF Holders
        <5>2. CASE q # p
          <6>1. cp[q] # Idle /\ cp[q].from = g
            BY <1>4, <4>0, <4>2, <5>2
          <6> QED BY <4>0, <6>1 DEF Holders
        <5> QED BY <5>1, <5>2
      <4> QED BY <4>1, <4>2 DEF Holders
    <3> QED BY <3>1
  <2>2. Holders(mc, P2, cp2, h) \subseteq {p}
    <3>1. ASSUME NEW q \in Holders(mc, P2, cp2, h) PROVE q = p
      <4>0. q \in Procs
        BY DEF Holders
      <4>1. CASE \E w \in VA(mc) : P2[q][w].frame = h
        BY <1>n, <1>2, <4>0, <4>1 DEF At2
      <4>2. CASE cp2[q] # Idle /\ cp2[q].from = h
        <5>1. q # p => cp[q] # Idle /\ cp[q].from = h
          BY <1>4, <4>0, <4>2
        <5> QED BY <4>0, <5>1 DEF Fork, CopyOk
      <4> QED BY <4>1, <4>2 DEF Holders
    <3> QED BY <3>1
  <2>3. ASSUME NEW g \in Fr(mc), F2[g].live PROVE Cardinality(Holders(mc, P2, cp2, g)) <= F2[g].ref_cnt
    <3>1. CASE g = h
      <4>1. Cardinality(Holders(mc, P2, cp2, h)) <= 1
        BY <2>2, HoldersCount
      <4> QED BY <1>3, <3>1, <4>1
    <3>2. CASE g # h
      <4>1. Cardinality(Holders(mc, P2, cp2, g)) <= Cardinality(Holders(mc, P, cp, g))
        BY <2>1, <3>2, HoldersCount
      <4>2. Cardinality(Holders(mc, P, cp, g)) <= F[g].ref_cnt /\ F2[g] = F[g]
        BY <1>3, <2>3, <3>2 DEF Fork, CountOk
      <4>3. Cardinality(Holders(mc, P2, cp2, g)) \in Nat /\ Cardinality(Holders(mc, P, cp, g)) \in Nat /\ F[g].ref_cnt \in Int
        BY <1>t, HoldersFinite DEF ForkType, FrameRec
      <4> QED BY <4>1, <4>2, <4>3
    <3> QED BY <3>1, <3>2
  <2>4. ASSUME NEW q \in Procs, cp2[q].cnt # None PROVE Cardinality(Holders(mc, P2, cp2, cp2[q].from)) <= cp2[q].cnt
    <3>1. q # p /\ cp2[q] = cp[q]
      BY <1>4, <2>4
    <3>2. cp[q] # Idle
      BY <2>4, <3>1, IdleFacts
    <3>3. PICK g \in Fr(mc) : g = cp[q].from /\ F[g].live
      BY <3>2 DEF Fork, CopyOk
    <3>4. Cardinality(Holders(mc, P2, cp2, g)) <= Cardinality(Holders(mc, P, cp, g))
      BY <2>1, <3>3, HoldersCount
    <3>5. Cardinality(Holders(mc, P, cp, g)) <= cp[q].cnt
      BY <2>4, <3>1, <3>3 DEF Fork, CountOk
    <3>6. Cardinality(Holders(mc, P2, cp2, g)) \in Nat /\ Cardinality(Holders(mc, P, cp, g)) \in Nat /\ cp[q].cnt \in Int
      BY <1>t, HoldersFinite DEF ForkType, CallRec
    <3> QED BY <3>1, <3>3, <3>4, <3>5, <3>6
  <2> QED BY <2>3, <2>4 DEF CountOk
<1>10. CopyOk(mc, P2, F2, cp2, l, mk)
  <2>1. ASSUME NEW q \in Procs, cp2[q] # Idle
        PROVE  /\ l[q] = "alive" /\ mk[q] = NULL
               /\ cp2[q].va \in VA(mc) /\ cp2[q].from \in Fr(mc) /\ F2[cp2[q].from].live
               /\ P2[q][cp2[q].va].frame # NULL
               /\ \A w \in VA(mc) : P2[q][w].frame # cp2[q].from
    <3>1. CASE q = p
      <4>1. c # Idle /\ cp2[q] = c /\ c.va = va /\ c.from = P[p][va].frame /\ P[p][va].frame # NULL
        BY <1>4, <2>1, <3>1
      <4>2. c.from \in Fr(mc) /\ F[c.from].live /\ c.from # h
        BY <1>p, <1>n, <4>1 DEF PgOk
      <4>3. ASSUME NEW w \in VA(mc) PROVE P2[p][w].frame # c.from
        <5>1. CASE w = va
          BY <1>2, <4>2, <5>1 DEF At2
        <5>2. CASE w # va
          <6>1. P2[p][w] = P[p][w]
            BY <1>2, <5>2 DEF At2
          <6>2. P[p][w].frame # P[p][va].frame
            BY <4>1, <5>2 DEF Fork, Shared
          <6> QED BY <4>1, <6>1, <6>2
        <5> QED BY <5>1, <5>2
      <4>4. P2[p][va].frame # NULL
        BY <1>2, <1>h DEF At2
      <4> QED BY <1>3, <3>1, <4>1, <4>2, <4>3, <4>4
    <3>2. CASE q # p
      <4>1. cp2[q] = cp[q] /\ \A w \in VA(mc) : P2[q][w] = P[q][w]
        BY <1>2, <1>4, <3>2 DEF At2
      <4>2. /\ l[q] = "alive" /\ mk[q] = NULL
            /\ cp[q].va \in VA(mc) /\ cp[q].from \in Fr(mc) /\ F[cp[q].from].live
            /\ P[q][cp[q].va].frame # NULL
            /\ \A w \in VA(mc) : P[q][w].frame # cp[q].from
        BY <2>1, <4>1 DEF Fork, CopyOk
      <4>3. F2[cp[q].from] = F[cp[q].from]
        BY <1>3, <4>2
      <4> QED BY <4>1, <4>2, <4>3
    <3> QED BY <3>1, <3>2
  <2> QED BY <2>1 DEF CopyOk
<1>11. BornOk(mc, P2, l, mk)
  <2>1. ASSUME NEW q \in Procs, mk[q] # NULL
        PROVE  /\ l[q] = "alive" /\ mk[q] \in Procs /\ l[mk[q]] = "made"
               /\ \A r \in Procs : mk[r] = mk[q] => r = q
               /\ \A w \in VA(mc) : P2[mk[q]][w].kind # "none" =>
                    P2[mk[q]][w].kind = P2[q][w].kind /\ P2[mk[q]][w].frame = P2[q][w].frame
    <3>1. /\ l[q] = "alive" /\ mk[q] \in Procs /\ l[mk[q]] = "made"
          /\ \A r \in Procs : mk[r] = mk[q] => r = q
          /\ \A w \in VA(mc) : P[mk[q]][w].kind # "none" =>
               P[mk[q]][w].kind = P[q][w].kind /\ P[mk[q]][w].frame = P[q][w].frame
      BY <2>1 DEF Fork, BornOk
    <3>2. q # p /\ mk[q] # p
      BY <2>1, <3>1
    <3>3. \A w \in VA(mc) : P2[q][w] = P[q][w] /\ P2[mk[q]][w] = P[mk[q]][w]
      BY <1>2, <3>1, <3>2 DEF At2
    <3> QED BY <3>1, <3>3
  <2>2. ASSUME NEW q \in Procs, l[q] = "unborn", NEW w \in VA(mc) PROVE P2[q][w].kind = "none"
    BY <1>2, <2>2 DEF Fork, BornOk, At2
  <2> QED BY <2>1, <2>2 DEF BornOk
<1>12. KeptOk(mc, P2, F2, K, l)
  <2>1. ASSUME NEW q \in Procs, l[q] = "alive", NEW w \in VA(mc) PROVE Held(mc, w, P2[q][w], F2) = K[q][w]
    <3>1. Held(mc, w, P[q][w], F) = K[q][w]
      BY <2>1 DEF Fork, KeptOk
    <3>2. CASE q = p /\ w = va
      BY <1>2, <1>3, <1>h, <3>2 DEF Held, At2
    <3>3. CASE q # p \/ w # va
      <4>1. P2[q][w] = P[q][w]
        BY <1>2, <3>3 DEF At2
      <4>2. P[q][w].frame # NULL => F2[P[q][w].frame] = F[P[q][w].frame]
        BY <1>n, <1>p, <1>3 DEF PgOk
      <4> QED BY <3>1, <4>1, <4>2 DEF Held
    <3> QED BY <3>2, <3>3
  <2> QED BY <2>1 DEF KeptOk
<1>13. Fork(mc, P2, T2, F2, A, cp2, l, mk, K)
  BY <1>5, <1>6, <1>7, <1>8, <1>9, <1>10, <1>11, <1>12 DEF Fork
<1> QED BY <1>1, <1>2, <1>3, <1>4, <1>5, <1>13

\* The only page in a frame gets an entry it can write through.
LEMMA ForkOwn ==
  ASSUME NEW mc, NEW P, NEW T, NEW F, NEW B, NEW cp, NEW l, NEW mk, NEW K, Fork(mc, P, T, F, B, cp, l, mk, K),
         NEW p \in Procs, NEW va \in VA(mc), NEW f, f = P[p][va].frame, f # NULL,
         NEW t \in PteRec, t.p, t.kva = f,
         NEW fr \in FrameRec, fr.live = F[f].live, fr.ref_cnt = F[f].ref_cnt, fr.data = F[f].data
  PROVE  Fork(mc, P, Put2(T, p, va, t), Put(F, f, fr), B, cp, l, mk, K)
<1>t. ForkType(mc, P, T, F, B, cp, l, mk, K)
  BY DEF Fork
<1>p. \A q \in Procs : \A w \in VA(mc) : PgOk(mc, w, P[q][w], T[q][w], F, cp[q])
  BY DEF Fork, PagesOk
<1>f. f \in Fr(mc)
  BY <1>p DEF PgOk
<1>1. PICK T2 : T2 = Put2(T, p, va, t) /\ T2 \in [Procs -> [VA(mc) -> PteRec]] /\ At2(mc, T, T2, p, va, t)
  BY <1>t, PteAt DEF ForkType
<1>3. PICK F2 : /\ F2 = Put(F, f, fr) /\ F2 \in [Fr(mc) -> FrameRec] /\ F2[f] = fr
                /\ \A g \in Fr(mc) : g # f => F2[g] = F[g]
  <2>1. F \in [Fr(mc) -> FrameRec]
    BY <1>t DEF ForkType
  <2>2. /\ Put(F, f, fr) \in [Fr(mc) -> FrameRec] /\ Put(F, f, fr)[f] = fr
        /\ \A g \in Fr(mc) : g # f => Put(F, f, fr)[g] = F[g]
    BY <1>f, <2>1, FrameAt
  <2> QED BY <2>2
<1>4. \A g \in Fr(mc) : F2[g].live = F[g].live /\ F2[g].ref_cnt = F[g].ref_cnt /\ F2[g].data = F[g].data
  BY <1>3
<1>5. ForkType(mc, P, T2, F2, B, cp, l, mk, K)
  BY <1>t, <1>1, <1>3 DEF ForkType
<1>6. PagesOk(mc, P, T2, F2, cp)
  <2>1. ASSUME NEW q \in Procs, NEW w \in VA(mc) PROVE PgOk(mc, w, P[q][w], T2[q][w], F2, cp[q])
    <3>1. PgOk(mc, w, P[q][w], T[q][w], F, cp[q])
      BY <1>p
    <3>2. CASE q = p /\ w = va
      <4>1. T2[q][w] = t
        BY <1>1, <3>2 DEF At2
      <4> QED BY <1>4, <3>1, <3>2, <4>1 DEF PgOk
    <3>3. CASE q # p \/ w # va
      <4>1. T2[q][w] = T[q][w]
        BY <1>1, <3>3 DEF At2
      <4> QED BY <1>4, <3>1, <4>1 DEF PgOk
    <3> QED BY <3>2, <3>3
  <2> QED BY <2>1 DEF PagesOk
<1>7. TableOk(mc, F2, B)
  BY <1>4, TableSame DEF Fork
<1>8. CountOk(mc, P, F2, cp)
  BY <1>4 DEF Fork, CountOk
<1>9. CopyOk(mc, P, F2, cp, l, mk)
  BY <1>4 DEF Fork, CopyOk
<1>10. KeptOk(mc, P, F2, K, l)
  <2>1. \A q \in Procs : \A w \in VA(mc) : Held(mc, w, P[q][w], F2) = Held(mc, w, P[q][w], F)
    BY <1>4, <1>p DEF Held, PgOk
  <2> QED BY <2>1 DEF Fork, KeptOk
<1>11. Fork(mc, P, T2, F2, B, cp, l, mk, K)
  BY <1>5, <1>6, <1>7, <1>8, <1>9, <1>10 DEF Fork
<1> QED BY <1>1, <1>3, <1>11

\* The process that copies loads the count of the frame it leaves.
LEMMA ForkLoad ==
  ASSUME NEW mc, NEW P, NEW T, NEW F, NEW B, NEW cp, NEW l, NEW mk, NEW K, Fork(mc, P, T, F, B, cp, l, mk, K),
         NEW p \in Procs, cp[p] # Idle,
         NEW c \in CallRec, c.va = cp[p].va, c.from = cp[p].from, c.cnt = F[cp[p].from].ref_cnt
  PROVE  Fork(mc, P, T, F, B, Put(cp, p, c), l, mk, K)
<1> USE DEF NULL, None
<1>t. ForkType(mc, P, T, F, B, cp, l, mk, K)
  BY DEF Fork
<1>p. \A q \in Procs : \A w \in VA(mc) : PgOk(mc, w, P[q][w], T[q][w], F, cp[q])
  BY DEF Fork, PagesOk
<1>T. cp \in [Procs -> CallRec]
  BY <1>t DEF ForkType
<1>f. cp[p].from \in Fr(mc) /\ F[cp[p].from].live
  BY DEF Fork, CopyOk
<1>i. c # Idle
  BY <1>f, IdleFacts DEF Fr
<1>4. PICK cp2 : /\ cp2 = Put(cp, p, c) /\ cp2 \in [Procs -> CallRec] /\ cp2[p] = c
                 /\ \A q \in Procs : q # p => cp2[q] = cp[q]
  BY <1>T, CallAt
<1>5. \A q \in Procs : (cp2[q] = Idle <=> cp[q] = Idle) /\ cp2[q].va = cp[q].va /\ cp2[q].from = cp[q].from
  BY <1>i, <1>4
<1>6. ForkType(mc, P, T, F, B, cp2, l, mk, K)
  BY <1>t, <1>4 DEF ForkType
<1>7. PagesOk(mc, P, T, F, cp2)
  <2>1. ASSUME NEW q \in Procs, NEW w \in VA(mc) PROVE PgOk(mc, w, P[q][w], T[q][w], F, cp2[q])
    <3>1. PgOk(mc, w, P[q][w], T[q][w], F, cp[q])
      BY <1>p
    <3> QED BY <1>5, <3>1 DEF PgOk
  <2> QED BY <2>1 DEF PagesOk
<1>8. \A g : Holders(mc, P, cp2, g) = Holders(mc, P, cp, g)
  BY <1>5 DEF Holders
<1>9. CountOk(mc, P, F, cp2)
  <2>1. ASSUME NEW q \in Procs, cp2[q].cnt # None PROVE Cardinality(Holders(mc, P, cp2, cp2[q].from)) <= cp2[q].cnt
    <3>1. CASE q = p
      BY <1>4, <1>8, <1>f, <3>1 DEF Fork, CountOk
    <3>2. CASE q # p
      BY <1>4, <1>8, <2>1, <3>2 DEF Fork, CountOk
    <3> QED BY <3>1, <3>2
  <2> QED BY <1>8, <2>1 DEF Fork, CountOk
<1>10. CopyOk(mc, P, F, cp2, l, mk)
  BY <1>5 DEF Fork, CopyOk
<1> QED BY <1>4, <1>6, <1>7, <1>9, <1>10 DEF Fork

\* It stores the count it loaded, less one, and changes its entry.
LEMMA ForkCopied ==
  ASSUME NEW mc, NEW P, NEW T, NEW F, NEW B, NEW cp, NEW l, NEW mk, NEW K, Fork(mc, P, T, F, B, cp, l, mk, K),
         NEW p \in Procs, cp[p] # Idle, cp[p].cnt # None,
         NEW va, va = cp[p].va, NEW f, f = cp[p].from,
         NEW t \in PteRec, t.p, t.kva = P[p][va].frame,
         NEW fr \in FrameRec, fr.live = F[f].live, fr.ref_cnt = cp[p].cnt - 1, fr.data = F[f].data
  PROVE  Fork(mc, P, Put2(T, p, va, t), Put(F, f, fr), B, Put(cp, p, Idle), l, mk, K)
<1> USE DEF NULL, None
<1>t. ForkType(mc, P, T, F, B, cp, l, mk, K)
  BY DEF Fork
<1>p. \A q \in Procs : \A w \in VA(mc) : PgOk(mc, w, P[q][w], T[q][w], F, cp[q])
  BY DEF Fork, PagesOk
<1>T. cp \in [Procs -> CallRec] /\ F \in [Fr(mc) -> FrameRec] /\ T \in [Procs -> [VA(mc) -> PteRec]]
  BY <1>t DEF ForkType
<1>f. /\ va \in VA(mc) /\ f \in Fr(mc) /\ F[f].live /\ P[p][va].frame # NULL
      /\ \A w \in VA(mc) : P[p][w].frame # f
  BY DEF Fork, CopyOk
<1>1. PICK T2 : T2 = Put2(T, p, va, t) /\ T2 \in [Procs -> [VA(mc) -> PteRec]] /\ At2(mc, T, T2, p, va, t)
  BY <1>T, <1>f, PteAt
<1>3. PICK F2 : /\ F2 = Put(F, f, fr) /\ F2 \in [Fr(mc) -> FrameRec] /\ F2[f] = fr
                /\ \A g \in Fr(mc) : g # f => F2[g] = F[g]
  <2>1. F \in [Fr(mc) -> FrameRec]
    BY <1>t DEF ForkType
  <2>2. /\ Put(F, f, fr) \in [Fr(mc) -> FrameRec] /\ Put(F, f, fr)[f] = fr
        /\ \A g \in Fr(mc) : g # f => Put(F, f, fr)[g] = F[g]
    <3>1. f \in Fr(mc)
      BY <1>f
    <3> QED BY <2>1, <3>1, FrameAt
  <2> QED BY <2>2
<1>4. PICK cp2 : /\ cp2 = Put(cp, p, Idle) /\ cp2 \in [Procs -> CallRec] /\ cp2[p] = Idle
                 /\ \A q \in Procs : q # p => cp2[q] = cp[q]
  BY <1>T, CallAt, IdleFacts
<1>5. \A g \in Fr(mc) : F2[g].live = F[g].live /\ F2[g].data = F[g].data
  BY <1>3
<1>6. ForkType(mc, P, T2, F2, B, cp2, l, mk, K)
  BY <1>t, <1>1, <1>3, <1>4 DEF ForkType
<1>7. PagesOk(mc, P, T2, F2, cp2)
  <2>1. ASSUME NEW q \in Procs, NEW w \in VA(mc) PROVE PgOk(mc, w, P[q][w], T2[q][w], F2, cp2[q])
    <3>1. PgOk(mc, w, P[q][w], T[q][w], F, cp[q])
      BY <1>p
    <3>2. CASE q = p /\ w = va
      <4>1. T2[q][w] = t
        BY <1>1, <3>2 DEF At2
      <4> QED BY <1>5, <1>f, <3>1, <3>2, <4>1 DEF PgOk
    <3>3. CASE q # p \/ w # va
      <4>1. T2[q][w] = T[q][w]
        BY <1>1, <1>f, <3>3 DEF At2
      <4>2. cp[q] = Idle \/ cp[q].va # w \/ cp2[q] = cp[q]
        BY <1>4, <3>3
      <4> QED BY <1>5, <3>1, <4>1, <4>2 DEF PgOk
    <3> QED BY <3>2, <3>3
  <2> QED BY <2>1 DEF PagesOk
<1>8. TableOk(mc, F2, B)
  BY <1>5, TableSame DEF Fork
<1>9. ASSUME NEW g PROVE Holders(mc, P, cp2, g) \subseteq Holders(mc, P, cp, g)
  <2>1. ASSUME NEW q \in Procs, cp2[q] # Idle PROVE cp2[q] = cp[q]
    BY <1>4, <2>1
  <2> QED BY <2>1 DEF Holders
<1>10. Holders(mc, P, cp2, f) \subseteq Holders(mc, P, cp, f) \ {p} /\ p \in Holders(mc, P, cp, f)
  <2>1. p \in Holders(mc, P, cp, f)
    BY DEF Holders
  <2>2. p \notin Holders(mc, P, cp2, f)
    BY <1>4, <1>f DEF Holders
  <2> QED BY <1>9, <2>1, <2>2
<1>11. ASSUME NEW g PROVE /\ Cardinality(Holders(mc, P, cp2, g)) \in Nat /\ Cardinality(Holders(mc, P, cp, g)) \in Nat
                          /\ Cardinality(Holders(mc, P, cp2, g)) <= Cardinality(Holders(mc, P, cp, g))
  BY <1>9, HoldersCount, HoldersFinite
<1>12. CountOk(mc, P, F2, cp2)
  <2>1. ASSUME NEW g \in Fr(mc), F2[g].live PROVE Cardinality(Holders(mc, P, cp2, g)) <= F2[g].ref_cnt
    <3>1. CASE g = f
      <4>1. Cardinality(Holders(mc, P, cp2, f)) <= Cardinality(Holders(mc, P, cp, f)) - 1
        BY <1>10, HoldersCount
      <4>2. Cardinality(Holders(mc, P, cp, f)) <= cp[p].cnt
        BY DEF Fork, CountOk
      <4>3. cp[p].cnt \in Int
        BY <1>T DEF CallRec
      <4>4. F2[g].ref_cnt = cp[p].cnt - 1
        BY <1>3, <3>1
      <4> QED BY <1>11, <3>1, <4>1, <4>2, <4>3, <4>4
    <3>2. CASE g # f
      <4>1. F2[g] = F[g] /\ F[g].ref_cnt \in Int
        BY <1>T, <1>3, <3>2 DEF FrameRec
      <4>2. Cardinality(Holders(mc, P, cp, g)) <= F[g].ref_cnt
        BY <2>1, <4>1 DEF Fork, CountOk
      <4> QED BY <1>11, <4>1, <4>2
    <3> QED BY <3>1, <3>2
  <2>2. ASSUME NEW q \in Procs, cp2[q].cnt # None PROVE Cardinality(Holders(mc, P, cp2, cp2[q].from)) <= cp2[q].cnt
    <3>1. cp2[q] = cp[q]
      BY <1>4, <2>2, IdleFacts
    <3>2. Cardinality(Holders(mc, P, cp, cp[q].from)) <= cp[q].cnt
      BY <2>2, <3>1 DEF Fork, CountOk
    <3>3. cp[q].cnt \in Int
      BY <1>T DEF CallRec
    <3> QED BY <1>11, <3>1, <3>2, <3>3
  <2> QED BY <2>1, <2>2 DEF CountOk
<1>13. CopyOk(mc, P, F2, cp2, l, mk)
  <2>1. ASSUME NEW q \in Procs, cp2[q] # Idle PROVE cp2[q] = cp[q] /\ cp[q] # Idle
    BY <1>4, <2>1
  <2> QED BY <1>5, <2>1 DEF Fork, CopyOk
<1>14. KeptOk(mc, P, F2, K, l)
  <2>1. \A q \in Procs : \A w \in VA(mc) : Held(mc, w, P[q][w], F2) = Held(mc, w, P[q][w], F)
    BY <1>5, <1>p DEF Held, PgOk
  <2> QED BY <2>1 DEF Fork, KeptOk
<1>15. Fork(mc, P, T2, F2, B, cp2, l, mk, K)
  BY <1>6, <1>7, <1>8, <1>12, <1>13, <1>14 DEF Fork
<1> QED BY <1>1, <1>3, <1>4, <1>15

\* A child's page joins its mother's frame.
LEMMA ForkShare ==
  ASSUME NEW mc, NEW P, NEW T, NEW F, NEW B, NEW cp, NEW l, NEW mk, NEW K, Fork(mc, P, T, F, B, cp, l, mk, K),
         NEW p \in Procs, NEW c, c = mk[p], c # NULL, NEW va \in VA(mc), P[c][va].kind = "none",
         NEW f, f = P[p][va].frame, f # NULL, P[p][va].kind = "anon",
         \A q \in Procs : cp[q].cnt # None => cp[q].from # f,
         NEW x \in PageRec, x.frame = f, x.slot = None, x.kind = "anon",
         NEW t \in PteRec, t.p, t.kva = f,
         NEW fr \in FrameRec, fr.live = F[f].live, fr.ref_cnt = F[f].ref_cnt + 1, fr.data = F[f].data
  PROVE  Fork(mc, Put2(P, c, va, x), Put2(T, c, va, t), Put(F, f, fr), B, cp, l, mk, K)
<1> USE DEF NULL, None
<1>t. ForkType(mc, P, T, F, B, cp, l, mk, K)
  BY DEF Fork
<1>T. /\ cp \in [Procs -> CallRec] /\ F \in [Fr(mc) -> FrameRec] /\ T \in [Procs -> [VA(mc) -> PteRec]]
      /\ P \in [Procs -> [VA(mc) -> PageRec]]
  BY <1>t DEF ForkType
<1>p. \A q \in Procs : \A w \in VA(mc) : PgOk(mc, w, P[q][w], T[q][w], F, cp[q])
  BY DEF Fork, PagesOk
<1>c. /\ c \in Procs /\ l[p] = "alive" /\ l[c] = "made" /\ c # p
      /\ \A q \in Procs : mk[q] = c => q = p
  BY DEF Fork, BornOk
<1>i. cp[c] = Idle
  BY <1>c DEF Fork, CopyOk
<1>f. f \in Fr(mc) /\ F[f].live /\ P[c][va].frame = NULL
  BY <1>c, <1>p DEF PgOk
<1>1. PICK T2 : T2 = Put2(T, c, va, t) /\ T2 \in [Procs -> [VA(mc) -> PteRec]] /\ At2(mc, T, T2, c, va, t)
  BY <1>T, <1>c, PteAt
<1>2. PICK P2 : P2 = Put2(P, c, va, x) /\ P2 \in [Procs -> [VA(mc) -> PageRec]] /\ At2(mc, P, P2, c, va, x)
  BY <1>T, <1>c, PageAt
<1>3. PICK F2 : /\ F2 = Put(F, f, fr) /\ F2 \in [Fr(mc) -> FrameRec] /\ F2[f] = fr
                /\ \A g \in Fr(mc) : g # f => F2[g] = F[g]
  <2>1. /\ Put(F, f, fr) \in [Fr(mc) -> FrameRec] /\ Put(F, f, fr)[f] = fr
        /\ \A g \in Fr(mc) : g # f => Put(F, f, fr)[g] = F[g]
    BY <1>T, <1>f, FrameAt
  <2> QED BY <2>1
<1>5. \A g \in Fr(mc) : F2[g].live = F[g].live /\ F2[g].data = F[g].data
  BY <1>3
<1>6. ForkType(mc, P2, T2, F2, B, cp, l, mk, K)
  BY <1>t, <1>1, <1>2, <1>3 DEF ForkType
<1>q. \A q \in Procs : q # c => \A w \in VA(mc) : P2[q][w] = P[q][w]
  BY <1>2 DEF At2
<1>7. PagesOk(mc, P2, T2, F2, cp)
  <2>1. ASSUME NEW q \in Procs, NEW w \in VA(mc) PROVE PgOk(mc, w, P2[q][w], T2[q][w], F2, cp[q])
    <3>1. PgOk(mc, w, P[q][w], T[q][w], F, cp[q])
      BY <1>p
    <3>2. CASE q = c /\ w = va
      <4>1. P2[q][w] = x /\ T2[q][w] = t
        BY <1>1, <1>2, <3>2 DEF At2
      <4> QED BY <1>5, <1>f, <4>1 DEF PgOk
    <3>3. CASE q # c \/ w # va
      <4>1. P2[q][w] = P[q][w] /\ T2[q][w] = T[q][w]
        BY <1>1, <1>2, <3>3 DEF At2
      <4> QED BY <1>5, <3>1, <4>1 DEF PgOk
    <3> QED BY <3>2, <3>3
  <2> QED BY <2>1 DEF PagesOk
<1>8. Shared(mc, P2)
  <2>1. ASSUME NEW q \in Procs, NEW w \in VA(mc) PROVE \E s \in Procs : P2[q][w].frame = P[s][w].frame
    <3>1. CASE q = c /\ w = va
      BY <1>2, <3>1 DEF At2
    <3>2. CASE q # c \/ w # va
      BY <1>2, <3>2 DEF At2
    <3> QED BY <3>1, <3>2
  <2>2. ASSUME NEW q \in Procs, NEW r \in Procs, NEW w \in VA(mc), NEW z \in VA(mc),
               P2[q][w].frame = P2[r][z].frame, P2[q][w].frame # NULL
        PROVE  w = z
    <3>1. PICK s \in Procs : P2[q][w].frame = P[s][w].frame
      BY <2>1
    <3>2. PICK u \in Procs : P2[r][z].frame = P[u][z].frame
      BY <2>1
    <3>3. Shared(mc, P)
      BY DEF Fork
    <3>4. P[s][w].frame = P[u][z].frame /\ P[s][w].frame # NULL
      BY <2>2, <3>1, <3>2
    <3> QED BY <3>3, <3>4 DEF Shared
  <2> QED BY <2>2 DEF Shared
<1>9. TableOk(mc, F2, B)
  BY <1>5, TableSame DEF Fork
<1>10. ASSUME NEW g \in Fr(mc), g # f PROVE Holders(mc, P2, cp, g) \subseteq Holders(mc, P, cp, g)
  <2>1. ASSUME NEW q \in Procs, NEW w \in VA(mc), P2[q][w].frame = g PROVE P[q][w].frame = g
    BY <1>2, <1>10, <2>1 DEF At2
  <2> QED BY <2>1 DEF Holders
<1>11. Holders(mc, P2, cp, f) \subseteq Holders(mc, P, cp, f) \cup {c}
  BY <1>q DEF Holders
<1>12. ASSUME NEW g PROVE Cardinality(Holders(mc, P2, cp, g)) \in Nat /\ Cardinality(Holders(mc, P, cp, g)) \in Nat
  BY HoldersFinite
<1>13. ASSUME NEW g \in Fr(mc), g # f PROVE Cardinality(Holders(mc, P2, cp, g)) <= Cardinality(Holders(mc, P, cp, g))
  BY <1>10, <1>13, HoldersCount
<1>14. CountOk(mc, P2, F2, cp)
  <2>1. ASSUME NEW g \in Fr(mc), F2[g].live PROVE Cardinality(Holders(mc, P2, cp, g)) <= F2[g].ref_cnt
    <3>0. F[g].live /\ F[g].ref_cnt \in Int
      BY <1>T, <1>5, <2>1 DEF FrameRec
    <3>1. Cardinality(Holders(mc, P, cp, g)) <= F[g].ref_cnt
      BY <3>0 DEF Fork, CountOk
    <3>2. CASE g = f
      <4>1. Cardinality(Holders(mc, P2, cp, f)) <= Cardinality(Holders(mc, P, cp, f)) + 1
        BY <1>c, <1>11, HoldersCount
      <4> QED BY <1>3, <1>12, <3>0, <3>1, <3>2, <4>1
    <3>3. CASE g # f
      BY <1>3, <1>12, <1>13, <3>0, <3>1, <3>3
    <3> QED BY <3>2, <3>3
  <2>2. ASSUME NEW q \in Procs, cp[q].cnt # None PROVE Cardinality(Holders(mc, P2, cp, cp[q].from)) <= cp[q].cnt
    <3>1. cp[q] # Idle
      BY <2>2, IdleFacts
    <3>2. cp[q].from \in Fr(mc) /\ cp[q].from # f
      BY <2>2, <3>1 DEF Fork, CopyOk
    <3>3. Cardinality(Holders(mc, P, cp, cp[q].from)) <= cp[q].cnt
      BY <2>2 DEF Fork, CountOk
    <3>4. cp[q].cnt \in Int
      BY <1>T DEF CallRec
    <3> QED BY <1>12, <1>13, <3>2, <3>3, <3>4
  <2> QED BY <2>1, <2>2 DEF CountOk
<1>15. CopyOk(mc, P2, F2, cp, l, mk)
  <2>1. ASSUME NEW q \in Procs, cp[q] # Idle PROVE q # c
    BY <1>i, <2>1
  <2> QED BY <1>5, <1>q, <2>1 DEF Fork, CopyOk
<1>16. BornOk(mc, P2, l, mk)
  <2>1. ASSUME NEW q \in Procs, mk[q] # NULL
        PROVE  /\ l[q] = "alive" /\ mk[q] \in Procs /\ l[mk[q]] = "made"
               /\ \A r \in Procs : mk[r] = mk[q] => r = q
               /\ \A w \in VA(mc) : P2[mk[q]][w].kind # "none" =>
                    P2[mk[q]][w].kind = P2[q][w].kind /\ P2[mk[q]][w].frame = P2[q][w].frame
    <3>1. /\ l[q] = "alive" /\ mk[q] \in Procs /\ l[mk[q]] = "made"
          /\ \A r \in Procs : mk[r] = mk[q] => r = q
          /\ \A w \in VA(mc) : P[mk[q]][w].kind # "none" =>
               P[mk[q]][w].kind = P[q][w].kind /\ P[mk[q]][w].frame = P[q][w].frame
      BY <2>1 DEF Fork, BornOk
    <3>2. q # c
      BY <1>c, <3>1
    <3>3. ASSUME NEW w \in VA(mc), P2[mk[q]][w].kind # "none"
          PROVE  P2[mk[q]][w].kind = P2[q][w].kind /\ P2[mk[q]][w].frame = P2[q][w].frame
      <4>1. P2[q][w] = P[q][w]
        BY <1>q, <3>2
      <4>2. CASE mk[q] = c /\ w = va
        BY <1>2, <1>c, <4>1, <4>2 DEF At2
      <4>3. CASE mk[q] # c \/ w # va
        <5>1. P2[mk[q]][w] = P[mk[q]][w]
          BY <1>2, <3>1, <4>3 DEF At2
        <5> QED BY <3>1, <3>3, <4>1, <5>1
      <4> QED BY <4>2, <4>3
    <3> QED BY <3>1, <3>3
  <2>2. ASSUME NEW q \in Procs, l[q] = "unborn", NEW w \in VA(mc) PROVE P2[q][w].kind = "none"
    BY <1>c, <1>q, <2>2 DEF Fork, BornOk
  <2> QED BY <2>1, <2>2 DEF BornOk
<1>17. KeptOk(mc, P2, F2, K, l)
  <2>1. ASSUME NEW q \in Procs, l[q] = "alive", NEW w \in VA(mc) PROVE Held(mc, w, P2[q][w], F2) = K[q][w]
    <3>1. P2[q][w] = P[q][w]
      BY <1>c, <1>q, <2>1
    <3>2. Held(mc, w, P[q][w], F) = K[q][w]
      BY <2>1 DEF Fork, KeptOk
    <3> QED BY <1>5, <1>p, <3>1, <3>2 DEF Held, PgOk
  <2> QED BY <2>1 DEF KeptOk
<1>18. Fork(mc, P2, T2, F2, B, cp, l, mk, K)
  BY <1>6, <1>7, <1>8, <1>9, <1>14, <1>15, <1>16, <1>17 DEF Fork
<1> QED BY <1>1, <1>2, <1>3, <1>18

\* A page without a frame is made, of a process that does not run: a child's
\* untouched page.
LEMMA ForkNew ==
  ASSUME NEW mc, NEW P, NEW T, NEW F, NEW B, NEW cp, NEW l, NEW mk, NEW K, Fork(mc, P, T, F, B, cp, l, mk, K),
         NEW p \in Procs, NEW c, c = mk[p], c # NULL, NEW va \in VA(mc), P[c][va].kind = "none",
         P[p][va].kind = "uninit",
         NEW x \in PageRec, x.frame = NULL, x.slot = None, x.kind = "uninit"
  PROVE  Fork(mc, Put2(P, c, va, x), T, F, B, cp, l, mk, K)
<1> USE DEF NULL, None
<1>t. ForkType(mc, P, T, F, B, cp, l, mk, K)
  BY DEF Fork
<1>T. P \in [Procs -> [VA(mc) -> PageRec]]
  BY <1>t DEF ForkType
<1>p. \A q \in Procs : \A w \in VA(mc) : PgOk(mc, w, P[q][w], T[q][w], F, cp[q])
  BY DEF Fork, PagesOk
<1>c. /\ c \in Procs /\ l[p] = "alive" /\ l[c] = "made" /\ c # p
      /\ \A q \in Procs : mk[q] = c => q = p
  BY DEF Fork, BornOk
<1>f. P[c][va].frame = NULL /\ P[p][va].frame = NULL
  BY <1>c, <1>p DEF PgOk
<1>2. PICK P2 : P2 = Put2(P, c, va, x) /\ P2 \in [Procs -> [VA(mc) -> PageRec]] /\ At2(mc, P, P2, c, va, x)
  BY <1>T, <1>c, PageAt
<1>q. \A q \in Procs : q # c => \A w \in VA(mc) : P2[q][w] = P[q][w]
  BY <1>2 DEF At2
<1>3. \A q \in Procs : \A w \in VA(mc) : P2[q][w].frame = P[q][w].frame
  BY <1>2, <1>f DEF At2
<1>6. ForkType(mc, P2, T, F, B, cp, l, mk, K)
  BY <1>t, <1>2 DEF ForkType
<1>7. PagesOk(mc, P2, T, F, cp)
  <2>1. ASSUME NEW q \in Procs, NEW w \in VA(mc) PROVE PgOk(mc, w, P2[q][w], T[q][w], F, cp[q])
    <3>1. PgOk(mc, w, P[q][w], T[q][w], F, cp[q])
      BY <1>p
    <3>2. CASE q = c /\ w = va
      <4>1. P2[q][w] = x
        BY <1>2, <3>2 DEF At2
      <4> QED BY <1>f, <3>1, <3>2, <4>1 DEF PgOk
    <3>3. CASE q # c \/ w # va
      <4>1. P2[q][w] = P[q][w]
        BY <1>2, <3>3 DEF At2
      <4> QED BY <3>1, <4>1
    <3> QED BY <3>2, <3>3
  <2> QED BY <2>1 DEF PagesOk
<1>8. Shared(mc, P2)
  BY <1>3 DEF Fork, Shared
<1>10. \A g : Holders(mc, P2, cp, g) = Holders(mc, P, cp, g)
  BY <1>3 DEF Holders
<1>14. CountOk(mc, P2, F, cp)
  BY <1>10 DEF Fork, CountOk
<1>15. CopyOk(mc, P2, F, cp, l, mk)
  BY <1>3 DEF Fork, CopyOk
<1>16. BornOk(mc, P2, l, mk)
  <2>1. ASSUME NEW q \in Procs, mk[q] # NULL
        PROVE  /\ l[q] = "alive" /\ mk[q] \in Procs /\ l[mk[q]] = "made"
               /\ \A r \in Procs : mk[r] = mk[q] => r = q
               /\ \A w \in VA(mc) : P2[mk[q]][w].kind # "none" =>
                    P2[mk[q]][w].kind = P2[q][w].kind /\ P2[mk[q]][w].frame = P2[q][w].frame
    <3>1. /\ l[q] = "alive" /\ mk[q] \in Procs /\ l[mk[q]] = "made"
          /\ \A r \in Procs : mk[r] = mk[q] => r = q
          /\ \A w \in VA(mc) : P[mk[q]][w].kind # "none" =>
               P[mk[q]][w].kind = P[q][w].kind /\ P[mk[q]][w].frame = P[q][w].frame
      BY <2>1 DEF Fork, BornOk
    <3>2. q # c
      BY <1>c, <3>1
    <3>3. ASSUME NEW w \in VA(mc), P2[mk[q]][w].kind # "none"
          PROVE  P2[mk[q]][w].kind = P2[q][w].kind /\ P2[mk[q]][w].frame = P2[q][w].frame
      <4>1. P2[q][w] = P[q][w]
        BY <1>q, <3>2
      <4>2. CASE mk[q] = c /\ w = va
        BY <1>2, <1>c, <1>f, <4>1, <4>2 DEF At2
      <4>3. CASE mk[q] # c \/ w # va
        <5>1. P2[mk[q]][w] = P[mk[q]][w]
          BY <1>2, <3>1, <4>3 DEF At2
        <5> QED BY <3>1, <3>3, <4>1, <5>1
      <4> QED BY <4>2, <4>3
    <3> QED BY <3>1, <3>3
  <2>2. ASSUME NEW q \in Procs, l[q] = "unborn", NEW w \in VA(mc) PROVE P2[q][w].kind = "none"
    BY <1>c, <1>q, <2>2 DEF Fork, BornOk
  <2> QED BY <2>1, <2>2 DEF BornOk
<1>17. KeptOk(mc, P2, F, K, l)
  BY <1>3 DEF Fork, KeptOk, Held
<1>18. Fork(mc, P2, T, F, B, cp, l, mk, K)
  BY <1>6, <1>7, <1>8, <1>14, <1>15, <1>16, <1>17 DEF Fork
<1> QED BY <1>2, <1>18

\* The stage of one process changed, and the child one process waits for.
Staged(l, l2, c, s) ==
  l2 \in [Procs -> Stage] /\ l2[c] = s /\ \A q \in Procs : q # c => l2[q] = l[q]

Waiting(mk, mk2, p, c) ==
  mk2 \in [Procs -> Nat] /\ mk2[p] = c /\ \A q \in Procs : q # p => mk2[q] = mk[q]

\* One changed life.
LEMMA StageAt ==
  ASSUME NEW l, l \in [Procs -> Stage], NEW c \in Procs, NEW s \in Stage
  PROVE  Staged(l, Put(l, c, s), c, s)
  BY DEF Put, Staged

\* The lives used.
LEMMA StageFacts == "made" \in Stage /\ "alive" \in Stage /\ "dead" \in Stage
  BY DEF Stage

\* One changed wait.
LEMMA MakingAt ==
  ASSUME NEW mk, mk \in [Procs -> Nat], NEW p \in Procs, NEW c \in Nat
  PROVE  Waiting(mk, Put(mk, p, c), p, c)
  BY DEF Put, Waiting

\* The child starts with what its mother has.
LEMMA KeptRow ==
  ASSUME NEW mc, NEW K, K \in [Procs -> [VA(mc) -> Value]], NEW p \in Procs, NEW c \in Procs
  PROVE  /\ Put(K, c, K[p]) \in [Procs -> [VA(mc) -> Value]] /\ Put(K, c, K[p])[c] = K[p]
         /\ \A q \in Procs : q # c => Put(K, c, K[p])[q] = K[q]
  BY DEF Put

\* fork: a child without pages.
LEMMA ForkBegin ==
  ASSUME NEW mc, NEW P, NEW T, NEW F, NEW B, NEW cp, NEW l, NEW mk, NEW K, Fork(mc, P, T, F, B, cp, l, mk, K),
         NEW p \in Procs, l[p] = "alive", mk[p] = NULL, cp[p] = Idle,
         NEW c \in Procs, c \in Nat, c # NULL, l[c] = "unborn"
  PROVE  Fork(mc, P, T, F, B, cp, Put(l, c, "made"), Put(mk, p, c), K)
<1> USE DEF NULL
<1>t. ForkType(mc, P, T, F, B, cp, l, mk, K)
  BY DEF Fork
<1>T. l \in [Procs -> Stage] /\ mk \in [Procs -> Nat]
  BY <1>t DEF ForkType
<1>l. PICK l2 : l2 = Put(l, c, "made") /\ Staged(l, l2, c, "made")
  BY <1>T, StageAt, StageFacts
<1>1. /\ l2 = Put(l, c, "made") /\ l2 \in [Procs -> Stage] /\ l2[c] = "made"
      /\ \A q \in Procs : q # c => l2[q] = l[q]
  BY <1>l DEF Staged
<1>m. PICK mk2 : mk2 = Put(mk, p, c) /\ Waiting(mk, mk2, p, c)
  BY <1>T, MakingAt
<1>2. /\ mk2 = Put(mk, p, c) /\ mk2 \in [Procs -> Nat] /\ mk2[p] = c
      /\ \A q \in Procs : q # p => mk2[q] = mk[q]
  BY <1>m DEF Waiting
<1>3. ForkType(mc, P, T, F, B, cp, l2, mk2, K)
  BY <1>t, <1>1, <1>2 DEF ForkType
<1>4. CopyOk(mc, P, F, cp, l2, mk2)
  <2>1. ASSUME NEW q \in Procs, cp[q] # Idle PROVE q # p /\ q # c /\ l2[q] = l[q] /\ mk2[q] = mk[q]
    <3>1. q # p /\ q # c
      BY <2>1 DEF Fork, CopyOk
    <3> QED BY <1>1, <1>2, <3>1
  <2> QED BY <2>1 DEF Fork, CopyOk
<1>5. BornOk(mc, P, l2, mk2)
  <2>1. ASSUME NEW q \in Procs, mk2[q] # NULL
        PROVE  /\ l2[q] = "alive" /\ mk2[q] \in Procs /\ l2[mk2[q]] = "made"
               /\ \A r \in Procs : mk2[r] = mk2[q] => r = q
               /\ \A w \in VA(mc) : P[mk2[q]][w].kind # "none" =>
                    P[mk2[q]][w].kind = P[q][w].kind /\ P[mk2[q]][w].frame = P[q][w].frame
    <3>0. ASSUME NEW r \in Procs, r # p PROVE mk2[r] # c
      <4>1. mk2[r] = mk[r]
        BY <1>2, <3>0
      <4>2. mk[r] # NULL => l[mk[r]] = "made"
        BY DEF Fork, BornOk
      <4> QED BY <4>1, <4>2
    <3>1. CASE q = p
      <4>1. mk2[q] = c /\ l2[q] = "alive" /\ l2[c] = "made"
        BY <1>1, <1>2, <3>1
      <4>2. \A w \in VA(mc) : P[c][w].kind = "none"
        BY DEF Fork, BornOk
      <4> QED BY <3>0, <3>1, <4>1, <4>2
    <3>2. CASE q # p
      <4>1. mk2[q] = mk[q]
        BY <1>2, <3>2
      <4>2. /\ l[q] = "alive" /\ mk[q] \in Procs /\ l[mk[q]] = "made"
            /\ \A r \in Procs : mk[r] = mk[q] => r = q
            /\ \A w \in VA(mc) : P[mk[q]][w].kind # "none" =>
                 P[mk[q]][w].kind = P[q][w].kind /\ P[mk[q]][w].frame = P[q][w].frame
        BY <2>1, <4>1 DEF Fork, BornOk
      <4>3. q # c /\ mk[q] # c
        BY <4>2
      <4>4. l2[q] = l[q] /\ l2[mk[q]] = l[mk[q]]
        BY <1>1, <4>2, <4>3
      <4>5. ASSUME NEW r \in Procs, mk2[r] = mk2[q] PROVE r = q
        <5>1. r # p
          BY <1>2, <4>1, <4>3, <4>5
        <5> QED BY <1>2, <4>1, <4>2, <4>5, <5>1
      <4> QED BY <4>1, <4>2, <4>4, <4>5
    <3> QED BY <3>1, <3>2
  <2>2. ASSUME NEW q \in Procs, l2[q] = "unborn", NEW w \in VA(mc) PROVE P[q][w].kind = "none"
    <3>1. l[q] = "unborn"
      BY <1>1, <2>2
    <3> QED BY <3>1 DEF Fork, BornOk
  <2> QED BY <2>1, <2>2 DEF BornOk
<1>6. KeptOk(mc, P, F, K, l2)
  <2>1. \A q \in Procs : l2[q] = "alive" => l[q] = "alive"
    BY <1>1
  <2> QED BY <2>1 DEF Fork, KeptOk
<1> QED BY <1>1, <1>2, <1>3, <1>4, <1>5, <1>6 DEF Fork

\* The child has every page of its mother, and both run.
LEMMA ForkEnd ==
  ASSUME NEW mc, NEW P, NEW T, NEW F, NEW B, NEW cp, NEW l, NEW mk, NEW K, Fork(mc, P, T, F, B, cp, l, mk, K),
         NEW p \in Procs, NEW c, c = mk[p], c # NULL,
         \A va \in VA(mc) : P[p][va].kind # "none" => P[c][va].kind # "none"
  PROVE  Fork(mc, P, T, F, B, cp, Put(l, c, "alive"), Put(mk, p, NULL), Put(K, c, K[p]))
<1> USE DEF NULL
<1>t. ForkType(mc, P, T, F, B, cp, l, mk, K)
  BY DEF Fork
<1>T. l \in [Procs -> Stage] /\ mk \in [Procs -> Nat] /\ K \in [Procs -> [VA(mc) -> Value]]
  BY <1>t DEF ForkType
<1>p. \A q \in Procs : \A w \in VA(mc) : PgOk(mc, w, P[q][w], T[q][w], F, cp[q])
  BY DEF Fork, PagesOk
<1>c. /\ c \in Procs /\ l[p] = "alive" /\ l[c] = "made" /\ c # p
      /\ \A q \in Procs : mk[q] = c => q = p
      /\ \A va \in VA(mc) : P[c][va].kind # "none" => P[c][va].kind = P[p][va].kind /\ P[c][va].frame = P[p][va].frame
  BY DEF Fork, BornOk
<1>l. PICK l2 : l2 = Put(l, c, "alive") /\ Staged(l, l2, c, "alive")
  BY <1>T, <1>c, StageAt, StageFacts
<1>1. /\ l2 = Put(l, c, "alive") /\ l2 \in [Procs -> Stage] /\ l2[c] = "alive"
      /\ \A q \in Procs : q # c => l2[q] = l[q]
  BY <1>l DEF Staged
<1>m. PICK mk2 : mk2 = Put(mk, p, NULL) /\ Waiting(mk, mk2, p, NULL)
  BY <1>T, MakingAt
<1>2. /\ mk2 = Put(mk, p, NULL) /\ mk2 \in [Procs -> Nat] /\ mk2[p] = NULL
      /\ \A q \in Procs : q # p => mk2[q] = mk[q]
  BY <1>m DEF Waiting
<1>k. PICK K2 : /\ K2 = Put(K, c, K[p]) /\ K2 \in [Procs -> [VA(mc) -> Value]] /\ K2[c] = K[p]
                /\ \A q \in Procs : q # c => K2[q] = K[q]
  BY <1>T, <1>c, KeptRow
<1>3. ForkType(mc, P, T, F, B, cp, l2, mk2, K2)
  BY <1>t, <1>1, <1>2, <1>k DEF ForkType
<1>4. CopyOk(mc, P, F, cp, l2, mk2)
  <2>1. ASSUME NEW q \in Procs, cp[q] # Idle PROVE l2[q] = l[q] /\ mk2[q] = mk[q]
    <3>1. q # p /\ q # c
      BY <1>c, <2>1 DEF Fork, CopyOk
    <3> QED BY <1>1, <1>2, <3>1
  <2> QED BY <2>1 DEF Fork, CopyOk
<1>5. BornOk(mc, P, l2, mk2)
  <2>1. ASSUME NEW q \in Procs, mk2[q] # NULL
        PROVE  /\ l2[q] = "alive" /\ mk2[q] \in Procs /\ l2[mk2[q]] = "made"
               /\ \A r \in Procs : mk2[r] = mk2[q] => r = q
               /\ \A w \in VA(mc) : P[mk2[q]][w].kind # "none" =>
                    P[mk2[q]][w].kind = P[q][w].kind /\ P[mk2[q]][w].frame = P[q][w].frame
    <3>1. q # p /\ mk2[q] = mk[q]
      BY <1>2, <2>1
    <3>2. /\ l[q] = "alive" /\ mk[q] \in Procs /\ l[mk[q]] = "made"
          /\ \A r \in Procs : mk[r] = mk[q] => r = q
          /\ \A w \in VA(mc) : P[mk[q]][w].kind # "none" =>
               P[mk[q]][w].kind = P[q][w].kind /\ P[mk[q]][w].frame = P[q][w].frame
      BY <2>1, <3>1 DEF Fork, BornOk
    <3>3. q # c /\ mk[q] # c
      BY <1>c, <3>1, <3>2
    <3>4. l2[q] = l[q] /\ l2[mk[q]] = l[mk[q]]
      BY <1>1, <3>2, <3>3
    <3>5. ASSUME NEW r \in Procs, mk2[r] = mk2[q] PROVE r = q
      <4>1. r # p
        BY <1>2, <2>1, <3>5
      <4> QED BY <1>2, <3>1, <3>2, <3>5, <4>1
    <3> QED BY <3>1, <3>2, <3>4, <3>5
  <2>2. ASSUME NEW q \in Procs, l2[q] = "unborn", NEW w \in VA(mc) PROVE P[q][w].kind = "none"
    <3>1. l[q] = "unborn"
      BY <1>1, <2>2
    <3> QED BY <3>1 DEF Fork, BornOk
  <2> QED BY <2>1, <2>2 DEF BornOk
<1>6. KeptOk(mc, P, F, K2, l2)
  <2>1. ASSUME NEW q \in Procs, l2[q] = "alive", NEW w \in VA(mc) PROVE Held(mc, w, P[q][w], F) = K2[q][w]
    <3>1. CASE q = c
      <4>1. P[c][w].frame = P[p][w].frame
        BY <1>c, <1>p DEF PgOk
      <4>2. Held(mc, w, P[p][w], F) = K[p][w]
        BY <1>c DEF Fork, KeptOk
      <4>3. Held(mc, w, P[c][w], F) = Held(mc, w, P[p][w], F)
        BY <4>1 DEF Held
      <4> QED BY <1>k, <3>1, <4>2, <4>3
    <3>2. CASE q # c
      <4>1. l[q] = "alive" /\ K2[q] = K[q]
        BY <1>1, <1>k, <2>1, <3>2
      <4> QED BY <4>1 DEF Fork, KeptOk
    <3> QED BY <3>1, <3>2
  <2> QED BY <2>1 DEF KeptOk
<1> QED BY <1>1, <1>2, <1>k, <1>3, <1>4, <1>5, <1>6 DEF Fork

\* A process dies; its pages stay for supplemental_page_table_kill.
LEMMA ForkExit ==
  ASSUME NEW mc, NEW P, NEW T, NEW F, NEW B, NEW cp, NEW l, NEW mk, NEW K, Fork(mc, P, T, F, B, cp, l, mk, K),
         NEW p \in Procs, l[p] = "alive", mk[p] = NULL, cp[p] = Idle
  PROVE  Fork(mc, P, T, F, B, cp, Put(l, p, "dead"), mk, K)
<1>t. ForkType(mc, P, T, F, B, cp, l, mk, K)
  BY DEF Fork
<1>T. l \in [Procs -> Stage]
  BY <1>t DEF ForkType
<1>l. PICK l2 : l2 = Put(l, p, "dead") /\ Staged(l, l2, p, "dead")
  BY <1>T, StageAt, StageFacts
<1>1. /\ l2 = Put(l, p, "dead") /\ l2 \in [Procs -> Stage] /\ l2[p] = "dead"
      /\ \A q \in Procs : q # p => l2[q] = l[q]
  BY <1>l DEF Staged
<1>3. ForkType(mc, P, T, F, B, cp, l2, mk, K)
  BY <1>t, <1>1 DEF ForkType
<1>4. CopyOk(mc, P, F, cp, l2, mk)
  <2>1. ASSUME NEW q \in Procs, cp[q] # Idle PROVE l2[q] = l[q]
    BY <1>1, <2>1
  <2> QED BY <2>1 DEF Fork, CopyOk
<1>5. BornOk(mc, P, l2, mk)
  <2>1. ASSUME NEW q \in Procs, mk[q] # NULL
        PROVE  /\ l2[q] = "alive" /\ mk[q] \in Procs /\ l2[mk[q]] = "made"
               /\ \A r \in Procs : mk[r] = mk[q] => r = q
               /\ \A w \in VA(mc) : P[mk[q]][w].kind # "none" =>
                    P[mk[q]][w].kind = P[q][w].kind /\ P[mk[q]][w].frame = P[q][w].frame
    <3>1. /\ l[q] = "alive" /\ mk[q] \in Procs /\ l[mk[q]] = "made"
          /\ \A r \in Procs : mk[r] = mk[q] => r = q
          /\ \A w \in VA(mc) : P[mk[q]][w].kind # "none" =>
               P[mk[q]][w].kind = P[q][w].kind /\ P[mk[q]][w].frame = P[q][w].frame
      BY <2>1 DEF Fork, BornOk
    <3>2. q # p /\ mk[q] # p
      BY <2>1, <3>1
    <3> QED BY <1>1, <3>1, <3>2
  <2>2. ASSUME NEW q \in Procs, l2[q] = "unborn", NEW w \in VA(mc) PROVE P[q][w].kind = "none"
    <3>1. l[q] = "unborn"
      BY <1>1, <2>2
    <3> QED BY <3>1 DEF Fork, BornOk
  <2> QED BY <2>1, <2>2 DEF BornOk
<1>6. KeptOk(mc, P, F, K, l2)
  <2>1. \A q \in Procs : l2[q] = "alive" => l[q] = "alive"
    BY <1>1
  <2> QED BY <2>1 DEF Fork, KeptOk
<1> QED BY <1>1, <1>3, <1>4, <1>5, <1>6 DEF Fork

\* The frames after a page of frame f, if any, is gone: one user less than the
\* count n.
Uncounted(mc, F, F2, f, n) ==
  /\ F2 \in [Fr(mc) -> FrameRec]
  /\ \A g \in Fr(mc) : F2[g].live = F[g].live /\ F2[g].data = F[g].data
                       /\ F2[g].ref_cnt = IF g = f THEN n - 1 ELSE F[g].ref_cnt

\* A page of a dead process is destroyed.
LEMMA ForkKill ==
  ASSUME NEW mc, NEW P, NEW T, NEW F, NEW B, NEW cp, NEW l, NEW mk, NEW K, Fork(mc, P, T, F, B, cp, l, mk, K),
         NEW p \in Procs, l[p] = "dead", NEW va \in VA(mc), NEW f, f = P[p][va].frame,
         NEW t \in PteRec, ~t.p, NEW F2, NEW n \in Int, Uncounted(mc, F, F2, f, n),
         f \in Fr(mc) => Cardinality(Holders(mc, P, cp, f)) <= n
  PROVE  Fork(mc, Put2(P, p, va, NoPage), Put2(T, p, va, t), F2, B, cp, l, mk, K)
<1> USE DEF NULL, None
<1>t. ForkType(mc, P, T, F, B, cp, l, mk, K)
  BY DEF Fork
<1>T. /\ cp \in [Procs -> CallRec] /\ F \in [Fr(mc) -> FrameRec] /\ T \in [Procs -> [VA(mc) -> PteRec]]
      /\ P \in [Procs -> [VA(mc) -> PageRec]]
  BY <1>t DEF ForkType
<1>p. \A q \in Procs : \A w \in VA(mc) : PgOk(mc, w, P[q][w], T[q][w], F, cp[q])
  BY DEF Fork, PagesOk
<1>i. cp[p] = Idle
  BY DEF Fork, CopyOk
<1>n. NoPage \in PageRec /\ NoPage.frame = NULL /\ NoPage.slot = None /\ NoPage.kind = "none"
  BY DEF NoPage, PageRec
<1>1. PICK T2 : T2 = Put2(T, p, va, t) /\ T2 \in [Procs -> [VA(mc) -> PteRec]] /\ At2(mc, T, T2, p, va, t)
  BY <1>T, PteAt
<1>2. PICK P2 : P2 = Put2(P, p, va, NoPage) /\ P2 \in [Procs -> [VA(mc) -> PageRec]] /\ At2(mc, P, P2, p, va, NoPage)
  BY <1>T, <1>n, PageAt
<1>5. \A g \in Fr(mc) : F2[g].live = F[g].live /\ F2[g].data = F[g].data
  BY DEF Uncounted
<1>6. ForkType(mc, P2, T2, F2, B, cp, l, mk, K)
  BY <1>t, <1>1, <1>2 DEF ForkType, Uncounted
<1>q. \A q \in Procs : q # p => \A w \in VA(mc) : P2[q][w] = P[q][w]
  BY <1>2 DEF At2
<1>r. \A q \in Procs : \A w \in VA(mc) : P2[q][w].frame # NULL => P2[q][w] = P[q][w]
  BY <1>2, <1>n DEF At2
<1>7. PagesOk(mc, P2, T2, F2, cp)
  <2>1. ASSUME NEW q \in Procs, NEW w \in VA(mc) PROVE PgOk(mc, w, P2[q][w], T2[q][w], F2, cp[q])
    <3>1. PgOk(mc, w, P[q][w], T[q][w], F, cp[q])
      BY <1>p
    <3>2. CASE q = p /\ w = va
      <4>1. P2[q][w] = NoPage /\ T2[q][w] = t
        BY <1>1, <1>2, <3>2 DEF At2
      <4> QED BY <1>n, <4>1 DEF PgOk
    <3>3. CASE q # p \/ w # va
      <4>1. P2[q][w] = P[q][w] /\ T2[q][w] = T[q][w]
        BY <1>1, <1>2, <3>3 DEF At2
      <4> QED BY <1>5, <3>1, <4>1 DEF PgOk
    <3> QED BY <3>2, <3>3
  <2> QED BY <2>1 DEF PagesOk
<1>8. Shared(mc, P2)
  <2>1. Shared(mc, P)
    BY DEF Fork
  <2> QED BY <1>r, <2>1 DEF Shared
<1>9. TableOk(mc, F2, B)
  BY <1>5, TableSame DEF Fork
<1>10. ASSUME NEW g \in Fr(mc) PROVE Holders(mc, P2, cp, g) \subseteq Holders(mc, P, cp, g)
  <2>1. g # NULL
    BY DEF Fr
  <2> QED BY <1>r, <2>1 DEF Holders
<1>11. ASSUME f \in Fr(mc)
       PROVE  Holders(mc, P2, cp, f) \subseteq Holders(mc, P, cp, f) \ {p} /\ p \in Holders(mc, P, cp, f)
  <2>0. f # NULL
    BY <1>11 DEF Fr
  <2>1. p \in Holders(mc, P, cp, f)
    BY DEF Holders
  <2>2. ASSUME NEW w \in VA(mc) PROVE P2[p][w].frame # f
    <3>1. CASE w = va
      BY <1>2, <1>n, <2>0, <3>1 DEF At2
    <3>2. CASE w # va
      <4>1. P2[p][w] = P[p][w]
        BY <1>2, <3>2 DEF At2
      <4>2. Shared(mc, P)
        BY DEF Fork
      <4>3. P[p][w].frame # f
        BY <2>0, <3>2, <4>2 DEF Shared
      <4> QED BY <4>1, <4>3
    <3> QED BY <3>1, <3>2
  <2>3. p \notin Holders(mc, P2, cp, f)
    BY <1>i, <2>2 DEF Holders
  <2> QED BY <1>10, <1>11, <2>1, <2>3
<1>12. ASSUME NEW g PROVE Cardinality(Holders(mc, P2, cp, g)) \in Nat /\ Cardinality(Holders(mc, P, cp, g)) \in Nat
  BY HoldersFinite
<1>13. ASSUME NEW g \in Fr(mc) PROVE Cardinality(Holders(mc, P2, cp, g)) <= Cardinality(Holders(mc, P, cp, g))
  BY <1>10, HoldersCount
<1>14. CountOk(mc, P2, F2, cp)
  <2>1. ASSUME NEW g \in Fr(mc), F2[g].live PROVE Cardinality(Holders(mc, P2, cp, g)) <= F2[g].ref_cnt
    <3>0. F[g].live /\ F[g].ref_cnt \in Int
      BY <1>T, <1>5, <2>1 DEF FrameRec
    <3>1. Cardinality(Holders(mc, P, cp, g)) <= F[g].ref_cnt
      BY <3>0 DEF Fork, CountOk
    <3>2. CASE g = f
      <4>1. Cardinality(Holders(mc, P2, cp, f)) <= Cardinality(Holders(mc, P, cp, f)) - 1
        BY <1>11, <3>2, HoldersCount
      <4>2. F2[g].ref_cnt = n - 1 /\ Cardinality(Holders(mc, P, cp, g)) <= n
        BY <3>2 DEF Uncounted
      <4> QED BY <1>12, <3>2, <4>1, <4>2
    <3>3. CASE g # f
      <4>1. F2[g].ref_cnt = F[g].ref_cnt
        BY <3>3 DEF Uncounted
      <4> QED BY <1>12, <1>13, <3>0, <3>1, <4>1
    <3> QED BY <3>2, <3>3
  <2>2. ASSUME NEW q \in Procs, cp[q].cnt # None PROVE Cardinality(Holders(mc, P2, cp, cp[q].from)) <= cp[q].cnt
    <3>1. cp[q] # Idle
      BY <2>2, IdleFacts
    <3>2. cp[q].from \in Fr(mc)
      BY <3>1 DEF Fork, CopyOk
    <3>3. Cardinality(Holders(mc, P, cp, cp[q].from)) <= cp[q].cnt
      BY <2>2 DEF Fork, CountOk
    <3>4. cp[q].cnt \in Int
      BY <1>T DEF CallRec
    <3> QED BY <1>12, <1>13, <3>2, <3>3, <3>4
  <2> QED BY <2>1, <2>2 DEF CountOk
<1>15. CopyOk(mc, P2, F2, cp, l, mk)
  <2>1. ASSUME NEW q \in Procs, cp[q] # Idle PROVE q # p
    BY <1>i, <2>1
  <2> QED BY <1>5, <1>q, <2>1 DEF Fork, CopyOk
<1>16. BornOk(mc, P2, l, mk)
  <2>1. ASSUME NEW q \in Procs, mk[q] # NULL
        PROVE  /\ l[q] = "alive" /\ mk[q] \in Procs /\ l[mk[q]] = "made"
               /\ \A r \in Procs : mk[r] = mk[q] => r = q
               /\ \A w \in VA(mc) : P2[mk[q]][w].kind # "none" =>
                    P2[mk[q]][w].kind = P2[q][w].kind /\ P2[mk[q]][w].frame = P2[q][w].frame
    <3>1. /\ l[q] = "alive" /\ mk[q] \in Procs /\ l[mk[q]] = "made"
          /\ \A r \in Procs : mk[r] = mk[q] => r = q
          /\ \A w \in VA(mc) : P[mk[q]][w].kind # "none" =>
               P[mk[q]][w].kind = P[q][w].kind /\ P[mk[q]][w].frame = P[q][w].frame
      BY <2>1 DEF Fork, BornOk
    <3>2. q # p /\ mk[q] # p
      BY <3>1
    <3> QED BY <1>q, <3>1, <3>2
  <2>2. ASSUME NEW q \in Procs, l[q] = "unborn", NEW w \in VA(mc) PROVE P2[q][w].kind = "none"
    BY <1>q, <2>2 DEF Fork, BornOk
  <2> QED BY <2>1, <2>2 DEF BornOk
<1>17. KeptOk(mc, P2, F2, K, l)
  <2>1. ASSUME NEW q \in Procs, l[q] = "alive", NEW w \in VA(mc) PROVE Held(mc, w, P2[q][w], F2) = K[q][w]
    <3>1. P2[q][w] = P[q][w]
      BY <1>q, <2>1
    <3>2. Held(mc, w, P[q][w], F) = K[q][w]
      BY <2>1 DEF Fork, KeptOk
    <3> QED BY <1>5, <1>p, <3>1, <3>2 DEF Held, PgOk
  <2> QED BY <2>1 DEF KeptOk
<1>18. Fork(mc, P2, T2, F2, B, cp, l, mk, K)
  BY <1>6, <1>7, <1>8, <1>9, <1>14, <1>15, <1>16, <1>17 DEF Fork
<1> QED BY <1>1, <1>2, <1>18

\* What the kernel keeps while processes fork, and what they do.
ForkVm(mc, m, cp, l, mk, K) ==
  /\ Fields(m, m.pages, m.pte, m.frames, m.frame_table, m.clock_start, m.swap, m.disk)
  /\ Fork(mc, m.pages, m.pte, m.frames, m.frame_table, cp, l, mk, K)

\* The count that an exit loaded covers the users of the frame, its own page
\* among them.
DeadOk(mc, P, cp, l, q, k) ==
  /\ l[q] = "dead" /\ P[q][k.va].frame = k.from
  /\ Cardinality(Holders(mc, P, cp, k.from)) <= k.cnt

\* The count that the child of a fork loaded is the frame's, and nobody else has
\* loaded it.
MadeOk(P, F, cp, ct, l, mk, q, k) ==
  /\ l[q] = "made" /\ P[q][k.va].kind = "none" /\ F[k.from].ref_cnt = k.cnt
  /\ \E p \in Procs : mk[p] = q /\ P[p][k.va].frame = k.from
  /\ \A r \in Procs : (cp[r].cnt # None => cp[r].from # k.from) /\ (r # q => ct[r].from # k.from)

\* The counts that exits and forks have loaded.
Pend(mc, P, F, cp, ct, l, mk) ==
  /\ ct \in [Procs -> CallRec]
  /\ \A q \in Procs : ct[q] # Idle =>
       /\ ct[q].va \in VA(mc) /\ ct[q].from \in Fr(mc) /\ F[ct[q].from].live
       /\ DeadOk(mc, P, cp, l, q, ct[q]) \/ MadeOk(P, F, cp, ct, l, mk, q, ct[q])

\* A step that leaves alone what the loaded counts are about.
Quiet(mc, P, F, cp, l, mk, P2, F2, cp2, l2, mk2, ct) ==
  \A q \in Procs : ct[q] # Idle =>
    /\ l2[q] = l[q] /\ F2[ct[q].from].live
    /\ \A w \in VA(mc) : P2[q][w] = P[q][w]
    /\ l[q] = "dead" => Holders(mc, P2, cp2, ct[q].from) \subseteq Holders(mc, P, cp, ct[q].from)
    /\ l[q] = "made" =>
         /\ F2[ct[q].from].ref_cnt = F[ct[q].from].ref_cnt
         /\ \A p \in Procs : mk[p] = q => mk2[p] = q /\ \A w \in VA(mc) : P2[p][w].frame = P[p][w].frame
         /\ \A r \in Procs : cp2[r].cnt # None => cp2[r].from # ct[q].from

\* Some of the counts are stored, the others are still right.
Fewer(ct, ct2) == ct2 \in [Procs -> CallRec] /\ \A q \in Procs : ct2[q] = Idle \/ ct2[q] = ct[q]

\* A quiet step keeps them right.
LEMMA PendKept ==
  ASSUME NEW mc, NEW P, NEW F, NEW cp, NEW ct, NEW l, NEW mk, Pend(mc, P, F, cp, ct, l, mk),
         NEW P2, NEW F2, NEW cp2, NEW ct2, NEW l2, NEW mk2, Fewer(ct, ct2),
         Quiet(mc, P, F, cp, l, mk, P2, F2, cp2, l2, mk2, ct2)
  PROVE  Pend(mc, P2, F2, cp2, ct2, l2, mk2)
<1> SUFFICES ASSUME NEW q \in Procs, ct2[q] # Idle
             PROVE  /\ ct2[q].va \in VA(mc) /\ ct2[q].from \in Fr(mc) /\ F2[ct2[q].from].live
                    /\ DeadOk(mc, P2, cp2, l2, q, ct2[q]) \/ MadeOk(P2, F2, cp2, ct2, l2, mk2, q, ct2[q])
  BY DEF Pend, Fewer
<1> PICK k : k = ct2[q]
  OBVIOUS
<1>1. k = ct[q] /\ k \in CallRec /\ k # Idle
  BY DEF Fewer
<1>2. /\ k.va \in VA(mc) /\ k.from \in Fr(mc)
      /\ DeadOk(mc, P, cp, l, q, k) \/ MadeOk(P, F, cp, ct, l, mk, q, k)
  BY <1>1 DEF Pend
<1>3. /\ l2[q] = l[q] /\ F2[k.from].live /\ \A w \in VA(mc) : P2[q][w] = P[q][w]
      /\ l[q] = "dead" => Holders(mc, P2, cp2, k.from) \subseteq Holders(mc, P, cp, k.from)
      /\ l[q] = "made" =>
           /\ F2[k.from].ref_cnt = F[k.from].ref_cnt
           /\ \A p \in Procs : mk[p] = q => mk2[p] = q /\ \A w \in VA(mc) : P2[p][w].frame = P[p][w].frame
           /\ \A r \in Procs : cp2[r].cnt # None => cp2[r].from # k.from
  BY DEF Quiet
<1>4. CASE DeadOk(mc, P, cp, l, q, k)
  <2>1. Cardinality(Holders(mc, P2, cp2, k.from)) <= Cardinality(Holders(mc, P, cp, k.from))
    BY <1>3, <1>4, HoldersCount DEF DeadOk
  <2>2. /\ Cardinality(Holders(mc, P2, cp2, k.from)) \in Nat /\ Cardinality(Holders(mc, P, cp, k.from)) \in Nat
        /\ k.cnt \in Int
    BY <1>1, HoldersFinite DEF CallRec
  <2>3. DeadOk(mc, P2, cp2, l2, q, k)
    BY <1>2, <1>3, <1>4, <2>1, <2>2 DEF DeadOk
  <2> QED BY <1>2, <1>3, <2>3
<1>5. CASE MadeOk(P, F, cp, ct, l, mk, q, k)
  <2>1. PICK p \in Procs : mk[p] = q /\ P[p][k.va].frame = k.from
    BY <1>5 DEF MadeOk
  <2>2. mk2[p] = q /\ P2[p][k.va].frame = k.from
    BY <1>2, <1>3, <1>5, <2>1 DEF MadeOk
  <2>3. ASSUME NEW r \in Procs, r # q PROVE ct2[r].from # k.from
    <3>1. k.from # NULL
      BY <1>2 DEF Fr, NULL
    <3>2. ct[r].from # k.from
      BY <1>5, <2>3 DEF MadeOk
    <3> QED BY <3>1, <3>2, IdleFacts DEF Fewer
  <2>4. MadeOk(P2, F2, cp2, ct2, l2, mk2, q, k)
    BY <1>2, <1>3, <1>5, <2>2, <2>3 DEF MadeOk
  <2> QED BY <1>2, <1>3, <2>4
<1> QED BY <1>2, <1>4, <1>5

\* The invariant of a machine whose programs fork.
ForkInv ==
  /\ ForkVm(machine, vm, copying, life, making, kept)
  /\ Pend(machine, vm.pages, vm.frames, copying, counting, life, making)
  /\ machine.maps = {} /\ machine.slots = 0 /\ \A p \in Procs : unmapping[p] = None

\* The fields of vm, from the invariant.
LEMMA ForkOpen ==
  ASSUME ForkInv
  PROVE  \E P, T, F, B, c, W, D :
           /\ Fields(vm, P, T, F, B, c, W, D) /\ Fork(machine, P, T, F, B, copying, life, making, kept)
           /\ vm.pages = P /\ vm.pte = T /\ vm.frames = F
  BY DEF ForkInv, ForkVm

\* The invariant of vm, from the fields.
LEMMA ForkClose ==
  ASSUME NEW mc, NEW r, NEW P, NEW T, NEW F, NEW B, NEW c, NEW W, NEW D, Fields(r, P, T, F, B, c, W, D),
         NEW cp, NEW l, NEW mk, NEW K, Fork(mc, P, T, F, B, cp, l, mk, K)
  PROVE  ForkVm(mc, r, cp, l, mk, K)
<1>1. /\ r.pages = P /\ r.pte = T /\ r.frames = F /\ r.frame_table = B /\ r.clock_start = c
      /\ r.swap = W /\ r.disk = D
  BY DEF Fields
<1> QED BY <1>1 DEF ForkVm

\* What the invariant says of a loaded count.
LEMMA PendFacts ==
  ASSUME ForkInv, NEW q \in Procs, counting[q] # Idle
  PROVE  /\ counting[q].va \in VA(machine) /\ counting[q].from \in Fr(machine) /\ counting[q].from # NULL
         /\ vm.frames[counting[q].from].live /\ life[q] \in {"dead", "made"}
         /\ life[q] = "dead" => DeadOk(machine, vm.pages, copying, life, q, counting[q])
         /\ life[q] = "made" => MadeOk(vm.pages, vm.frames, copying, counting, life, making, q, counting[q])
<1>1. /\ counting[q].va \in VA(machine) /\ counting[q].from \in Fr(machine) /\ vm.frames[counting[q].from].live
      /\ \/ DeadOk(machine, vm.pages, copying, life, q, counting[q])
         \/ MadeOk(vm.pages, vm.frames, copying, counting, life, making, q, counting[q])
  BY DEF ForkInv, Pend
<1>2. counting[q].from # NULL
  BY <1>1 DEF Fr, NULL
<1> QED BY <1>1, <1>2 DEF DeadOk, MadeOk

\* A step that keeps the record and the loaded counts right keeps all right.
LEMMA ForkPend ==
  ASSUME ForkInv, machine' = machine, unmapping' = unmapping,
         ForkVm(machine, vm', copying', life', making', kept'),
         Pend(machine, vm'.pages, vm'.frames, copying', counting', life', making')
  PROVE  ForkInv'
<1>1. ForkVm(machine', vm', copying', life', making', kept')
  OBVIOUS
<1>2. machine'.maps = {} /\ machine'.slots = 0 /\ \A p \in Procs : unmapping'[p] = None
  BY DEF ForkInv
<1>3. Pend(machine', vm'.pages, vm'.frames, copying', counting', life', making')
  OBVIOUS
<1> QED BY <1>1, <1>2, <1>3 DEF ForkInv

\* The step is quiet.
Calmly ==
  /\ Fewer(counting, counting')
  /\ Quiet(machine, vm.pages, vm.frames, copying, life, making,
           vm'.pages, vm'.frames, copying', life', making', counting')

\* So it keeps the loaded counts right.
LEMMA ForkStep ==
  ASSUME ForkInv, machine' = machine, unmapping' = unmapping,
         ForkVm(machine, vm', copying', life', making', kept'), Calmly
  PROVE  ForkInv'
<1>1. Pend(machine, vm.pages, vm.frames, copying, counting, life, making)
  BY DEF ForkInv
<1>2. Pend(machine, vm'.pages, vm'.frames, copying', counting', life', making')
  BY <1>1, PendKept DEF Calmly
<1> QED BY <1>2, ForkPend

\* Counts that nobody stores.
LEMMA FewerSame ==
  ASSUME ForkInv, counting' = counting
  PROVE  Fewer(counting, counting')
  BY DEF ForkInv, Pend, Fewer

\* A step of the kernel on behalf of a process that runs is quiet, if it adds no
\* user to a frame in use and changes no count that is loaded.
LEMMA AliveCalm ==
  ASSUME ForkInv, machine' = machine, counting' = counting, life' = life, making' = making,
         NEW p \in Procs, life[p] = "alive", making[p] = NULL,
         \A q \in Procs : q # p => \A w \in VA(machine) : vm'.pages[q][w] = vm.pages[q][w],
         \A f \in Fr(machine) : vm.frames[f].live =>
           /\ vm'.frames[f].live
           /\ Holders(machine, vm'.pages, copying', f) \subseteq Holders(machine, vm.pages, copying, f)
           /\ vm'.frames[f].ref_cnt = vm.frames[f].ref_cnt \/ (copying[p].cnt # None /\ copying[p].from = f),
         \A r \in Procs : r # p => copying'[r] = copying[r],
         copying'[p].cnt # None => Uncounting(copying'[p].from)
  PROVE  Calmly
<1>1. ASSUME NEW q \in Procs, counting'[q] # Idle
      PROVE  /\ life'[q] = life[q] /\ vm'.frames[counting'[q].from].live
             /\ \A w \in VA(machine) : vm'.pages[q][w] = vm.pages[q][w]
             /\ life[q] = "dead" => Holders(machine, vm'.pages, copying', counting'[q].from)
                                       \subseteq Holders(machine, vm.pages, copying, counting'[q].from)
             /\ life[q] = "made" =>
                  /\ vm'.frames[counting'[q].from].ref_cnt = vm.frames[counting'[q].from].ref_cnt
                  /\ \A r \in Procs : making[r] = q =>
                       making'[r] = q /\ \A w \in VA(machine) : vm'.pages[r][w].frame = vm.pages[r][w].frame
                  /\ \A r \in Procs : copying'[r].cnt # None => copying'[r].from # counting'[q].from
  <2>1. /\ counting[q].from \in Fr(machine) /\ vm.frames[counting[q].from].live /\ life[q] \in {"dead", "made"}
        /\ life[q] = "made" => MadeOk(vm.pages, vm.frames, copying, counting, life, making, q, counting[q])
    BY <1>1, PendFacts
  <2>2. q # p /\ q # NULL
    BY <2>1, ProcsFacts DEF NULL
  <2>3. \A r \in Procs : making[r] = q => r # p
    BY <2>2
  <2>4. ASSUME life[q] = "made", NEW r \in Procs, copying'[r].cnt # None PROVE copying'[r].from # counting'[q].from
    <3>1. CASE r = p
      BY <2>4, <3>1 DEF Uncounting
    <3>2. CASE r # p
      BY <2>1, <2>4, <3>2 DEF MadeOk
    <3> QED BY <3>1, <3>2
  <2>5. life[q] = "made" => vm'.frames[counting[q].from].ref_cnt = vm.frames[counting[q].from].ref_cnt
    BY <2>1 DEF MadeOk
  <2> QED BY <2>1, <2>2, <2>3, <2>4, <2>5
<1> QED BY <1>1, FewerSame DEF Calmly, Quiet

\* A process gets a free frame for a page.
LEMMA PlaceCalm ==
  ASSUME ForkInv, machine' = machine, counting' = counting, life' = life, making' = making,
         NEW p \in Procs, life[p] = "alive", making[p] = NULL, NEW va \in VA(machine),
         NEW x, NEW h, x.frame = h, ~vm.frames[h].live, NEW fr, NEW k \in CallRec, k.cnt = None,
         k # Idle => k.from = vm.pages[p][va].frame,
         vm'.pages = Put2(vm.pages, p, va, x), vm'.frames = Put(vm.frames, h, fr),
         copying' = Put(copying, p, k)
  PROVE  Calmly
<1>1. /\ vm.pages \in [Procs -> [VA(machine) -> PageRec]] /\ vm.frames \in [Fr(machine) -> FrameRec]
      /\ copying \in [Procs -> CallRec]
  BY DEF ForkInv, ForkVm, Fork, ForkType
<1>2. /\ vm'.pages[p][va] = x
      /\ \A q \in Procs : \A w \in VA(machine) : q # p \/ w # va => vm'.pages[q][w] = vm.pages[q][w]
  BY <1>1 DEF Put2
<1>3. copying'[p] = k /\ \A r \in Procs : r # p => copying'[r] = copying[r]
  BY <1>1 DEF Put
<1>4. ASSUME NEW f \in Fr(machine), vm.frames[f].live
      PROVE  /\ vm'.frames[f].live /\ vm'.frames[f].ref_cnt = vm.frames[f].ref_cnt
             /\ Holders(machine, vm'.pages, copying', f) \subseteq Holders(machine, vm.pages, copying, f)
  <2>1. f # h /\ vm'.frames[f] = vm.frames[f]
    BY <1>1, <1>4 DEF Put
  <2>2. ASSUME NEW q \in Procs, NEW w \in VA(machine), vm'.pages[q][w].frame = f PROVE vm.pages[q][w].frame = f
    BY <1>2, <2>1, <2>2
  <2>3. ASSUME NEW q \in Procs, copying'[q] # Idle, copying'[q].from = f, q # p PROVE copying[q] # Idle /\ copying[q].from = f
    BY <1>3, <2>3
  <2>4. ASSUME copying'[p] # Idle, copying'[p].from = f PROVE \E w \in VA(machine) : vm.pages[p][w].frame = f
    BY <1>3, <2>4
  <2> QED BY <1>4, <2>1, <2>2, <2>3, <2>4 DEF Holders
<1> QED BY <1>2, <1>3, <1>4, AliveCalm

\* The pages and the calls of others do not change, nor a count.
LEMMA InPlaceCalm ==
  ASSUME ForkInv, machine' = machine, counting' = counting, life' = life, making' = making, copying' = copying,
         NEW p \in Procs, life[p] = "alive", making[p] = NULL, copying[p] = Idle,
         vm'.pages = vm.pages, NEW f \in Fr(machine), NEW fr, fr.live = vm.frames[f].live,
         fr.ref_cnt = vm.frames[f].ref_cnt, vm'.frames = Put(vm.frames, f, fr)
  PROVE  Calmly
<1>1. vm.frames \in [Fr(machine) -> FrameRec]
  BY DEF ForkInv, ForkVm, Fork, ForkType
<1>2. \A g \in Fr(machine) : vm'.frames[g].live = vm.frames[g].live /\ vm'.frames[g].ref_cnt = vm.frames[g].ref_cnt
  BY <1>1 DEF Put
<1> QED BY <1>2, IdleFacts, AliveCalm

\* Only lives and mothers change, and not those of a loaded count.
LEMMA StillCalm ==
  ASSUME ForkInv, machine' = machine, counting' = counting, copying' = copying, vm' = vm,
         \A q \in Procs : counting[q] # Idle =>
           life'[q] = life[q] /\ \A r \in Procs : making[r] = q => making'[r] = q
  PROVE  Calmly
<1>1. ASSUME NEW q \in Procs, counting[q] # Idle
      PROVE  /\ vm.frames[counting[q].from].live
             /\ life[q] = "made" => \A r \in Procs : copying[r].cnt # None => copying[r].from # counting[q].from
  BY <1>1, PendFacts DEF MadeOk
<1> QED BY <1>1, FewerSame DEF Calmly, Quiet

\* Mothers live, and a child that is being made is nobody's mother.
LEMMA MotherFacts ==
  ASSUME ForkInv, NEW p \in Procs, making[p] # NULL
  PROVE  /\ life[p] = "alive" /\ making[p] \in Procs /\ life[making[p]] = "made"
         /\ \A q \in Procs : making[q] = making[p] => q = p
  BY DEF ForkInv, ForkVm, Fork, BornOk

\* A page that is not an alive process's changes, which no other loaded count is
\* about.
LEMMA OtherCalm ==
  ASSUME ForkInv, machine' = machine, life' = life, making' = making, copying' = copying,
         NEW c \in Procs, life[c] # "alive", counting' = Put(counting, c, Idle),
         NEW va \in VA(machine), NEW x, vm'.pages = Put2(vm.pages, c, va, x),
         \A f \in Fr(machine) : vm'.frames[f].live = vm.frames[f].live,
         \A f \in Fr(machine) : vm'.frames[f].ref_cnt = vm.frames[f].ref_cnt \/ counting[c].from = f,
         x.frame = NULL \/ (counting[c].from = x.frame /\ life[c] = "made" /\ counting[c] # Idle)
  PROVE  Calmly
<1>1. vm.pages \in [Procs -> [VA(machine) -> PageRec]] /\ counting \in [Procs -> CallRec]
  BY DEF ForkInv, ForkVm, Fork, ForkType, Pend
<1>2. /\ vm'.pages[c][va] = x
      /\ \A q \in Procs : \A w \in VA(machine) : q # c \/ w # va => vm'.pages[q][w] = vm.pages[q][w]
  BY <1>1 DEF Put2
<1>3. counting' \in [Procs -> CallRec] /\ counting'[c] = Idle /\ \A q \in Procs : q # c => counting'[q] = counting[q]
  BY <1>1, IdleFacts DEF Put
<1>4. Fewer(counting, counting')
  BY <1>3 DEF Fewer
<1>5. ASSUME NEW q \in Procs, counting'[q] # Idle
      PROVE  /\ life'[q] = life[q] /\ vm'.frames[counting'[q].from].live
             /\ \A w \in VA(machine) : vm'.pages[q][w] = vm.pages[q][w]
             /\ life[q] = "dead" => Holders(machine, vm'.pages, copying', counting'[q].from)
                                       \subseteq Holders(machine, vm.pages, copying, counting'[q].from)
             /\ life[q] = "made" =>
                  /\ vm'.frames[counting'[q].from].ref_cnt = vm.frames[counting'[q].from].ref_cnt
                  /\ \A r \in Procs : making[r] = q =>
                       making'[r] = q /\ \A w \in VA(machine) : vm'.pages[r][w].frame = vm.pages[r][w].frame
                  /\ \A r \in Procs : copying'[r].cnt # None => copying'[r].from # counting'[q].from
  <2>1. q # c /\ counting'[q] = counting[q] /\ counting[q] # Idle
    BY <1>3, <1>5
  <2>2. /\ counting[q].from \in Fr(machine) /\ counting[q].from # NULL
        /\ vm.frames[counting[q].from].live /\ life[q] \in {"dead", "made"}
        /\ life[q] = "made" => MadeOk(vm.pages, vm.frames, copying, counting, life, making, q, counting[q])
    BY <2>1, PendFacts
  <2>3. \A w \in VA(machine) : vm'.pages[q][w] = vm.pages[q][w]
    BY <1>2, <2>1
  <2>4. ASSUME x.frame # NULL PROVE x.frame # counting[q].from
    <3>1. MadeOk(vm.pages, vm.frames, copying, counting, life, making, c, counting[c])
      BY <2>4, PendFacts
    <3> QED BY <2>1, <2>4, <3>1 DEF MadeOk
  <2>5. Holders(machine, vm'.pages, copying', counting'[q].from)
          \subseteq Holders(machine, vm.pages, copying, counting'[q].from)
    <3>1. ASSUME NEW r \in Procs, NEW w \in VA(machine), vm'.pages[r][w].frame = counting[q].from
          PROVE  vm.pages[r][w].frame = counting[q].from
      BY <1>2, <2>2, <2>4, <3>1
    <3> QED BY <2>1, <3>1 DEF Holders
  <2>6. ASSUME life[q] = "made" PROVE vm'.frames[counting[q].from].ref_cnt = vm.frames[counting[q].from].ref_cnt
    BY <2>1, <2>2, <2>6 DEF MadeOk
  <2>7. ASSUME NEW r \in Procs, making[r] = q PROVE r # c
    <3>1. making[r] # NULL
      BY <2>7, ProcsFacts DEF NULL
    <3> QED BY <3>1, MotherFacts
  <2>8. ASSUME NEW r \in Procs, making[r] = q, NEW w \in VA(machine) PROVE vm'.pages[r][w].frame = vm.pages[r][w].frame
    BY <1>2, <2>7, <2>8
  <2>9. life[q] = "made" => \A r \in Procs : copying[r].cnt # None => copying[r].from # counting[q].from
    BY <2>2 DEF MadeOk
  <2> QED BY <2>1, <2>2, <2>3, <2>5, <2>6, <2>8, <2>9
<1> QED BY <1>4, <1>5 DEF Calmly, Quiet

\* No page leaves its frame while its process lives, so the clock has no say.
LEMMA ForkUsedKept ==
  ASSUME ForkInv, ForkInv', machine' = machine
  PROVE  UsedKept
<1> SUFFICES ASSUME NEW p \in Procs, NEW va \in VA(machine), vm.pages[p][va].frame # NULL,
                    vm'.pages[p][va].kind = vm.pages[p][va].kind, vm'.pages[p][va].frame = NULL
             PROVE  FALSE
  BY VAFacts DEF UsedKept, Page
<1>1. PgOk(machine, va, vm.pages[p][va], vm.pte[p][va], vm.frames, copying[p])
  BY DEF ForkInv, ForkVm, Fork, PagesOk
<1>2. Fork(machine, vm'.pages, vm'.pte, vm'.frames, vm'.frame_table, copying', life', making', kept')
  BY DEF ForkInv, ForkVm
<1>3. PgOk(machine, va, vm'.pages[p][va], vm'.pte[p][va], vm'.frames, copying'[p])
  BY <1>2 DEF Fork, PagesOk
<1> QED BY <1>1, <1>3 DEF PgOk

\* The first process starts alone.
LEMMA ForkInit ==
  ASSUME Init, machine.forks, machine.slots = 0
  PROVE  ForkInv
<1> USE DEF NULL, None
<1>0. machine \in Machines
  BY DEF Init
<1>m. MachineOk(machine) /\ machine.maps = {}
  BY <1>0, MachineFacts
<1>1. PICK P, T, F, B, W, D :
        /\ P = [p \in Procs |-> [va \in VAs |-> IF p = 1 /\ va \in machine.segs THEN New ELSE NoPage]]
        /\ T = [p \in Procs |-> [va \in VAs |-> NoPte]]
        /\ F = [f \in Frame |-> FreeFrame] /\ B = <<>>
        /\ W = [s \in Slot |-> [used |-> FALSE, data |-> Zero]] /\ D = [va \in machine.maps |-> Zero]
  OBVIOUS
<1>2. Fields(vm, P, T, F, B, NULL, W, D)
  BY <1>1 DEF Init, Fields, VmRec, New
<1>3. NoPage \in PageRec /\ NoPage.frame = NULL /\ NoPage.slot = None /\ NoPage.kind = "none"
  BY DEF NoPage, PageRec
<1>4. NoPte \in PteRec /\ ~NoPte.p
  BY DEF NoPte, PteRec
<1>5. FreeFrame \in FrameRec /\ ~FreeFrame.live
  <2> HIDE DEF NoOwner
  <2> QED BY OwnerFacts DEF FreeFrame, FrameRec, Value
<1>6. /\ P \in [Procs -> [VA(machine) -> PageRec]] /\ T \in [Procs -> [VA(machine) -> PteRec]]
      /\ F \in [Fr(machine) -> FrameRec] /\ B \in Seq(Nat)
  BY <1>1, <1>3, <1>4, <1>5, NewFacts, VAFacts
<1>7. /\ copying \in [Procs -> CallRec] /\ \A p \in Procs : copying[p] = Idle
      /\ making \in [Procs -> Nat] /\ \A p \in Procs : making[p] = NULL
  BY IdleFacts DEF Init
<1>8. life \in [Procs -> Stage] /\ \A p \in Procs : life[p] # "unborn" => p = 1
  BY DEF Init, Stage
<1>9. /\ kept \in [Procs -> [VA(machine) -> Value]]
      /\ \A p \in Procs : \A va \in VA(machine) : kept[p][va] = IF va \in machine.segs THEN Image ELSE Zero
  BY VAFacts DEF Init, Value
<1>10. ForkType(machine, P, T, F, B, copying, life, making, kept)
  BY <1>6, <1>7, <1>8, <1>9 DEF ForkType
<1>11. ASSUME NEW p \in Procs, NEW va \in VA(machine)
       PROVE  /\ P[p][va].frame = NULL /\ P[p][va].slot = None /\ T[p][va] = NoPte
              /\ P[p][va].kind \in {"none", "uninit"} /\ (p # 1 => P[p][va].kind = "none")
  BY <1>1, <1>3, NewFacts, VAFacts
<1>12. \A f \in Fr(machine) : ~F[f].live
  BY <1>1, <1>5, VAFacts
<1>13. PagesOk(machine, P, T, F, copying) /\ Shared(machine, P)
  BY <1>4, <1>11 DEF PagesOk, PgOk, Shared
<1>14. TableOk(machine, F, B)
  BY <1>1, <1>12 DEF TableOk
<1>15. CountOk(machine, P, F, copying) /\ CopyOk(machine, P, F, copying, life, making)
  BY <1>7, <1>12, IdleFacts DEF CountOk, CopyOk
<1>16. BornOk(machine, P, life, making)
  <2>1. ASSUME NEW p \in Procs, life[p] = "unborn" PROVE p # 1
    BY <2>1 DEF Init
  <2> QED BY <1>7, <1>11, <2>1 DEF BornOk
<1>17. KeptOk(machine, P, F, kept, life)
  BY <1>9, <1>11 DEF KeptOk, Held
<1>18. Fork(machine, P, T, F, B, copying, life, making, kept)
  BY <1>10, <1>13, <1>14, <1>15, <1>16, <1>17 DEF Fork
<1>19. ForkVm(machine, vm, copying, life, making, kept)
  BY <1>2, <1>18, ForkClose
<1>20. \A p \in Procs : unmapping[p] = None
  BY DEF Init
<1>21. Pend(machine, vm.pages, vm.frames, copying, counting, life, making)
  <2>1. counting \in [Procs -> CallRec] /\ \A p \in Procs : counting[p] = Idle
    BY IdleFacts DEF Init
  <2> QED BY <2>1 DEF Pend
<1> QED BY <1>m, <1>19, <1>20, <1>21 DEF ForkInv

\* What an untouched page holds once it is read.
Loaded(mc, va) == IF va \in mc.segs THEN Image ELSE Zero

\* The page of p at va is in the frame h, which was free.
Placed(mc, p, va, h, r, P, T, F, B, c, W, D) ==
  \E x, t, fr :
    /\ Fields(r, Put2(P, p, va, x), Put2(T, p, va, t), Put(F, h, fr), Append(B, h), c, W, D)
    /\ x \in PageRec /\ x.frame = h /\ x.slot = None /\ x.kind = "anon"
    /\ t \in PteRec /\ t.p /\ t.kva = h
    /\ fr \in FrameRec /\ fr.live /\ fr.ref_cnt = 1 /\ fr.data = Loaded(mc, va)

\* vm_do_claim_page of an untouched page, when a frame is free.
LEMMA ClaimFork ==
  ASSUME ~Reuse, NEW mc, mc = machine, MachineOk(mc), mc.maps = {}, NEW p \in Procs, NEW va \in VA(mc),
         NEW m, NEW P, NEW T, NEW F, NEW B, NEW c, NEW W, NEW D, Fields(m, P, T, F, B, c, W, D),
         VmType(mc, P, T), F \in [Fr(mc) -> FrameRec], unused(m) # {}, P[p][va].kind = "uninit",
         NEW r, r = vm_do_claim_page(m, p, va)
  PROVE  \E h \in Fr(mc) : h # NULL /\ ~F[h].live /\ Placed(mc, p, va, h, r, P, T, F, B, c, W, D)
<1> USE DEF NULL, None
<1>1. PICK h \in Fr(mc) : /\ h # NULL /\ ~F[h].live /\ vm_get_frame(m, p).frame = h
                          /\ Fields(vm_get_frame(m, p).vm, P, T, Put(F, h, Taken(Zero)), Append(B, h), c, W, D)
  BY FreeFields
<1>2. PICK n, f0, F0, A : /\ n = vm_get_frame(m, p).vm /\ f0 = Taken(Zero) /\ F0 = Put(F, h, f0) /\ A = Append(B, h)
                          /\ Fields(n, P, T, F0, A, c, W, D)
  BY <1>1
<1>3. PICK m1, m2 : /\ m1 = OwnOf(n, p, va, h) /\ m2 = pml4_set_page(m1, p, va, h, Writable(va))
                    /\ r = swap_in(m2, p, va)
  BY <1>1, <1>2 DEF vm_do_claim_page, OwnOf
<1> PICK o, x1, t, f1, P1, T1, F1 :
       /\ o = P[p][va] /\ x1 = InFrame(o, h) /\ t = Entry(h, Writable(va)) /\ f1 = OwnedBy(F0[h], <<p, va>>)
       /\ P1 = Put2(P, p, va, x1) /\ T1 = Put2(T, p, va, t) /\ F1 = Put(F0, h, f1)
  OBVIOUS
<1>4. Fields(m1, P1, T, F1, A, c, W, D)
  BY <1>2, <1>3, OwnFrame
<1>5. Fields(m2, P1, T1, F1, A, c, W, D)
  BY <1>3, <1>4, SetPage
<1>h. h \in Nat /\ va \in Nat /\ o \in PageRec /\ Zero \in Value /\ Image \in Value
  BY DEF Fr, MachineOk, VA, VmType, Value
<1>0. f0 \in FrameRec /\ f0.live /\ f0.ref_cnt = 1
  BY <1>2, <1>h, TakenFacts
<1>6. x1 \in PageRec /\ x1.frame = h /\ x1.kind = "uninit"
  BY <1>h, InFrameFacts
<1>7. t \in PteRec /\ t.kva = h /\ t.p
  BY <1>h, EntryFacts DEF Writable
<1>8. F0[h] = f0 /\ F0 \in [Fr(mc) -> FrameRec] /\ \A b : Put(F0, h, b) = Put(F, h, b)
  BY <1>2, <1>0 DEF Put
<1>9. f1 \in FrameRec /\ f1.live /\ f1.ref_cnt = 1
  BY <1>h, <1>0, <1>8, OwnedByFacts, OwnerFacts
<1>10. P1[p][va] = x1 /\ \A b : Put2(P1, p, va, b) = Put2(P, p, va, b)
  BY Put2Put2 DEF Put2At
<1>11. F1[h] = f1 /\ \A b : Put(F1, h, b) = Put(F, h, b)
  BY <1>8, <1>9 DEF Put
<1>12. m2.pages[p][va] = x1
  BY <1>5, <1>10 DEF Fields
<1>13. r = uninit_initialize(m2, p, va)
  BY <1>3, <1>6, <1>12 DEF swap_in
<1> PICK x, m3, f3 : x = Anon(x1) /\ m3 = anon_initializer(m2, p, va) /\ f3 = Filled(f1, Zero)
  OBVIOUS
<1>14. Fields(m3, Put2(P, p, va, x), T1, Put(F, h, f3), A, c, W, D)
  <2>1. F1[h].ref_cnt <= 1 /\ h = P1[p][va].frame
    BY <1>6, <1>9, <1>10, <1>11
  <2>2. Fields(m3, Put2(P1, p, va, Anon(P1[p][va])), T1, Put(F1, h, Filled(F1[h], Zero)), A, c, W, D)
    BY <1>5, <2>1, AnonInit
  <2> QED BY <2>2, <1>10, <1>11
<1>15. x \in PageRec /\ x.frame = h /\ x.slot = None /\ x.kind = "anon"
  BY <1>6, KindFacts
<1>16. f3 \in FrameRec /\ f3.live /\ f3.ref_cnt = 1 /\ f3.data = Zero
  BY <1>h, <1>9, FilledFacts
<1>17. CASE va \notin mc.segs
  <2>1. r = m3
    BY <1>13, <1>17 DEF uninit_initialize
  <2>2. f3.data = Loaded(mc, va)
    BY <1>16, <1>17 DEF Loaded
  <2>3. Placed(mc, p, va, h, r, P, T, F, B, c, W, D)
    BY <1>2, <1>7, <1>14, <1>15, <1>16, <2>1, <2>2 DEF Placed
  <2> QED BY <1>1, <2>3
<1>18. CASE va \in mc.segs
  <2> PICK f4 : f4 = Filled(f3, Image)
    OBVIOUS
  <2>1. m3.pages[p][va].frame = h
    <3>1. m3.pages = Put2(P, p, va, x)
      BY <1>14 DEF Fields
    <3>2. m3.pages[p][va] = x
      BY <3>1, Put2Put2 DEF Put2At
    <3> QED BY <1>15, <3>2
  <2>2. r = DataOf(m3, h, Image)
    BY <1>13, <1>18, <2>1 DEF uninit_initialize, lazy_load_segment, DataOf
  <2>3. f4 \in FrameRec /\ f4.live /\ f4.ref_cnt = 1 /\ f4.data = Image
    BY <1>h, <1>16, FilledFacts
  <2>4. Put(F, h, f3)[h] = f3 /\ Put(Put(F, h, f3), h, f4) = Put(F, h, f4)
    BY DEF Put
  <2>5. Fields(r, Put2(P, p, va, x), T1, Put(Put(F, h, f3), h, f4), A, c, W, D)
    BY <1>14, <2>2, <2>4, DataSet
  <2>6. f4.data = Loaded(mc, va)
    BY <1>18, <2>3 DEF Loaded
  <2>7. Placed(mc, p, va, h, r, P, T, F, B, c, W, D)
    BY <1>2, <1>7, <1>15, <2>3, <2>4, <2>5, <2>6 DEF Placed
  <2> QED BY <1>1, <2>7
<1> QED BY <1>17, <1>18

\* Without a slot nothing is evicted: a frame is free when one can be had.
LEMMA ForkFree ==
  ASSUME machine.slots = 0, NEW m, CanGetFrame(m)
  PROVE  unused(m) # {}
<1>1. Slot = {}
  BY DEF Slot
<1> QED BY <1>1 DEF CanGetFrame, free_slots

\* What the invariant says of one page.
LEMMA ForkRuns ==
  ASSUME machine \in Machines, ForkInv, NEW p \in Procs, NEW va \in VAs
  PROVE  /\ va \in VA(machine) /\ MachineOk(machine) /\ machine.maps = {} /\ machine.slots = 0
         /\ PgOk(machine, va, vm.pages[p][va], vm.pte[p][va], vm.frames, copying[p])
         /\ VmType(machine, vm.pages, vm.pte) /\ vm.frames \in [Fr(machine) -> FrameRec]
         /\ vm.pages[p][va] \in PageRec /\ vm.pte[p][va] \in PteRec
<1>1. va \in VA(machine) /\ MachineOk(machine) /\ machine.maps = {} /\ machine.slots = 0
  BY VAFacts, MachineFacts DEF ForkInv
<1>2. PgOk(machine, va, vm.pages[p][va], vm.pte[p][va], vm.frames, copying[p])
  BY <1>1 DEF ForkInv, ForkVm, Fork, PagesOk
<1>3. /\ vm.pages \in [Procs -> [VA(machine) -> PageRec]] /\ vm.pte \in [Procs -> [VA(machine) -> PteRec]]
      /\ vm.frames \in [Fr(machine) -> FrameRec]
  BY DEF ForkInv, ForkVm, Fork, ForkType
<1>4. vm.pages[p][va] \in PageRec /\ vm.pte[p][va] \in PteRec
  BY <1>1, <1>3
<1> QED BY <1>1, <1>2, <1>3, <1>4 DEF VmType

\* fault_absent: without swap a fault takes a free frame.
LEMMA ForkFault ==
  ASSUME ~Reuse, machine \in Machines, ForkInv, NEW p \in Procs, NEW va \in VAs, fault_absent(p, va)
  PROVE  ForkInv' /\ UsedKept
<1> USE DEF NULL, None
<1>1. /\ va \in VA(machine) /\ MachineOk(machine) /\ machine.maps = {} /\ machine.slots = 0
      /\ PgOk(machine, va, vm.pages[p][va], vm.pte[p][va], vm.frames, copying[p])
      /\ VmType(machine, vm.pages, vm.pte) /\ vm.frames \in [Fr(machine) -> FrameRec]
      /\ vm.pages[p][va] \in PageRec
  BY ForkRuns
<1>2. /\ life[p] = "alive" /\ making[p] = NULL /\ copying[p] = Idle /\ ~vm.pte[p][va].p /\ CanGetFrame(vm)
      /\ UNCHANGED <<machine, kept, life, calls>>
  BY DEF fault_absent, Runs
<1>3. vm.pages[p][va].frame = NULL /\ vm.pages[p][va].kind \in {"none", "uninit"}
  BY <1>1, <1>2 DEF PgOk, PageRec
<1>4. PICK P, T, F, B, c, W, D :
        /\ Fields(vm, P, T, F, B, c, W, D) /\ Fork(machine, P, T, F, B, copying, life, making, kept)
        /\ vm.pages = P /\ vm.pte = T /\ vm.frames = F
  BY ForkOpen
<1>5. kept[p][va] = Loaded(machine, va)
  <2>1. Held(machine, va, P[p][va], F) = kept[p][va]
    BY <1>1, <1>2, <1>4 DEF Fork, KeptOk
  <2> QED BY <1>3, <1>4, <2>1 DEF Held, Loaded
<1>6. \E h \in Fr(machine) : h # NULL /\ ~F[h].live /\ Placed(machine, p, va, h, vm', P, T, F, B, c, W, D)
  <2>1. CASE vm.pages[p][va].kind # "none" /\ vm' = vm_do_claim_page(vm, p, va)
    <3>1. unused(vm) # {}
      BY <1>1, <1>2, ForkFree
    <3> QED BY <1>1, <1>3, <1>4, <2>1, <3>1, ClaimFork
  <2>2. CASE vm.pages[p][va].kind = "none" /\ vm' = vm_do_claim_page(vm_alloc_page(vm, p, va), p, va)
    <3> PICK m, P1 : m = PageOf(vm, p, va, New) /\ P1 = Put2(P, p, va, New)
      OBVIOUS
    <3>1. m = vm_alloc_page(vm, p, va)
      BY DEF vm_alloc_page, PageOf, New
    <3>2. Fields(m, P1, T, F, B, c, W, D)
      BY <1>4, PageSet
    <3>3. m.frames = vm.frames
      BY <1>4, <3>2 DEF Fields
    <3>4. unused(m) # {}
      <4>1. unused(vm) # {}
        BY <1>1, <1>2, ForkFree
      <4> QED BY <3>3, <4>1 DEF unused
    <3>5. P1[p][va] = New /\ \A b : Put2(P1, p, va, b) = Put2(P, p, va, b)
      BY <1>1, <1>4, Put2Put2 DEF Put2At
    <3>6. P1 \in [Procs -> [VA(machine) -> PageRec]]
      BY <1>1, <1>4, NewFacts, PageAt DEF VmType
    <3>7. VmType(machine, P1, T) /\ P1[p][va].kind = "uninit" /\ F \in [Fr(machine) -> FrameRec]
      BY <1>1, <1>4, <3>5, <3>6, NewFacts DEF VmType
    <3>8. PICK h \in Fr(machine) : h # NULL /\ ~F[h].live /\ Placed(machine, p, va, h, vm', P1, T, F, B, c, W, D)
      BY <1>1, <2>2, <3>1, <3>2, <3>4, <3>7, ClaimFork
    <3>9. Placed(machine, p, va, h, vm', P, T, F, B, c, W, D)
      BY <3>5, <3>8 DEF Placed
    <3> QED BY <3>8, <3>9
  <2> QED BY <2>1, <2>2 DEF fault_absent, Page
<1>7. PICK h \in Fr(machine) : h # NULL /\ ~F[h].live /\ Placed(machine, p, va, h, vm', P, T, F, B, c, W, D)
  BY <1>6
<1>8. PICK x, t, fr :
        /\ Fields(vm', Put2(P, p, va, x), Put2(T, p, va, t), Put(F, h, fr), Append(B, h), c, W, D)
        /\ x \in PageRec /\ x.frame = h /\ x.slot = None /\ x.kind = "anon"
        /\ t \in PteRec /\ t.p /\ t.kva = h
        /\ fr \in FrameRec /\ fr.live /\ fr.ref_cnt = 1 /\ fr.data = Loaded(machine, va)
  BY <1>7 DEF Placed
<1>9. Fork(machine, Put2(P, p, va, x), Put2(T, p, va, t), Put(F, h, fr), Append(B, h), Put(copying, p, Idle),
           life, making, kept)
  <2>1. P[p][va].frame = NULL /\ fr.data = kept[p][va]
    BY <1>3, <1>4, <1>5, <1>8
  <2> QED BY <1>1, <1>2, <1>4, <1>7, <1>8, <2>1, IdleFacts, ForkPlace
<1>10. Put(copying, p, Idle) = copying
  <2>1. copying \in [Procs -> CallRec]
    BY <1>4 DEF Fork, ForkType
  <2> QED BY <1>2, <2>1 DEF Put
<1>11. ForkVm(machine, vm', copying, life, making, kept)
  BY <1>8, <1>9, <1>10, ForkClose
<1>12. Calmly
  <2>1. vm'.pages = Put2(P, p, va, x) /\ vm'.frames = Put(F, h, fr)
    BY <1>8 DEF Fields
  <2>2. /\ machine' = machine /\ counting' = counting /\ life' = life /\ making' = making
        /\ copying' = Put(copying, p, Idle)
    BY <1>2, <1>10 DEF calls
  <2>3. vm'.pages = Put2(vm.pages, p, va, x) /\ vm'.frames = Put(vm.frames, h, fr) /\ ~vm.frames[h].live
    BY <1>4, <1>7, <2>1
  <2>4. Idle \in CallRec /\ Idle.cnt = None /\ x.frame = h
    BY <1>8, IdleFacts
  <2> QED BY <1>1, <1>2, <2>2, <2>3, <2>4, PlaceCalm
<1>13. ForkInv'
  BY <1>2, <1>11, <1>12, ForkStep DEF calls
<1> QED BY <1>2, <1>13, ForkUsedKept

\* Two members are more than one.
LEMMA TwoMembers ==
  ASSUME NEW S, IsFiniteSet(S), NEW a \in S, NEW b \in S, a # b
  PROVE  Cardinality(S) > 1
<1>1. IsFiniteSet(S \ {a}) /\ Cardinality(S \ {a}) = Cardinality(S) - 1 /\ Cardinality(S) \in Nat
  BY FS_RemoveElement, FS_CardinalityType
<1>2. Cardinality(S \ {a}) # 0
  BY <1>1, FS_EmptySet
<1>3. Cardinality(S \ {a}) \in Nat
  BY <1>1, FS_CardinalityType
<1> QED BY <1>1, <1>2, <1>3

\* The pages in a frame are at one address.
LEMMA ForkSharers ==
  ASSUME ForkInv, NEW f, f # NULL
  PROVE  /\ IsFiniteSet(Sharers(f)) /\ Cardinality(Sharers(f)) \in Nat
         /\ Sharers(f) \subseteq Procs \X VA(machine)
         /\ \A q \in Procs : \A w \in VA(machine) : <<q, w>> \in Sharers(f) <=> vm.pages[q][w].frame = f
         /\ \A y, z \in Sharers(f) : y[2] = z[2]
<1>1. /\ Sharers(f) \subseteq Procs \X VA(machine)
      /\ \A q \in Procs : \A w \in VA(machine) : <<q, w>> \in Sharers(f) <=> vm.pages[q][w].frame = f
  BY VAFacts DEF Sharers, Page
<1>2. \A y \in Sharers(f) : y[1] \in Procs /\ y[2] \in VA(machine) /\ y = <<y[1], y[2]>> /\ vm.pages[y[1]][y[2]].frame = f
  BY VAFacts DEF Sharers, Page
<1>s. Shared(machine, vm.pages)
  BY DEF ForkInv, ForkVm, Fork
<1>3. \A y, z \in Sharers(f) : y[2] = z[2]
  BY <1>s, <1>2 DEF Shared
<1>4. IsFiniteSet(Sharers(f))
  <2>1. CASE Sharers(f) = {}
    BY <2>1, FS_EmptySet
  <2>2. ASSUME NEW z \in Sharers(f) PROVE IsFiniteSet(Sharers(f))
    <3>1. Sharers(f) \in SUBSET (Procs \X {z[2]})
      BY <1>2, <1>3
    <3>2. IsFiniteSet(Procs)
      BY MachinesAssumption, FS_Interval DEF Procs
    <3>3. IsFiniteSet({z[2]})
      BY FS_Singleton
    <3>4. IsFiniteSet(Procs \X {z[2]})
      BY <3>2, <3>3, FS_Product
    <3> QED BY <3>1, <3>4, FS_Subset
  <2> QED BY <2>1, <2>2
<1>5. Cardinality(Sharers(f)) \in Nat
  BY <1>4, FS_CardinalityType
<1> QED BY <1>1, <1>3, <1>4, <1>5

\* user_write: the frame is the writer's alone.
LEMMA ForkWritten ==
  ASSUME machine \in Machines, ForkInv, ~ParentWrites,
         NEW p \in Procs, NEW va \in VAs, NEW v \in Written, user_write(p, va, v)
  PROVE  ForkInv' /\ UsedKept
<1> USE DEF NULL, None
<1>1. /\ va \in VA(machine) /\ MachineOk(machine)
      /\ PgOk(machine, va, vm.pages[p][va], vm.pte[p][va], vm.frames, copying[p])
      /\ vm.frames \in [Fr(machine) -> FrameRec] /\ vm.pte[p][va] \in PteRec
  BY ForkRuns
<1>2. PICK f : /\ f = vm.pte[p][va].kva /\ ~(Cardinality(Sharers(f)) > 1)
               /\ vm' = TouchOf(vm, p, va, f, v)
  BY DEF user_write, TouchOf
<1>3. /\ life[p] = "alive" /\ making[p] = NULL
      /\ copying[p] = Idle /\ vm.pte[p][va].p /\ kept' = Put2(kept, p, va, v)
      /\ UNCHANGED <<machine, life, calls>>
  BY DEF user_write, Runs, Put2
<1>4. f = vm.pages[p][va].frame /\ f # NULL /\ f \in Fr(machine) /\ v \in Value
  BY <1>1, <1>2, <1>3 DEF PgOk, Value
<1>5. PICK P, T, F, B, c, W, D :
        /\ Fields(vm, P, T, F, B, c, W, D) /\ Fork(machine, P, T, F, B, copying, life, making, kept)
        /\ vm.pages = P /\ vm.pte = T /\ vm.frames = F
  BY ForkOpen
<1>6. Alone(machine, P, p, va, f)
  <2>1. ASSUME NEW q \in Procs, NEW w \in VA(machine), P[q][w].frame = f PROVE q = p /\ w = va
    <3>1. <<q, w>> \in Sharers(f) /\ <<p, va>> \in Sharers(f) /\ IsFiniteSet(Sharers(f))
      BY <1>1, <1>4, <1>5, <2>1, ForkSharers
    <3>2. <<q, w>> = <<p, va>>
      BY <1>2, <3>1, TwoMembers
    <3> QED BY <3>2
  <2> QED BY <2>1 DEF Alone
<1>7. PICK t : /\ t = Touched(T[p][va]) /\ t \in PteRec /\ t.p = T[p][va].p /\ t.kva = T[p][va].kva
  BY <1>1, <1>5, UseFacts
<1>8. PICK fr : /\ fr = Filled(F[f], v) /\ fr \in FrameRec /\ fr.data = v /\ fr.live = F[f].live
                /\ fr.ref_cnt = F[f].ref_cnt
  <2>1. F[f] \in FrameRec
    BY <1>1, <1>4, <1>5
  <2> QED BY <1>4, <2>1, FilledFacts
<1>9. Fields(vm', P, Put2(T, p, va, t), Put(F, f, fr), B, c, W, D)
  BY <1>2, <1>5, <1>7, <1>8, TouchSet
<1>10. Fork(machine, P, Put2(T, p, va, t), Put(F, f, fr), B, copying, life, making, Put2(kept, p, va, v))
  <2>1. f = P[p][va].frame
    BY <1>4, <1>5
  <2> QED BY <1>1, <1>4, <1>5, <1>6, <1>7, <1>8, <2>1, ForkWrite
<1>11. ForkVm(machine, vm', copying, life, making, kept')
  BY <1>3, <1>9, <1>10, ForkClose
<1>12. Calmly
  <2>1. vm'.pages = P /\ vm'.frames = Put(F, f, fr)
    BY <1>9 DEF Fields
  <2> QED BY <1>3, <1>4, <1>5, <1>8, <2>1, InPlaceCalm DEF calls
<1>13. ForkInv'
  BY <1>3, <1>11, <1>12, ForkStep DEF calls
<1> QED BY <1>3, <1>13, ForkUsedKept

\* The updates of the write fault and of its last step.
CopyOf(m, p, va, h, d) == [m EXCEPT !.pages[p][va].frame = h, !.frames[h].data = d]
PageInOf(m, f, o) == [m EXCEPT !.frames[f].page = o]

\* The copy's frame.
LEMMA CopySet ==
  ASSUME NEW m, NEW P, NEW T, NEW F, NEW B, NEW c, NEW W, NEW D, Fields(m, P, T, F, B, c, W, D),
         NEW p, NEW va, NEW h, NEW d
  PROVE  Fields(CopyOf(m, p, va, h, d), Put2(P, p, va, InFrame(P[p][va], h)), T, Put(F, h, Filled(F[h], d)), B, c, W, D)
  BY DEF Fields, VmRec, CopyOf, Put2, Put, InFrame, Filled

\* The frame's new owner.
LEMMA PageInSet ==
  ASSUME NEW m, NEW P, NEW T, NEW F, NEW B, NEW c, NEW W, NEW D, Fields(m, P, T, F, B, c, W, D),
         NEW f, NEW o
  PROVE  Fields(PageInOf(m, f, o), P, T, Put(F, f, OwnedBy(F[f], o)), B, c, W, D)
  BY DEF Fields, VmRec, PageInOf, Put, OwnedBy

\* vm_handle_wp: a copy if the count says others use the frame, else in place,
\* and then no other does.
LEMMA ForkWp ==
  ASSUME ~Reuse, machine \in Machines, ForkInv, NEW p \in Procs, NEW va \in VAs, vm_handle_wp(p, va)
  PROVE  ForkInv' /\ UsedKept
<1> USE DEF NULL, None
<1>1. /\ va \in VA(machine) /\ MachineOk(machine) /\ machine.slots = 0
      /\ PgOk(machine, va, vm.pages[p][va], vm.pte[p][va], vm.frames, copying[p])
      /\ VmType(machine, vm.pages, vm.pte) /\ vm.frames \in [Fr(machine) -> FrameRec]
      /\ vm.pages[p][va] \in PageRec /\ vm.pte[p][va] \in PteRec
  BY ForkRuns
<1>2. /\ life[p] = "alive" /\ making[p] = NULL /\ copying[p] = Idle /\ vm.pte[p][va].p
      /\ UNCHANGED <<machine, kept, life, counting, making, unmapping>>
  BY DEF vm_handle_wp, Runs
<1>f. PICK f : f = vm.pages[p][va].frame
  OBVIOUS
<1>3. f # NULL /\ f \in Fr(machine) /\ vm.pages[p][va].kind = "anon" /\ vm.pages[p][va].slot = None
  BY <1>1, <1>2, <1>f DEF PgOk
<1>n. f \in Nat /\ va \in Nat
  BY <1>1, <1>3 DEF Fr, MachineOk, VA
<1>4. PICK P, T, F, B, c, W, D :
        /\ Fields(vm, P, T, F, B, c, W, D) /\ Fork(machine, P, T, F, B, copying, life, making, kept)
        /\ vm.pages = P /\ vm.pte = T /\ vm.frames = F
  BY ForkOpen
<1>5. F[f] \in FrameRec /\ f = P[p][va].frame
  BY <1>1, <1>3, <1>4, <1>f
<1>6. F[f].data = kept[p][va]
  <2>1. Held(machine, va, P[p][va], F) = kept[p][va]
    BY <1>1, <1>2, <1>4 DEF Fork, KeptOk
  <2> QED BY <1>3, <1>5, <2>1 DEF Held
<1>7. ASSUME CanGetFrame(vm), NEW got, got = vm_get_frame(vm, p),
             vm' = CopyOf(got.vm, p, va, got.frame, F[f].data),
             NEW k, k = [va |-> va, from |-> f, cnt |-> None], copying' = Put(copying, p, k)
      PROVE  ForkInv'
  <2>1. unused(vm) # {}
    BY <1>1, <1>7, ForkFree
  <2>2. PICK h \in Fr(machine) : /\ h # NULL /\ ~F[h].live /\ got.frame = h
                                 /\ Fields(got.vm, P, T, Put(F, h, Taken(Zero)), Append(B, h), c, W, D)
    BY <1>1, <1>4, <1>7, <2>1, FreeFields
  <2>3. PICK n, f0, F0, A : /\ n = got.vm /\ f0 = Taken(Zero) /\ F0 = Put(F, h, f0) /\ A = Append(B, h)
                            /\ Fields(n, P, T, F0, A, c, W, D)
    BY <2>2
  <2>4. f0 \in FrameRec /\ f0.live /\ f0.ref_cnt = 1
    <3>1. Zero \in Value
      BY DEF Value
    <3> QED BY <2>3, <3>1, TakenFacts
  <2>5. F0[h] = f0 /\ \A b : Put(F0, h, b) = Put(F, h, b)
    <3>1. F \in [Fr(machine) -> FrameRec]
      BY <1>1, <1>4
    <3> QED BY <2>3, <2>4, <3>1 DEF Put
  <2>6. PICK fr : fr = Filled(f0, F[f].data) /\ fr \in FrameRec /\ fr.live /\ fr.ref_cnt = 1 /\ fr.data = kept[p][va]
    <3>1. F[f].data \in Value
      BY <1>5 DEF FrameRec
    <3> QED BY <1>6, <2>4, <3>1, FilledFacts
  <2>h. h \in Nat
    BY <1>1 DEF Fr, MachineOk
  <2>7. PICK x : /\ x = InFrame(P[p][va], h) /\ x \in PageRec /\ x.frame = h /\ x.slot = None /\ x.kind = "anon"
    <3>1. P[p][va] \in PageRec /\ P[p][va].kind = "anon" /\ P[p][va].slot = None
      BY <1>1, <1>3, <1>4
    <3> QED BY <2>h, <3>1, InFrameFacts
  <2>8. Fields(vm', Put2(P, p, va, x), T, Put(F, h, fr), A, c, W, D)
    <3>1. vm' = CopyOf(n, p, va, h, F[f].data)
      BY <1>7, <2>2, <2>3
    <3>2. Fields(vm', Put2(P, p, va, InFrame(P[p][va], h)), T, Put(F0, h, Filled(F0[h], F[f].data)), A, c, W, D)
      BY <2>3, <3>1, CopySet
    <3> QED BY <2>5, <2>6, <2>7, <3>2
  <2>9. k \in CallRec /\ k # Idle /\ k.cnt = None /\ k.va = va /\ k.from = f
    <3>1. k.cnt = None /\ k.va = va /\ k.from = f /\ k \in CallRec
      BY <1>7, <1>n DEF CallRec
    <3> QED BY <1>3, <3>1, IdleFacts
  <2>t. T = Put2(T, p, va, T[p][va]) /\ T[p][va] \in PteRec
    BY <1>1, <1>4 DEF Put2, VmType
  <2>10. Fork(machine, Put2(P, p, va, x), Put2(T, p, va, T[p][va]), Put(F, h, fr), Append(B, h), Put(copying, p, k),
              life, making, kept)
    BY <1>1, <1>2, <1>3, <1>4, <1>5, <2>2, <2>6, <2>7, <2>9, <2>t, ForkPlace
  <2>11. ForkVm(machine, vm', copying', life, making, kept)
    BY <1>7, <2>3, <2>8, <2>10, <2>t, ForkClose
  <2>12. Calmly
    <3>1. vm'.pages = Put2(P, p, va, x) /\ vm'.frames = Put(F, h, fr)
      BY <2>8 DEF Fields
    <3>2. vm'.pages = Put2(vm.pages, p, va, x) /\ vm'.frames = Put(vm.frames, h, fr) /\ ~vm.frames[h].live
      BY <1>4, <2>2, <3>1
    <3>3. k \in CallRec /\ k.cnt = None /\ k.from = vm.pages[p][va].frame /\ x.frame = h
      BY <1>f, <2>7, <2>9
    <3>4. /\ machine' = machine /\ counting' = counting /\ life' = life /\ making' = making
          /\ copying' = Put(copying, p, k)
      BY <1>2, <1>7
    <3> QED BY <1>1, <1>2, <3>2, <3>3, <3>4, PlaceCalm
  <2> QED BY <1>2, <2>11, <2>12, ForkStep
<1>8. ASSUME vm' = pml4_set_page(PageInOf(vm, f, <<p, va>>), p, va, f, TRUE), copying' = copying
      PROVE  ForkInv'
  <2>1. <<p, va>> \in Owner
    BY <1>n, OwnerFacts
  <2>2. PICK fr : /\ fr = OwnedBy(F[f], <<p, va>>) /\ fr \in FrameRec /\ fr.live = F[f].live
                  /\ fr.ref_cnt = F[f].ref_cnt /\ fr.data = F[f].data
    BY <1>5, <2>1, OwnedByFacts
  <2>3. PICK t : t = Entry(f, TRUE) /\ t \in PteRec /\ t.p /\ t.kva = f
    BY <1>n, EntryFacts
  <2>4. Fields(vm', P, Put2(T, p, va, t), Put(F, f, fr), B, c, W, D)
    <3>1. Fields(PageInOf(vm, f, <<p, va>>), P, T, Put(F, f, fr), B, c, W, D)
      BY <1>4, <2>2, PageInSet
    <3> QED BY <1>8, <2>3, <3>1, SetPage
  <2>5. Fork(machine, P, Put2(T, p, va, t), Put(F, f, fr), B, copying, life, making, kept)
    <3>1. Fork(machine, P, T, F, B, copying, life, making, kept) /\ va \in VA(machine)
      BY <1>1, <1>4
    <3> QED BY <1>3, <1>5, <2>2, <2>3, <3>1, ForkOwn, ZenonT(30)
  <2>6. ForkVm(machine, vm', copying', life, making, kept)
    BY <1>8, <2>4, <2>5, ForkClose
  <2>7. Calmly
    <3>1. vm'.pages = P /\ vm'.frames = Put(F, f, fr)
      BY <2>4 DEF Fields
    <3> QED BY <1>2, <1>3, <1>4, <1>8, <2>2, <3>1, InPlaceCalm
  <2> QED BY <1>2, <2>6, <2>7, ForkStep
<1>9. ForkInv'
  <2>1. \/ /\ CanGetFrame(vm) /\ vm' = CopyOf(vm_get_frame(vm, p).vm, p, va, vm_get_frame(vm, p).frame, F[f].data)
           /\ copying' = Put(copying, p, [va |-> va, from |-> f, cnt |-> None])
        \/ vm' = pml4_set_page(PageInOf(vm, f, <<p, va>>), p, va, f, TRUE) /\ copying' = copying
    BY <1>f, <1>4 DEF vm_handle_wp, CopyOf, PageInOf, Put, Page
  <2> QED BY <1>7, <1>8, <2>1
<1> QED BY <1>2, <1>9, ForkUsedKept

\* wp_load: the count it loads covers every holder, itself included.
LEMMA ForkLoaded ==
  ASSUME ForkInv, ~ForkRaces, NEW p \in Procs, wp_load(p)
  PROVE  ForkInv' /\ UsedKept
<1> USE DEF NULL, None
<1>1. PICK P, T, F, B, c, W, D :
        /\ Fields(vm, P, T, F, B, c, W, D) /\ Fork(machine, P, T, F, B, copying, life, making, kept)
        /\ vm.pages = P /\ vm.pte = T /\ vm.frames = F
  BY ForkOpen
<1>2. /\ copying \in [Procs -> CallRec] /\ F \in [Fr(machine) -> FrameRec] /\ copying[p] # Idle
      /\ UNCHANGED <<machine, vm, kept, life, counting, making, unmapping>>
  BY <1>1 DEF Fork, ForkType, wp_load
<1>3. copying[p] \in CallRec /\ copying[p].from \in Fr(machine)
  BY <1>1, <1>2 DEF Fork, CopyOk
<1>4. F[copying[p].from].ref_cnt \in Int
  BY <1>2, <1>3 DEF FrameRec
<1>c. ASSUME NEW o \in CallRec, NEW n \in Int
      PROVE  /\ [o EXCEPT !.cnt = n] \in CallRec /\ [o EXCEPT !.cnt = n].va = o.va
             /\ [o EXCEPT !.cnt = n].from = o.from /\ [o EXCEPT !.cnt = n].cnt = n
  BY DEF CallRec
<1>5. PICK k : /\ k = [copying[p] EXCEPT !.cnt = F[copying[p].from].ref_cnt] /\ k \in CallRec
               /\ k.va = copying[p].va /\ k.from = copying[p].from /\ k.cnt = F[copying[p].from].ref_cnt
  BY <1>3, <1>4, <1>c
<1>6. copying' = Put(copying, p, k)
  BY <1>1, <1>5 DEF wp_load, Put
<1>7. Fork(machine, P, T, F, B, Put(copying, p, k), life, making, kept)
  BY <1>1, <1>2, <1>5, ForkLoad
<1>8. ForkVm(machine, vm, copying', life, making, kept)
  BY <1>1, <1>6, <1>7, ForkClose
<1>9. Calmly
  <2>1. life[p] = "alive" /\ making[p] = NULL
    BY <1>1, <1>2 DEF Fork, CopyOk
  <2>2. copying'[p] = k /\ \A r \in Procs : r # p => copying'[r] = copying[r]
    BY <1>2, <1>5, <1>6 DEF Put
  <2>3. Uncounting(k.from)
    BY <1>5 DEF wp_load
  <2>4. ASSUME NEW f \in Fr(machine)
        PROVE  Holders(machine, vm'.pages, copying', f) \subseteq Holders(machine, vm.pages, copying, f)
    BY <1>2, <1>5, <2>2 DEF Holders
  <2> QED BY <1>2, <2>1, <2>2, <2>3, <2>4, AliveCalm
<1>10. ForkInv'
  BY <1>2, <1>8, <1>9, ForkStep
<1> QED BY <1>2, <1>10, ForkUsedKept

\* wp_copied: the loaded count still covers every holder, so one less covers
\* the others.  A count that others lowered in between is raised again, which
\* only keeps a frame.
LEMMA ForkWpCopied ==
  ASSUME machine \in Machines, ForkInv, NEW p \in Procs, wp_copied(p)
  PROVE  ForkInv' /\ UsedKept
<1> USE DEF NULL, None
<1>1. PICK P, T, F, B, c, W, D :
        /\ Fields(vm, P, T, F, B, c, W, D) /\ Fork(machine, P, T, F, B, copying, life, making, kept)
        /\ vm.pages = P /\ vm.pte = T /\ vm.frames = F
  BY ForkOpen
<1>2. /\ copying \in [Procs -> CallRec] /\ F \in [Fr(machine) -> FrameRec]
      /\ P \in [Procs -> [VA(machine) -> PageRec]]
      /\ copying[p] # Idle /\ copying[p].cnt # None /\ copying' = Put(copying, p, Idle)
      /\ UNCHANGED <<machine, kept, life, counting, making, unmapping>>
  BY <1>1 DEF Fork, ForkType, wp_copied, Put
<1>3. PICK va, f, n : va = copying[p].va /\ f = copying[p].from /\ n = copying[p].cnt - 1
  OBVIOUS
<1>4. va \in VA(machine) /\ f \in Fr(machine) /\ copying[p] \in CallRec
  BY <1>1, <1>2, <1>3 DEF Fork, CopyOk
<1>5. n \in Int /\ F[f] \in FrameRec /\ P[p][va].frame \in Nat
  BY <1>2, <1>3, <1>4 DEF CallRec, PageRec
<1>6. PICK fr : /\ fr = Counted(F[f], n) /\ fr \in FrameRec /\ fr.live = F[f].live /\ fr.ref_cnt = n /\ fr.data = F[f].data
  BY <1>5, CountedFacts
<1>7. PICK t : t = Entry(P[p][va].frame, TRUE) /\ t \in PteRec /\ t.p /\ t.kva = P[p][va].frame
  BY <1>5, EntryFacts
<1>8. vm' = pml4_set_page(StoreOf(vm, f, n), p, va, P[p][va].frame, TRUE)
  BY <1>1, <1>3 DEF wp_copied, StoreOf
<1>9. Fields(vm', P, Put2(T, p, va, t), Put(F, f, fr), B, c, W, D)
  <2>1. Fields(StoreOf(vm, f, n), P, T, Put(F, f, fr), B, c, W, D)
    BY <1>1, <1>6, StoreSet
  <2> QED BY <1>7, <1>8, <2>1, SetPage
<1>10. Fork(machine, P, Put2(T, p, va, t), Put(F, f, fr), B, Put(copying, p, Idle), life, making, kept)
  BY <1>1, <1>2, <1>3, <1>6, <1>7, ForkCopied
<1>11. ForkVm(machine, vm', copying', life, making, kept)
  BY <1>2, <1>9, <1>10, ForkClose
<1>12. Calmly
  <2>1. life[p] = "alive" /\ making[p] = NULL
    BY <1>1, <1>2 DEF Fork, CopyOk
  <2>2. copying'[p] = Idle /\ \A r \in Procs : r # p => copying'[r] = copying[r]
    BY <1>2, IdleFacts, CallAt
  <2>3. vm'.pages = P /\ vm'.frames = Put(F, f, fr)
    BY <1>9 DEF Fields
  <2>4. ASSUME NEW g \in Fr(machine)
        PROVE  /\ vm'.frames[g].live = vm.frames[g].live
               /\ vm'.frames[g].ref_cnt = vm.frames[g].ref_cnt \/ (copying[p].cnt # None /\ copying[p].from = g)
               /\ Holders(machine, vm'.pages, copying', g) \subseteq Holders(machine, vm.pages, copying, g)
    <3>1. g # f => vm'.frames[g] = vm.frames[g]
      BY <1>1, <1>2, <2>3 DEF Put
    <3>2. g = f => vm'.frames[g] = fr
      BY <1>1, <1>2, <2>3 DEF Put
    <3>3. Holders(machine, vm'.pages, copying', g) \subseteq Holders(machine, vm.pages, copying, g)
      BY <1>1, <2>2, <2>3 DEF Holders
    <3> QED BY <1>1, <1>2, <1>3, <1>6, <3>1, <3>2, <3>3
  <2> QED BY <1>2, <2>1, <2>2, <2>3, <2>4, <1>1, IdleFacts, AliveCalm
<1>13. ForkInv'
  BY <1>2, <1>11, <1>12, ForkStep
<1> QED BY <1>2, <1>13, ForkUsedKept

\* process_fork.
LEMMA ForkBegun ==
  ASSUME ForkInv, NEW p \in Procs, NEW c \in Procs, process_fork(p, c)
  PROVE  ForkInv' /\ UsedKept
<1> USE DEF NULL
<1>1. PICK P, T, F, B, k, W, D :
        /\ Fields(vm, P, T, F, B, k, W, D) /\ Fork(machine, P, T, F, B, copying, life, making, kept)
  BY ForkOpen
<1>2. /\ life[p] = "alive" /\ making[p] = NULL /\ copying[p] = Idle /\ life[c] = "unborn"
      /\ life' = Put(life, c, "made") /\ making' = Put(making, p, c)
      /\ UNCHANGED <<machine, vm, kept, copying, counting, unmapping>>
  BY DEF process_fork, Runs, Put
<1>3. c \in Nat /\ c # NULL
  BY ProcsFacts
<1>4. Fork(machine, P, T, F, B, copying, Put(life, c, "made"), Put(making, p, c), kept)
  BY <1>1, <1>2, <1>3, ForkBegin
<1>5. ForkVm(machine, vm, copying, life', making', kept)
  BY <1>1, <1>2, <1>4, ForkClose
<1>6. Calmly
  <2>1. life \in [Procs -> Stage] /\ making \in [Procs -> Nat]
    BY <1>1 DEF Fork, ForkType
  <2>2. ASSUME NEW q \in Procs, counting[q] # Idle
        PROVE  life'[q] = life[q] /\ \A r \in Procs : making[r] = q => making'[r] = q
    <3>1. q # c
      BY <1>2, <2>2, PendFacts
    <3>2. q # NULL
      BY ProcsFacts
    <3> QED BY <1>2, <2>1, <3>1, <3>2 DEF Put
  <2> QED BY <1>2, <2>2, StillCalm
<1>7. ForkInv'
  BY <1>2, <1>5, <1>6, ForkStep
<1> QED BY <1>2, <1>7, ForkUsedKept

\* do_fork: the child has every page of its mother.
LEMMA ForkEnded ==
  ASSUME ForkInv, NEW p \in Procs, do_fork(p)
  PROVE  ForkInv' /\ UsedKept
<1>1. PICK P, T, F, B, k, W, D :
        /\ Fields(vm, P, T, F, B, k, W, D) /\ Fork(machine, P, T, F, B, copying, life, making, kept)
        /\ vm.pages = P /\ vm.pte = T /\ vm.frames = F
  BY ForkOpen
<1>2. PICK c : /\ c = making[p] /\ c # NULL
               /\ \A va \in VA(machine) : P[p][va].kind # "none" => P[c][va].kind # "none"
               /\ life' = Put(life, c, "alive") /\ making' = Put(making, p, NULL) /\ kept' = Put(kept, c, kept[p])
               /\ counting[c] = Idle /\ UNCHANGED <<machine, vm, copying, counting, unmapping>>
  BY <1>1, VAFacts DEF do_fork, Put, Page
<1>3. Fork(machine, P, T, F, B, copying, Put(life, c, "alive"), Put(making, p, NULL), Put(kept, c, kept[p]))
  BY <1>1, <1>2, ForkEnd
<1>4. ForkVm(machine, vm, copying, life', making', kept')
  BY <1>1, <1>2, <1>3, ForkClose
<1>5. Calmly
  <2>1. life \in [Procs -> Stage] /\ making \in [Procs -> Nat]
    BY <1>1 DEF Fork, ForkType
  <2>2. ASSUME NEW q \in Procs, counting[q] # Idle
        PROVE  life'[q] = life[q] /\ \A r \in Procs : making[r] = q => making'[r] = q
    <3>1. q # c
      BY <1>2, <2>2
    <3> QED BY <1>2, <2>1, <3>1 DEF Put
  <2> QED BY <1>2, <2>2, StillCalm
<1>6. ForkInv'
  BY <1>2, <1>4, <1>5, ForkStep
<1> QED BY <1>2, <1>6, ForkUsedKept

\* exit.
LEMMA ForkExited ==
  ASSUME ForkInv, NEW p \in Procs, exit(p)
  PROVE  ForkInv' /\ UsedKept
<1>1. PICK P, T, F, B, k, W, D :
        /\ Fields(vm, P, T, F, B, k, W, D) /\ Fork(machine, P, T, F, B, copying, life, making, kept)
  BY ForkOpen
<1>2. /\ life[p] = "alive" /\ making[p] = NULL /\ copying[p] = Idle /\ life' = Put(life, p, "dead")
      /\ UNCHANGED <<machine, vm, kept, copying, counting, making, unmapping>>
  BY DEF exit, Runs, Put, calls
<1>3. Fork(machine, P, T, F, B, copying, Put(life, p, "dead"), making, kept)
  BY <1>1, <1>2, ForkExit
<1>4. ForkVm(machine, vm, copying, life', making, kept)
  BY <1>1, <1>2, <1>3, ForkClose
<1>5. Calmly
  <2>1. life \in [Procs -> Stage]
    BY <1>1 DEF Fork, ForkType
  <2>2. ASSUME NEW q \in Procs, counting[q] # Idle PROVE life'[q] = life[q]
    <3>1. q # p
      BY <1>2, <2>2, PendFacts
    <3> QED BY <1>2, <2>1, <3>1 DEF Put
  <2> QED BY <1>2, <2>2, StillCalm
<1>6. ForkInv'
  BY <1>2, <1>4, <1>5, ForkStep
<1> QED BY <1>2, <1>6, ForkUsedKept

\* The child's page counts itself before it shares the frame.
ShareOf(m, f, c, va, n) ==
  [m EXCEPT !.frames[f].ref_cnt = n, !.pages[c][va] = [NoPage EXCEPT !.kind = "uninit", !.frame = f]]

\* The frame counted and the child's page put in it.
LEMMA ShareSet ==
  ASSUME NEW m, NEW P, NEW T, NEW F, NEW B, NEW k, NEW W, NEW D, Fields(m, P, T, F, B, k, W, D),
         NEW f, NEW c, NEW va, NEW n
  PROVE  Fields(ShareOf(m, f, c, va, n), Put2(P, c, va, [NoPage EXCEPT !.kind = "uninit", !.frame = f]), T,
                Put(F, f, Counted(F[f], n)), B, k, W, D)
  BY DEF Fields, VmRec, ShareOf, Put2, Put, Counted

\* supplemental_page_table_copy, one page: an untouched one is made anew, and for a
\* resident one the count is loaded, which nobody else is about to change.
LEMMA ForkCopy ==
  ASSUME machine \in Machines, ForkInv, ~ForkRaces, NEW p \in Procs, NEW va \in VAs,
         supplemental_page_table_copy(p, va)
  PROVE  ForkInv' /\ UsedKept
<1> USE DEF NULL, None
<1>1. /\ va \in VA(machine) /\ MachineOk(machine)
      /\ PgOk(machine, va, vm.pages[p][va], vm.pte[p][va], vm.frames, copying[p])
      /\ VmType(machine, vm.pages, vm.pte) /\ vm.frames \in [Fr(machine) -> FrameRec]
  BY ForkRuns
<1>2. PICK P, T, F, B, k, W, D :
        /\ Fields(vm, P, T, F, B, k, W, D) /\ Fork(machine, P, T, F, B, copying, life, making, kept)
        /\ vm.pages = P /\ vm.pte = T /\ vm.frames = F
  BY ForkOpen
<1>3. PICK c, f : /\ c = making[p] /\ f = P[p][va].frame /\ c # NULL /\ P[c][va].kind = "none" /\ counting[c] = Idle
                  /\ UNCHANGED <<machine, kept, life, copying, making, unmapping>>
                  /\ \/ P[p][va].kind = "uninit" /\ vm' = PageOf(vm, c, va, New) /\ counting' = counting
                     \/ /\ P[p][va].kind = "anon" /\ f # NULL /\ Unloaded(f) /\ vm' = vm
                        /\ counting' = Put(counting, c, [va |-> va, from |-> f, cnt |-> F[f].ref_cnt])
  BY <1>2 DEF supplemental_page_table_copy, Page, vm_alloc_page, PageOf, New, Put
<1>4. c \in Procs /\ life[c] = "made"
  BY <1>3, MotherFacts
<1>t. counting \in [Procs -> CallRec]
  BY DEF ForkInv, Pend
<1>5. ASSUME P[p][va].kind = "uninit", vm' = PageOf(vm, c, va, New), counting' = counting
      PROVE  ForkInv'
  <2>1. Fields(vm', Put2(P, c, va, New), T, F, B, k, W, D)
    BY <1>2, <1>5, PageSet
  <2>2. Fork(machine, Put2(P, c, va, New), T, F, B, copying, life, making, kept)
    BY <1>1, <1>2, <1>3, <1>5, NewFacts, ForkNew
  <2>3. ForkVm(machine, vm', copying, life, making, kept)
    BY <2>1, <2>2, ForkClose
  <2>4. counting' = Put(counting, c, Idle)
    BY <1>3, <1>4, <1>5, <1>t DEF Put
  <2>5. vm'.pages = Put2(P, c, va, New) /\ vm'.frames = F
    BY <2>1 DEF Fields
  <2>6. Calmly
    BY <1>1, <1>2, <1>3, <1>4, <2>4, <2>5, NewFacts, OtherCalm
  <2> QED BY <1>3, <2>3, <2>6, ForkStep
<1>6. ASSUME P[p][va].kind = "anon", f # NULL, Unloaded(f), vm' = vm,
             NEW n, n = [va |-> va, from |-> f, cnt |-> F[f].ref_cnt], counting' = Put(counting, c, n)
      PROVE  ForkInv'
  <2>1. f \in Fr(machine) /\ F[f].live /\ f \in Nat /\ va \in Nat
    <3>1. f \in Fr(machine) /\ F[f].live
      BY <1>1, <1>2, <1>3, <1>6 DEF PgOk
    <3> QED BY <1>1, <3>1 DEF Fr, MachineOk, VA
  <2>2. F[f].ref_cnt \in Int
    BY <1>1, <1>2, <2>1 DEF FrameRec
  <2>3. n \in CallRec /\ n.va = va /\ n.from = f /\ n.cnt = F[f].ref_cnt
    BY <1>6, <2>1, <2>2 DEF CallRec
  <2>4. counting' \in [Procs -> CallRec] /\ counting'[c] = n /\ \A q \in Procs : q # c => counting'[q] = counting[q]
    BY <1>4, <1>6, <1>t, <2>3 DEF Put
  <2>5. \A r \in Procs : counting[r].from # f /\ (copying[r].cnt # None => copying[r].from # f)
    BY <1>6 DEF Unloaded
  <2>6. MadeOk(P, F, copying, counting', life, making, c, n)
    BY <1>3, <1>4, <2>3, <2>4, <2>5 DEF MadeOk
  <2>7. ASSUME NEW q \in Procs, q # c, counting[q] # Idle
        PROVE  /\ counting[q].va \in VA(machine) /\ counting[q].from \in Fr(machine) /\ F[counting[q].from].live
               /\ \/ DeadOk(machine, P, copying, life, q, counting[q])
                  \/ MadeOk(P, F, copying, counting', life, making, q, counting[q])
    <3>1. /\ counting[q].va \in VA(machine) /\ counting[q].from \in Fr(machine)
          /\ F[counting[q].from].live /\ life[q] \in {"dead", "made"}
          /\ life[q] = "dead" => DeadOk(machine, P, copying, life, q, counting[q])
          /\ life[q] = "made" => MadeOk(P, F, copying, counting, life, making, q, counting[q])
      BY <1>2, <2>7, PendFacts
    <3>2. ASSUME life[q] = "made", NEW r \in Procs, r # q PROVE counting'[r].from # counting[q].from
      <4>1. CASE r = c
        BY <2>3, <2>4, <2>5, <4>1
      <4>2. CASE r # c
        BY <2>4, <3>1, <3>2, <4>2 DEF MadeOk
      <4> QED BY <4>1, <4>2
    <3> QED BY <3>1, <3>2 DEF MadeOk
  <2>8. Pend(machine, P, F, copying, counting', life, making)
    BY <1>1, <2>1, <2>3, <2>4, <2>6, <2>7 DEF Pend
  <2>9. ForkVm(machine, vm, copying, life, making, kept)
    BY DEF ForkInv
  <2> QED BY <1>2, <1>3, <1>6, <2>8, <2>9, ForkPend
<1>8. ForkInv'
  BY <1>3, <1>5, <1>6
<1> QED BY <1>3, <1>8, ForkUsedKept

\* copy_counted: the frame is counted before it is used, and not cleared, because
\* it is shared.
LEMMA ForkCounted ==
  ASSUME machine \in Machines, ForkInv, NEW p \in Procs, copy_counted(p)
  PROVE  ForkInv' /\ UsedKept
<1> USE DEF NULL, None
<1>0. PICK c, va, f, n : /\ c = making[p] /\ c # NULL /\ counting[c] # Idle
                         /\ va = counting[c].va /\ f = counting[c].from /\ n = counting[c].cnt
                         /\ vm' = vm_copy_claim_page(vm, p, c, va, n) /\ counting' = Put(counting, c, Idle)
                         /\ UNCHANGED <<machine, kept, life, copying, making, unmapping>>
  BY DEF copy_counted, Put
<1>4. c \in Procs /\ life[c] = "made" /\ \A q \in Procs : making[q] = c => q = p
  BY <1>0, MotherFacts
<1>5. /\ va \in VA(machine) /\ f # NULL /\ vm.pages[c][va].kind = "none" /\ vm.frames[f].ref_cnt = n
      /\ vm.pages[p][va].frame = f /\ \A r \in Procs : copying[r].cnt # None => copying[r].from # f
  <2>1. /\ va \in VA(machine) /\ f # NULL
        /\ MadeOk(vm.pages, vm.frames, copying, counting, life, making, c, counting[c])
    BY <1>0, <1>4, PendFacts
  <2> QED BY <1>0, <1>4, <2>1 DEF MadeOk
<1>1. /\ MachineOk(machine)
      /\ PgOk(machine, va, vm.pages[p][va], vm.pte[p][va], vm.frames, copying[p])
      /\ VmType(machine, vm.pages, vm.pte) /\ vm.frames \in [Fr(machine) -> FrameRec]
  BY <1>5, VAFacts, ForkRuns
<1>2. PICK P, T, F, B, k, W, D :
        /\ Fields(vm, P, T, F, B, k, W, D) /\ Fork(machine, P, T, F, B, copying, life, making, kept)
        /\ vm.pages = P /\ vm.pte = T /\ vm.frames = F
  BY ForkOpen
<1>6. P[p][va].kind = "anon" /\ P[p][va].frame = f /\ F[f].ref_cnt = n /\ P[c][va].kind = "none"
  BY <1>1, <1>2, <1>5 DEF PgOk
<1>7. ForkInv'
  <2>1. PICK x0, f0, t, m1, m2 :
          /\ x0 = [NoPage EXCEPT !.kind = "uninit", !.frame = f] /\ f0 = Counted(F[f], n + 1)
          /\ t = Entry(f, FALSE) /\ m1 = ShareOf(vm, f, c, va, n + 1) /\ m2 = pml4_set_page(m1, c, va, f, FALSE)
    OBVIOUS
  <2>3. PICK P1, F1, T1 : P1 = Put2(P, c, va, x0) /\ F1 = Put(F, f, f0) /\ T1 = Put2(T, c, va, t)
    OBVIOUS
  <2>4. Fields(m2, P1, T1, F1, B, k, W, D)
    <3>1. Fields(m1, P1, T, F1, B, k, W, D)
      BY <1>2, <2>1, <2>3, ShareSet
    <3> QED BY <2>1, <2>3, <3>1, SetPage
  <2>5. f \in Fr(machine) /\ F[f].live /\ f \in Nat
    <3>1. f \in Fr(machine) /\ F[f].live
      BY <1>1, <1>2, <1>5, <1>6 DEF PgOk
    <3> QED BY <1>1, <3>1 DEF Fr, MachineOk
  <2>6. F[f] \in FrameRec /\ F[f].ref_cnt \in Int /\ F[f].data \in Value
    <3>1. F[f] \in FrameRec
      BY <1>1, <1>2, <2>5
    <3> QED BY <3>1 DEF FrameRec
  <2>7. F[f].ref_cnt >= 1
    <3>1. Cardinality(Holders(machine, P, copying, f)) <= F[f].ref_cnt
      BY <1>2, <2>5 DEF Fork, CountOk
    <3>2. p \in Holders(machine, P, copying, f)
      BY <1>5, <1>6 DEF Holders
    <3>3. 1 <= Cardinality(Holders(machine, P, copying, f)) /\ Cardinality(Holders(machine, P, copying, f)) \in Nat
      BY <3>2, HoldersCount, HoldersFinite
    <3> QED BY <2>6, <3>1, <3>3
  <2>2. vm' = anon_initializer(m2, c, va)
    <3>1. n # 0 /\ vm.pages[p][va].frame = f
      BY <1>2, <1>6, <2>6, <2>7
    <3> QED BY <1>0, <2>1, <3>1 DEF vm_copy_claim_page, ShareOf
  <2>8. /\ f0 \in FrameRec /\ f0.live = F[f].live /\ f0.ref_cnt = F[f].ref_cnt + 1 /\ f0.data = F[f].data
    <3>1. F[f].ref_cnt + 1 \in Int
      BY <2>6
    <3> QED BY <1>6, <2>1, <2>6, <3>1, CountedFacts
  <2>9. PICK fr : /\ fr = Filled(f0, f0.data) /\ fr \in FrameRec /\ fr.live = F[f].live
                  /\ fr.ref_cnt = F[f].ref_cnt + 1 /\ fr.data = F[f].data
    <3>1. f0.data \in Value
      BY <2>6, <2>8
    <3> QED BY <2>8, <3>1, FilledFacts
  <2>10. x0 \in PageRec /\ x0.frame = f
    <3>1. NoPage \in PageRec
      BY DEF NoPage, PageRec
    <3>2. ASSUME NEW y \in PageRec, NEW g \in Nat
          PROVE  [y EXCEPT !.kind = "uninit", !.frame = g] \in PageRec /\ [y EXCEPT !.kind = "uninit", !.frame = g].frame = g
      BY DEF PageRec
    <3> QED BY <2>1, <2>5, <3>1, <3>2
  <2>11. PICK x : x = Anon(x0) /\ x \in PageRec /\ x.frame = f /\ x.slot = None /\ x.kind = "anon"
    BY <2>10, KindFacts
  <2>12. P1[c][va] = x0 /\ \A b : Put2(P1, c, va, b) = Put2(P, c, va, b)
    BY <1>1, <1>2, <1>4, <1>5, <2>3, Put2Put2 DEF Put2At
  <2>13. F1[f] = f0 /\ \A b : Put(F1, f, b) = Put(F, f, b)
    <3>1. F \in [Fr(machine) -> FrameRec]
      BY <1>1, <1>2
    <3> QED BY <2>3, <2>5, <2>8, <3>1 DEF Put
  <2>14. Fields(vm', Put2(P, c, va, x), T1, Put(F, f, fr), B, k, W, D)
    <3>1. f = P1[c][va].frame /\ ~(F1[f].ref_cnt <= 1)
      BY <2>6, <2>7, <2>8, <2>10, <2>12, <2>13
    <3>2. Fields(vm', Put2(P1, c, va, Anon(P1[c][va])), T1, Put(F1, f, Filled(F1[f], F1[f].data)), B, k, W, D)
      BY <2>2, <2>4, <3>1, AnonInit
    <3> QED BY <2>9, <2>11, <2>12, <2>13, <3>2
  <2>15. t \in PteRec /\ t.p /\ t.kva = f
    BY <2>1, <2>5, EntryFacts
  <2>16. Fork(machine, Put2(P, c, va, x), Put2(T, c, va, t), Put(F, f, fr), B, copying, life, making, kept)
    BY <1>0, <1>2, <1>5, <1>6, <2>9, <2>11, <2>15, ForkShare
  <2>17. ForkVm(machine, vm', copying, life, making, kept)
    BY <2>3, <2>14, <2>16, ForkClose
  <2>18. vm'.pages = Put2(P, c, va, x) /\ vm'.frames = Put(F, f, fr)
    BY <2>14 DEF Fields
  <2>19. \A g \in Fr(machine) : /\ vm'.frames[g].live = vm.frames[g].live
                                /\ vm'.frames[g].ref_cnt = vm.frames[g].ref_cnt \/ f = g
    BY <1>1, <1>2, <2>9, <2>18 DEF Put
  <2>20. Calmly
    BY <1>0, <1>2, <1>4, <1>5, <2>11, <2>18, <2>19, OtherCalm
  <2> QED BY <1>0, <2>17, <2>20, ForkStep
<1> QED BY <1>0, <1>7, ForkUsedKept

\* kill_load: the loaded count covers the users, and no child is about to use the
\* frame.
LEMMA ForkKillLoad ==
  ASSUME machine \in Machines, ForkInv, ~ForkRaces, NEW p \in Procs, NEW va \in VAs, kill_load(p, va)
  PROVE  ForkInv' /\ UsedKept
<1> USE DEF NULL, None
<1>1. /\ va \in VA(machine) /\ MachineOk(machine)
      /\ PgOk(machine, va, vm.pages[p][va], vm.pte[p][va], vm.frames, copying[p])
      /\ vm.frames \in [Fr(machine) -> FrameRec]
  BY ForkRuns
<1>2. PICK f, n : /\ f = vm.pages[p][va].frame /\ f # NULL /\ life[p] = "dead" /\ counting[p] = Idle /\ Uncounting(f)
                  /\ n = [va |-> va, from |-> f, cnt |-> vm.frames[f].ref_cnt] /\ counting' = Put(counting, p, n)
                  /\ UNCHANGED <<machine, vm, kept, life, copying, making, unmapping>>
  BY DEF kill_load, Page, Put
<1>t. counting \in [Procs -> CallRec]
  BY DEF ForkInv, Pend
<1>3. f \in Fr(machine) /\ vm.frames[f].live /\ f \in Nat /\ va \in Nat
  <2>1. f \in Fr(machine) /\ vm.frames[f].live
    BY <1>1, <1>2 DEF PgOk
  <2> QED BY <1>1, <2>1 DEF Fr, MachineOk, VA
<1>4. vm.frames[f].ref_cnt \in Int
  BY <1>1, <1>3 DEF FrameRec
<1>5. n \in CallRec /\ n.va = va /\ n.from = f /\ n.cnt = vm.frames[f].ref_cnt
  BY <1>2, <1>3, <1>4 DEF CallRec
<1>6. counting' \in [Procs -> CallRec] /\ counting'[p] = n /\ \A q \in Procs : q # p => counting'[q] = counting[q]
  BY <1>2, <1>t, <1>5 DEF Put
<1>7. DeadOk(machine, vm.pages, copying, life, p, n)
  <2>1. Cardinality(Holders(machine, vm.pages, copying, f)) <= vm.frames[f].ref_cnt
    BY <1>3 DEF ForkInv, ForkVm, Fork, CountOk
  <2> QED BY <1>2, <1>5, <2>1 DEF DeadOk
<1>8. ASSUME NEW q \in Procs, q # p, counting[q] # Idle
      PROVE  /\ counting[q].va \in VA(machine) /\ counting[q].from \in Fr(machine)
             /\ vm.frames[counting[q].from].live
             /\ \/ DeadOk(machine, vm.pages, copying, life, q, counting[q])
                \/ MadeOk(vm.pages, vm.frames, copying, counting', life, making, q, counting[q])
  <2>1. /\ counting[q].va \in VA(machine) /\ counting[q].from \in Fr(machine)
        /\ vm.frames[counting[q].from].live /\ life[q] \in {"dead", "made"}
        /\ life[q] = "dead" => DeadOk(machine, vm.pages, copying, life, q, counting[q])
        /\ life[q] = "made" => MadeOk(vm.pages, vm.frames, copying, counting, life, making, q, counting[q])
    BY <1>8, PendFacts
  <2>2. ASSUME life[q] = "made", NEW r \in Procs, r # q PROVE counting'[r].from # counting[q].from
    <3>1. CASE r = p
      BY <1>2, <1>5, <1>6, <2>2, <3>1 DEF Uncounting
    <3>2. CASE r # p
      BY <1>6, <2>1, <2>2, <3>2 DEF MadeOk
    <3> QED BY <3>1, <3>2
  <2> QED BY <2>1, <2>2 DEF MadeOk
<1>9. Pend(machine, vm.pages, vm.frames, copying, counting', life, making)
  BY <1>1, <1>3, <1>5, <1>6, <1>7, <1>8 DEF Pend
<1>10. ForkVm(machine, vm, copying, life, making, kept)
  BY DEF ForkInv
<1>11. ForkInv'
  BY <1>2, <1>9, <1>10, ForkPend
<1> QED BY <1>2, <1>11, ForkUsedKept

\* A page of a dead process is destroyed: an anonymous one gives its frame up and
\* has its entry cleared, an untouched one has neither.
LEMMA ForkKilled ==
  ASSUME machine \in Machines, ForkInv, NEW p \in Procs, NEW va \in VAs, hash_spt_entry_kill(p, va)
  PROVE  ForkInv' /\ UsedKept
<1> USE DEF NULL, None
<1>1. /\ va \in VA(machine) /\ MachineOk(machine)
      /\ PgOk(machine, va, vm.pages[p][va], vm.pte[p][va], vm.frames, copying[p])
      /\ VmType(machine, vm.pages, vm.pte) /\ vm.frames \in [Fr(machine) -> FrameRec]
      /\ vm.pages[p][va] \in PageRec /\ vm.pte[p][va] \in PteRec
  BY ForkRuns
<1>2. PICK P, T, F, B, k, W, D :
        /\ Fields(vm, P, T, F, B, k, W, D) /\ Fork(machine, P, T, F, B, copying, life, making, kept)
        /\ vm.pages = P /\ vm.pte = T /\ vm.frames = F
  BY ForkOpen
<1>3. /\ life[p] = "dead" /\ P[p][va].kind # "none" /\ vm' = vm_dealloc_page(vm, p, va, counting[p].cnt)
      /\ P[p][va].frame # NULL => counting[p] # Idle /\ counting[p].va = va
      /\ counting' = Put(counting, p, Idle) /\ UNCHANGED <<machine, kept, life, copying, making, unmapping>>
  BY <1>2 DEF hash_spt_entry_kill, Page, Put
<1>n. NoPage.frame = NULL
  BY DEF NoPage
<1>i. copying[p] = Idle
  BY <1>2, <1>3 DEF Fork, CopyOk
<1>f. PICK f : f = P[p][va].frame
  OBVIOUS
<1>4. CASE P[p][va].kind = "anon"
  <2>1. f # NULL /\ f \in Fr(machine) /\ P[p][va].slot = None
    BY <1>1, <1>2, <1>4, <1>f DEF PgOk
  <2>c. PICK n \in Int : /\ n = counting[p].cnt /\ counting[p].from = f
                        /\ Cardinality(Holders(machine, P, copying, f)) <= n
    <3>1. counting[p] # Idle /\ counting[p].va = va /\ counting[p] \in CallRec
      BY <1>3, <1>f, <2>1 DEF ForkInv, Pend
    <3>2. DeadOk(machine, P, copying, life, p, counting[p])
      BY <1>2, <1>3, <3>1, PendFacts
    <3> QED BY <1>f, <3>1, <3>2 DEF DeadOk, CallRec
  <2>2. PICK m1, m2 : m1 = StoreOf(vm, f, n - 1) /\ m2 = pml4_clear_page(m1, p, va)
    OBVIOUS
  <2>3. PICK fr, F2 : fr = Counted(F[f], n - 1) /\ F2 = Put(F, f, fr)
    OBVIOUS
  <2>4. Fields(m1, P, T, F2, B, k, W, D)
    BY <1>2, <2>2, <2>3, StoreSet
  <2>5. PICK t : t = Absent(T[p][va]) /\ t \in PteRec /\ ~t.p
    BY <1>1, <1>2, PteFacts
  <2>6. Fields(m2, P, Put2(T, p, va, t), F2, B, k, W, D)
    BY <2>2, <2>4, <2>5, ClearPage
  <2>7. m1.pages = P
    BY <2>4 DEF Fields
  <2>8. anon_destroy(m1, p, va) = m2
    BY <2>1, <2>2, <2>7 DEF anon_destroy
  <2>9. vm' = PageOf(m2, p, va, NoPage)
    BY <1>2, <1>3, <1>4, <1>f, <2>1, <2>c, <2>2, <2>8 DEF vm_dealloc_page, PageOf, StoreOf
  <2>10. Fields(vm', Put2(P, p, va, NoPage), Put2(T, p, va, t), F2, B, k, W, D)
    BY <2>6, <2>9, PageSet
  <2>11. Uncounted(machine, F, F2, f, n)
    <3>1. F \in [Fr(machine) -> FrameRec] /\ F[f] \in FrameRec
      BY <1>1, <1>2, <2>1
    <3>2. n - 1 \in Int
      BY <2>c
    <3>3. fr \in FrameRec /\ fr.live = F[f].live /\ fr.data = F[f].data /\ fr.ref_cnt = n - 1
      BY <2>3, <3>1, <3>2, CountedFacts
    <3>4. F2 \in [Fr(machine) -> FrameRec] /\ F2[f] = fr /\ \A g \in Fr(machine) : g # f => F2[g] = F[g]
      BY <2>1, <2>3, <3>1, <3>3, FrameAt
    <3> QED BY <3>3, <3>4 DEF Uncounted
  <2>12. Fork(machine, Put2(P, p, va, NoPage), Put2(T, p, va, t), F2, B, copying, life, making, kept)
    BY <1>1, <1>2, <1>3, <1>f, <2>5, <2>c, <2>11, ForkKill
  <2>13. ForkVm(machine, vm', copying, life, making, kept)
    BY <2>10, <2>12, ForkClose
  <2>14. vm'.pages = Put2(P, p, va, NoPage) /\ vm'.frames = F2
    BY <2>10 DEF Fields
  <2>15. \A g \in Fr(machine) : /\ vm'.frames[g].live = vm.frames[g].live
                                /\ vm'.frames[g].ref_cnt = vm.frames[g].ref_cnt \/ f = g
    BY <1>2, <2>11, <2>14 DEF Uncounted
  <2>16. Calmly
    BY <1>1, <1>2, <1>3, <1>n, <2>c, <2>14, <2>15, OtherCalm
  <2>17. ForkInv'
    BY <1>3, <2>13, <2>16, ForkStep
  <2> QED BY <1>3, <2>17, ForkUsedKept
<1>5. CASE P[p][va].kind # "anon"
  <2>1. f = NULL /\ P[p][va].kind # "file" /\ ~T[p][va].p /\ T[p][va] \in PteRec
    BY <1>1, <1>2, <1>5, <1>f, <1>i DEF PgOk
  <2>2. vm' = PageOf(vm, p, va, NoPage)
    BY <1>2, <1>3, <1>5, <1>f, <2>1 DEF vm_dealloc_page, PageOf
  <2>3. Fields(vm', Put2(P, p, va, NoPage), T, F, B, k, W, D)
    BY <1>2, <2>2, PageSet
  <2>4. T = Put2(T, p, va, T[p][va])
    BY <1>1, <1>2 DEF Put2, VmType
  <2>5. Uncounted(machine, F, F, f, 0) /\ f \notin Fr(machine)
    BY <1>1, <1>2, <2>1 DEF Uncounted, Fr
  <2>6. Fork(machine, Put2(P, p, va, NoPage), Put2(T, p, va, T[p][va]), F, B, copying, life, making, kept)
    <3>1. 0 \in Int
      OBVIOUS
    <3> QED BY <1>1, <1>2, <1>3, <1>f, <2>1, <2>5, <3>1, ForkKill
  <2>7. ForkVm(machine, vm', copying, life, making, kept)
    BY <2>3, <2>4, <2>6, ForkClose
  <2>8. vm'.pages = Put2(P, p, va, NoPage) /\ vm'.frames = F
    BY <2>3 DEF Fields
  <2>9. Calmly
    BY <1>1, <1>2, <1>3, <1>n, <2>8, OtherCalm
  <2>10. ForkInv'
    BY <1>3, <2>7, <2>9, ForkStep
  <2> QED BY <1>3, <2>10, ForkUsedKept
<1> QED BY <1>4, <1>5

\* Every step keeps the invariant of the relatives, and no page leaves its
\* frame for a slot or a file.
LEMMA ForkNext ==
  ASSUME machine \in Machines, ForkInv, ~ParentWrites, ~ForkRaces, ~Reuse, Next
  PROVE  ForkInv' /\ UsedKept
<1> USE DEF None
<1>m. machine.maps = {} /\ machine.slots = 0 /\ \A p \in Procs : unmapping[p] = None
  BY DEF ForkInv
<1>1. ASSUME NEW p \in Procs, NEW va \in VAs, user_read(p, va) PROVE FALSE
  BY <1>1, <1>m DEF user_read
<1>2. ASSUME NEW p \in Procs, NEW va \in VAs, NEW v \in Written, user_write(p, va, v) PROVE ForkInv' /\ UsedKept
  BY <1>2, ForkWritten
<1>3. ASSUME NEW p \in Procs, NEW va \in VAs, fault_absent(p, va) PROVE ForkInv' /\ UsedKept
  BY <1>3, ForkFault
<1>4. ASSUME NEW p \in Procs, NEW va \in VAs, vm_handle_wp(p, va) PROVE ForkInv' /\ UsedKept
  BY <1>4, ForkWp
<1>5. ASSUME NEW p \in Procs, NEW va \in VAs, write_readonly(p, va) PROVE ForkInv' /\ UsedKept
  BY <1>5, ForkExited DEF write_readonly
<1>6. ASSUME NEW p \in Procs, NEW va \in VAs, supplemental_page_table_copy(p, va) PROVE ForkInv' /\ UsedKept
  BY <1>6, ForkCopy
<1>7. ASSUME NEW p \in Procs, NEW va \in VAs, hash_spt_entry_kill(p, va) PROVE ForkInv' /\ UsedKept
  BY <1>7, ForkKilled
<1>k. ASSUME NEW p \in Procs, NEW va \in VAs, kill_load(p, va) PROVE ForkInv' /\ UsedKept
  BY <1>k, ForkKillLoad
<1>c. ASSUME NEW p \in Procs, copy_counted(p) PROVE ForkInv' /\ UsedKept
  BY <1>c, ForkCounted
<1>8. ASSUME NEW p \in Procs, wp_load(p) PROVE ForkInv' /\ UsedKept
  BY <1>8, ForkLoaded
<1>9. ASSUME NEW p \in Procs, wp_copied(p) PROVE ForkInv' /\ UsedKept
  BY <1>9, ForkWpCopied
<1>10. ASSUME NEW p \in Procs, NEW c \in Procs, process_fork(p, c) PROVE ForkInv' /\ UsedKept
  BY <1>10, ForkBegun
<1>11. ASSUME NEW p \in Procs, do_fork(p) PROVE ForkInv' /\ UsedKept
  BY <1>11, ForkEnded
<1>12. ASSUME NEW p \in Procs, exit(p) PROVE ForkInv' /\ UsedKept
  BY <1>12, ForkExited
<1>13. ASSUME NEW p \in Procs, do_mmap(p) \/ do_munmap(p) \/ munmap_page(p) PROVE FALSE
  BY <1>13, <1>m DEF do_mmap, do_munmap, munmap_page
<1> QED BY <1>1, <1>2, <1>3, <1>4, <1>5, <1>6, <1>7, <1>8, <1>9, <1>10, <1>11, <1>12, <1>13, <1>k, <1>c DEF Next

\* Every living process finds what it last wrote.
LEMMA ForkMemory ==
  ASSUME ForkInv
  PROVE  MemoryKept
<1> USE DEF NULL, None
<1> SUFFICES ASSUME NEW p \in Procs, NEW va \in VA(machine), life[p] = "alive" PROVE Content(p, va) = kept[p][va]
  BY VAFacts DEF MemoryKept
<1>1. Held(machine, va, vm.pages[p][va], vm.frames) = kept[p][va]
  BY DEF ForkInv, ForkVm, Fork, KeptOk
<1>2. PgOk(machine, va, vm.pages[p][va], vm.pte[p][va], vm.frames, copying[p]) /\ machine.maps = {}
  BY DEF ForkInv, ForkVm, Fork, PagesOk
<1> QED BY <1>1, <1>2 DEF Content, Page, Held, PgOk

\* The tables agree, and no frame has more users than it counts.
LEMMA ForkTables ==
  ASSUME ForkInv
  PROVE  FramesConsistent
<1> USE DEF NULL, None
<1>k. Fork(machine, vm.pages, vm.pte, vm.frames, vm.frame_table, copying, life, making, kept)
  BY DEF ForkInv, ForkVm
<1>v. ASSUME NEW p \in Procs, NEW va \in VA(machine)
      PROVE  PgOk(machine, va, vm.pages[p][va], vm.pte[p][va], vm.frames, copying[p])
  BY <1>k DEF Fork, PagesOk
<1>1. SlotsOwned
  <2>1. Slot = {}
    BY DEF Slot, ForkInv
  <2>2. ASSUME NEW p \in Procs, NEW va \in VA(machine), vm.pages[p][va].kind = "anon"
        PROVE  (vm.pages[p][va].frame = NULL) # (vm.pages[p][va].slot = None)
    BY <1>v, <2>2 DEF PgOk
  <2> QED BY <2>1, <2>2, VAFacts DEF SlotsOwned, Page
<1>2. FramesLinked
  <2>1. ASSUME NEW p \in Procs, NEW va \in VA(machine), copying[p] = Idle \/ copying[p].va # va
        PROVE  /\ vm.pte[p][va].p <=> vm.pages[p][va].frame # NULL
               /\ vm.pte[p][va].p => /\ vm.pte[p][va].kva = vm.pages[p][va].frame
                                     /\ vm.frames[vm.pages[p][va].frame].live
    BY <1>v, <2>1 DEF PgOk
  <2>2. ASSUME NEW f \in Fr(machine), vm.frames[f].live
        PROVE  Cardinality({i \in DOMAIN vm.frame_table : vm.frame_table[i] = f}) = 1
    <3>1. f # NULL
      BY DEF Fr
    <3>2. PICK i \in DOMAIN vm.frame_table : vm.frame_table[i] = f
      BY <1>k, <2>2 DEF Fork, TableOk
    <3>3. {j \in DOMAIN vm.frame_table : vm.frame_table[j] = f} = {i}
      BY <1>k, <3>1, <3>2 DEF Fork, TableOk
    <3> QED BY <3>3, FS_Singleton
  <2> QED BY <2>1, <2>2, VAFacts DEF FramesLinked, Page
<1>3. RefCounted
  <2>1. ASSUME NEW f \in Fr(machine), vm.frames[f].live
        PROVE  vm.frames[f].ref_cnt >= Cardinality(Sharers(f))
    <3>0. f # NULL
      BY DEF Fr
    <3> PICK H : H = Holders(machine, vm.pages, copying, f)
      OBVIOUS
    <3>1. IsFiniteSet(H) /\ Cardinality(H) \in Nat /\ Cardinality(H) <= vm.frames[f].ref_cnt
      BY <1>k, <2>1, HoldersFinite DEF Fork, CountOk
    <3>2. vm.frames[f].ref_cnt \in Int
      <4>1. vm.frames \in [Fr(machine) -> FrameRec]
        BY <1>k DEF Fork, ForkType
      <4> QED BY <4>1 DEF FrameRec
    <3>3. /\ IsFiniteSet(Sharers(f)) /\ Cardinality(Sharers(f)) \in Nat
          /\ Sharers(f) \subseteq Procs \X VA(machine)
          /\ \A q \in Procs : \A w \in VA(machine) : <<q, w>> \in Sharers(f) <=> vm.pages[q][w].frame = f
          /\ \A y, z \in Sharers(f) : y[2] = z[2]
      BY <3>0, ForkSharers
    <3>4. ASSUME NEW y \in Sharers(f)
          PROVE  y[1] \in Procs /\ y[2] \in VA(machine) /\ y = <<y[1], y[2]>> /\ y[1] \in H
      <4>1. y[1] \in Procs /\ y[2] \in VA(machine) /\ y = <<y[1], y[2]>>
        BY <3>3
      <4>2. vm.pages[y[1]][y[2]].frame = f
        BY <3>3, <4>1
      <4> QED BY <4>1, <4>2 DEF Holders
    <3>5. PICK g : g = [y \in Sharers(f) |-> y[1]]
      OBVIOUS
    <3>6. g \in Injection(Sharers(f), H)
      <4>1. g \in [Sharers(f) -> H]
        BY <3>4, <3>5
      <4>2. ASSUME NEW y \in Sharers(f), NEW z \in Sharers(f), g[y] = g[z] PROVE y = z
        BY <3>3, <3>4, <3>5, <4>2
      <4> QED BY <4>1, <4>2 DEF Injection, IsInjective
    <3>7. Cardinality(Sharers(f)) <= Cardinality(H)
      BY <3>1, <3>6, FS_Injection, Zenon
    <3> QED BY <3>1, <3>2, <3>3, <3>7
  <2> QED BY <2>1, VAFacts DEF RefCounted
<1> QED BY <1>1, <1>2, <1>3 DEF FramesConsistent

-----------------------------------------------------------------------------
(* The theorems. *)

\* The hypotheses.  No process writes to a frame that it shares with a child:
\* vm_copy_claim_page leaves the mother's entry writable, so that write is not
\* kept from the child.  No fork counts a frame between the load and the store of
\* another ref_cnt-- or ref_cnt++, of a write fault, an exit or another fork, and
\* none of them counts it between the load and the store of a fork: the count would
\* be lost.  malloc does not return the memory of a frame that file_backed_destroy
\* freed and left on frame_table.  A machine whose programs fork has no swap,
\* because an eviction clears only the running process's entry.
Calm ==
  /\ ~ParentWrites /\ ~ForkRaces /\ ~Reuse
  /\ \A m \in Machines : m.forks => m.slots = 0

\* The inductive invariant: on each machine, of the programs it runs.
FramesInv ==
  /\ machine \in Machines
  /\ machine.forks => ForkInv
  /\ ~machine.forks => SoloInv

\* The invariant holds at the start.
LEMMA FramesInit ==
  ASSUME Calm, Init
  PROVE  FramesInv
<1>1. machine \in Machines
  BY DEF Init
<1>2. machine.forks => machine.slots = 0
  BY <1>1 DEF Calm
<1> QED BY <1>1, <1>2, ForkInit, SoloInit DEF FramesInv

\* Every step keeps it.
LEMMA FramesNext ==
  ASSUME Calm, FramesInv, Next
  PROVE  FramesInv' /\ UsedKept
<1>1. machine' = machine
  <2>1. ASSUME NEW p \in Procs, NEW va \in VAs, user_read(p, va) PROVE machine' = machine
    BY <2>1 DEF user_read
  <2>2. ASSUME NEW p \in Procs, NEW va \in VAs, NEW v \in Written, user_write(p, va, v) PROVE machine' = machine
    BY <2>2 DEF user_write
  <2>3. ASSUME NEW p \in Procs, NEW va \in VAs, fault_absent(p, va) PROVE machine' = machine
    BY <2>3 DEF fault_absent
  <2>4. ASSUME NEW p \in Procs, NEW va \in VAs, vm_handle_wp(p, va) PROVE machine' = machine
    BY <2>4 DEF vm_handle_wp
  <2>5. ASSUME NEW p \in Procs, NEW va \in VAs, supplemental_page_table_copy(p, va) PROVE machine' = machine
    BY <2>5 DEF supplemental_page_table_copy
  <2>6. ASSUME NEW p \in Procs, NEW va \in VAs, kill_load(p, va) \/ hash_spt_entry_kill(p, va) PROVE machine' = machine
    BY <2>6 DEF kill_load, hash_spt_entry_kill
  <2>7. ASSUME NEW p \in Procs, NEW va \in VAs, write_readonly(p, va) PROVE machine' = machine
    BY <2>7 DEF write_readonly, exit
  <2>8. ASSUME NEW p \in Procs, wp_load(p) \/ wp_copied(p) PROVE machine' = machine
    BY <2>8 DEF wp_load, wp_copied
  <2>9. ASSUME NEW p \in Procs, NEW c \in Procs, process_fork(p, c) PROVE machine' = machine
    BY <2>9 DEF process_fork
  <2>10. ASSUME NEW p \in Procs, copy_counted(p) \/ do_fork(p) \/ exit(p) PROVE machine' = machine
    BY <2>10 DEF copy_counted, do_fork, exit
  <2>11. ASSUME NEW p \in Procs, do_mmap(p) \/ do_munmap(p) \/ munmap_page(p) PROVE machine' = machine
    BY <2>11 DEF do_mmap, do_munmap, munmap_page
  <2> QED BY <2>1, <2>2, <2>3, <2>4, <2>5, <2>6, <2>7, <2>8, <2>9, <2>10, <2>11 DEF Next
<1>2. CASE machine.forks
  <2>1. ForkInv' /\ UsedKept
    BY <1>2, ForkNext DEF FramesInv, Calm
  <2> QED BY <1>1, <1>2, <2>1 DEF FramesInv
<1>3. CASE ~machine.forks
  <2>1. SoloInv' /\ UsedKept
    BY <1>3, SoloNext DEF FramesInv, Calm
  <2> QED BY <1>1, <1>3, <2>1 DEF FramesInv
<1> QED BY <1>2, <1>3

\* So does no step.
LEMMA FramesStutter ==
  ASSUME FramesInv, UNCHANGED vars
  PROVE  FramesInv'
<1>1. UNCHANGED <<machine, vm, kept, copying, counting, life, making, unmapping>>
  BY DEF vars, calls
<1>2. ForkInv => ForkInv'
  BY <1>1 DEF ForkInv
<1>3. SoloInv => SoloInv'
  BY <1>1 DEF SoloInv, SoloCalls
<1> QED BY <1>1, <1>2, <1>3 DEF FramesInv

\* It implies what the runs check.
LEMMA FramesHolds ==
  ASSUME FramesInv
  PROVE  MemoryKept /\ FramesConsistent
<1>1. CASE machine.forks
  BY <1>1, ForkMemory, ForkTables DEF FramesInv
<1>2. CASE ~machine.forks
  BY <1>2, SoloMemory, SoloTables DEF FramesInv
<1> QED BY <1>1, <1>2

\* Whatever the evictions of vm_evict_frame, the swapping in and out, the lazy
\* loading, the loop of do_munmap and the copies that vm_handle_wp makes after a
\* fork, a process finds at every address what it last wrote there.
THEOREM MemoryAlwaysKept ==
  ASSUME Calm
  PROVE  Spec => []MemoryKept
<1>1. Init => FramesInv
  BY FramesInit
<1>2. FramesInv /\ [Next]_vars => FramesInv'
  BY FramesNext, FramesStutter
<1>3. FramesInv => MemoryKept
  BY FramesHolds
<1> QED BY <1>1, <1>2, <1>3, PTL DEF Spec

\* The page tables, the pages, the frames, the frame table and the swap slots
\* always agree, and ref_cnt is never less than the number of a frame's users.
THEOREM FramesAlwaysConsistent ==
  ASSUME Calm
  PROVE  Spec => []FramesConsistent
<1>1. Init => FramesInv
  BY FramesInit
<1>2. FramesInv /\ [Next]_vars => FramesInv'
  BY FramesNext, FramesStutter
<1>3. FramesInv => FramesConsistent
  BY FramesHolds
<1> QED BY <1>1, <1>2, <1>3, PTL DEF Spec

\* vm_get_victim gives every page a second chance: no step evicts a page used since
\* the clock passed it while a page in memory was not used.
THEOREM UsedPagesSpared ==
  ASSUME Calm
  PROVE  Spec => SecondChance
<1>1. Init => FramesInv
  BY FramesInit
<1>2. FramesInv /\ [Next]_vars => FramesInv'
  BY FramesNext, FramesStutter
<1>3. FramesInv /\ [Next]_vars => [UsedKept]_vars
  BY FramesNext
<1> QED BY <1>1, <1>2, <1>3, PTL DEF Spec, SecondChance
=============================================================================
