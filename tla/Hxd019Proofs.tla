---------------------------- MODULE Hxd019Proofs ----------------------------
(***************************************************************************)
(* Proofs about the infrared driver, for any tasks, code tables, settings   *)
(* and builds.                                                              *)
(***************************************************************************)
EXTENDS Hxd019, FiniteSetTheorems, SequenceTheorems, WellFoundedInduction, TLAPS

(* A task that moves is where it went, and the others are where they were. *)
LEMMA Moved ==
  ASSUME pc \in [Tasks -> Place], NEW t \in Tasks, NEW l \in Place, Goto(t, l)
  PROVE  pc' \in [Tasks -> Place] /\ pc'[t] = l /\ \A u \in Tasks : u # t => pc'[u] = pc[u]
BY DEF Goto

(* Only tasks are tasks. *)
LEMMA NoTask == "none" \notin Tasks /\ "free" \notin Tasks
<1>1. {"none", "free"} \cap Tasks = {}
  BY TaskAssumption
<1> QED
  BY <1>1

-----------------------------------------------------------------------------
(* The mutex *)

(* Steps by which a task moves between statements outside the write *)
LEMMA OutsideKeeps ==
  ASSUME WriterInv, NEW t \in Tasks, NEW l \in Place \ {"write", "deinit"}, Goto(t, l),
         pc[t] \notin {"write", "deinit"}, UNCHANGED mutex,
         pc[t] # "idle" \/ Resting(t)
  PROVE  WriterInv'
<1>1. pc' \in [Tasks -> Place] /\ pc'[t] = l /\ \A u \in Tasks : u # t => pc'[u] = pc[u]
  BY Moved DEF WriterInv
<1>2. \A u \in Tasks : pc[u] # "deinit"
  BY DEF WriterInv, Resting
<1> QED
  BY <1>1, <1>2 DEF WriterInv, OneWriter

(* A task takes the mutex only when nobody writes. *)
LEMMA TakeKeeps ==
  ASSUME WriterInv, NEW t \in Tasks, TakeMutex(t)
  PROVE  WriterInv'
<1>1. pc[t] = "send" /\ mutex = "free" /\ mutex' = t /\ Goto(t, "write")
  BY DEF TakeMutex
<1>2. pc' \in [Tasks -> Place] /\ pc'[t] = "write" /\ \A u \in Tasks : u # t => pc'[u] = pc[u]
  BY <1>1, Moved DEF WriterInv, Place
<1>3. \A u \in Tasks : pc[u] # "write" /\ pc[u] # "deinit"
  BY <1>1, NoTask DEF WriterInv, OneWriter
<1> QED
  BY <1>1, <1>2, <1>3 DEF WriterInv, OneWriter

(* The task that wrote gives the mutex back, whether the write failed or not. *)
LEMMA GiveKeeps ==
  ASSUME WriterInv, NEW t \in Tasks, WriteFails(t) \/ Written(t)
  PROVE  WriterInv'
<1>1. PICK l \in {"idle", "sent"} : pc[t] = "write" /\ mutex' = "free" /\ Goto(t, l)
  BY DEF WriteFails, Written, Back
<1>2. pc' \in [Tasks -> Place] /\ pc'[t] = l /\ \A u \in Tasks : u # t => pc'[u] = pc[u]
  BY <1>1, Moved DEF WriterInv, Place
<1>3. \A u \in Tasks : (u # t => pc[u] # "write") /\ pc[u] # "deinit"
  BY <1>1 DEF WriterInv, OneWriter
<1> QED
  BY <1>1, <1>2, <1>3, NoTask DEF WriterInv, OneWriter

(* Initialisation and shutdown find every task idle. *)
LEMMA LifecycleKeeps ==
  ASSUME WriterInv, InitDriver \/ (\E t \in Tasks : DeinitBegins(t) \/ DeinitEnds(t))
  PROVE  WriterInv'
<1>1. CASE InitDriver
  BY <1>1, NoTask DEF WriterInv, OneWriter, InitDriver, Quiet
<1>2. ASSUME NEW t \in Tasks, DeinitBegins(t)
      PROVE  WriterInv'
  <2>1. pc' \in [Tasks -> Place] /\ pc'[t] = "deinit" /\ \A u \in Tasks : u # t => pc'[u] = pc[u]
    BY <1>2, Moved DEF WriterInv, Place, DeinitBegins
  <2> QED
    BY <1>2, <2>1, NoTask DEF WriterInv, OneWriter, DeinitBegins, Quiet
<1>3. ASSUME NEW t \in Tasks, DeinitEnds(t)
      PROVE  WriterInv'
  <2>1. pc' \in [Tasks -> Place] /\ pc'[t] = "idle" /\ \A u \in Tasks : u # t => pc'[u] = pc[u]
    BY <1>3, Moved DEF WriterInv, Place, DeinitEnds
  <2> QED
    BY <1>3, <2>1, NoTask DEF WriterInv, OneWriter, DeinitEnds
<1> QED
  BY <1>1, <1>2, <1>3

(* Every step keeps the mutex with the task that writes. *)
LEMMA WriterStep ==
  ASSUME WriterInv, [Next]_vars
  PROVE  WriterInv'
<1>1. CASE UNCHANGED <<pc, mutex>>
  BY <1>1 DEF WriterInv, OneWriter
<1>2. CASE InitDriver
  BY <1>2, LifecycleKeeps
<1>3. ASSUME NEW t \in Tasks, DeinitBegins(t) \/ DeinitEnds(t)
      PROVE  WriterInv'
  BY <1>3, LifecycleKeeps
<1>4. ASSUME NEW t \in Tasks, TakeMutex(t) \/ WriteFails(t) \/ Written(t)
      PROVE  WriterInv'
  BY <1>4, TakeKeeps, GiveKeeps
<1>5. ASSUME NEW t \in Tasks,
             BuildState(t) \/ SendRefused(t) \/ Commit(t) \/ ReadBase(t) \/ SendPlain(t)
      PROVE  WriterInv'
  <2>1. /\ UNCHANGED mutex /\ pc[t] \notin {"write", "deinit"} /\ (pc[t] # "idle" \/ Resting(t))
        /\ \E l \in {"idle", "based", "send"} : Goto(t, l)
    BY <1>5 DEF BuildState, SendRefused, Commit, ReadBase, SendPlain, Back, driver, Resting
  <2> QED
    BY <2>1, OutsideKeeps DEF Place
<1>6. CASE RegisterTable \/ ReaderEnds \/ (\E c \in Chunks : Receive(c)) \/ (\E t \in Tasks : BindGroup(t))
           \/ UNCHANGED vars
  BY <1>1, <1>6 DEF RegisterTable, ReaderEnds, Receive, BindGroup, driver, vars
<1> QED
  BY <1>2, <1>3, <1>4, <1>5, <1>6 DEF Next, Send, Call

(* At power-on there is no mutex, and every task is idle. *)
LEMMA WriterInit == Init => WriterInv
BY NoTask DEF Init, WriterInv, OneWriter, Place

(* Frames of two tasks never overlap on the wire: whatever fails, the mutex is with
   the one task that writes, and with nobody when no task does.                     *)
THEOREM OneWriterAlways == Spec => []OneWriter
<1>1. WriterInv /\ [Next]_vars => WriterInv'
  BY WriterStep
<1>2. WriterInv => OneWriter
  BY DEF WriterInv
<1> QED
  BY <1>1, <1>2, WriterInit, PTL DEF Spec

-----------------------------------------------------------------------------
(* Folds: what is said of one subset of a frame's places is said of all by taking out one
   place at a time, and the function a fold is defined by exists.                        *)

(* A set of numbers has a least. *)
LEMMA Least ==
  ASSUME NEW T, T \subseteq Nat, T # {}
  PROVE  \E i \in T : \A j \in T : i <= j
<1> DEFINE R == OpToRel(<, Nat)
<1>1. IsWellFoundedOn(R, Nat)
  BY NatLessThanWellFounded
<1> HIDE DEF R
<1>2. PICK i \in T : \A j \in T : ~(<<j, i>> \in R)
  BY <1>1, WFMin, Zenon
<1>3. \A j \in T : ~(j < i)
  BY <1>2 DEF R, OpToRel
<1> QED
  BY <1>3

(* Induction on a set of numbers: one that has 0 and each number's next has them all. *)
LEMMA Counting ==
  ASSUME NEW T, 0 \in T, \A k \in Nat : k \in T => k + 1 \in T
  PROVE  Nat \subseteq T
<1> DEFINE Missing == Nat \ T
<1> SUFFICES ASSUME Missing # {} PROVE FALSE
  OBVIOUS
<1>1. PICK k \in Missing : \A j \in Missing : k <= j
  BY Least
<1>2. k \in Nat /\ k # 0 /\ k \notin T
  BY <1>1
<1>3. k - 1 \in Nat /\ ~(k <= k - 1)
  BY <1>2
<1>4. k - 1 \in T
  BY <1>1, <1>3
<1>5. k - 1 + 1 \in T
  BY <1>3, <1>4
<1> QED
  BY <1>2, <1>5

(* A function that folds numbers over the subsets of a finite set *)
Folding(g, S, c, op) ==
  \A s \in SUBSET S : g[s] = IF s = {} THEN 0 ELSE op[<<c[s], g[s \ {c[s]}]>>]
UpTo(g, S, c, op, k) ==
  \A s \in SUBSET S : Cardinality(s) <= k => g[s] = IF s = {} THEN 0 ELSE op[<<c[s], g[s \ {c[s]}]>>]

(* Each way of folding has the function that folds so. *)
LEMMA FoldingExists ==
  ASSUME NEW S, IsFiniteSet(S), NEW c, \A s \in SUBSET S : s # {} => c[s] \in s,
         NEW op \in [S \X Nat -> Nat]
  PROVE  \E g \in [SUBSET S -> Nat] : Folding(g, S, c, op)
<1> DEFINE T == {k \in Nat : \E g \in [SUBSET S -> Nat] : UpTo(g, S, c, op, k)}
           Grown(g) == [s \in SUBSET S |-> IF s = {} THEN 0 ELSE op[<<c[s], g[s \ {c[s]}]>>]]
<1>0. ASSUME NEW g \in [SUBSET S -> Nat] PROVE Grown(g) \in [SUBSET S -> Nat]
  <2>1. ASSUME NEW s \in SUBSET S, s # {} PROVE <<c[s], g[s \ {c[s]}]>> \in S \X Nat
    <3>1. c[s] \in S /\ s \ {c[s]} \in SUBSET S
      BY <2>1
    <3>2. g[s \ {c[s]}] \in Nat
      BY <3>1
    <3> QED
      BY <3>1, <3>2
  <2>2. ASSUME NEW s \in SUBSET S PROVE (IF s = {} THEN 0 ELSE op[<<c[s], g[s \ {c[s]}]>>]) \in Nat
    BY <2>1
  <2> QED
    BY <2>2
<1>1. 0 \in T
  <2> DEFINE g == [s \in SUBSET S |-> 0]
  <2>1. g \in [SUBSET S -> Nat]
    OBVIOUS
  <2>2. ASSUME NEW s \in SUBSET S, Cardinality(s) <= 0 PROVE s = {}
    <3>1. IsFiniteSet(s)
      BY FS_Subset
    <3>2. Cardinality(s) \in Nat
      BY <3>1, FS_CardinalityType
    <3>3. Cardinality(s) = 0
      BY <2>2, <3>2
    <3> QED
      BY <3>1, <3>3, FS_EmptySet
  <2>3. UpTo(g, S, c, op, 0)
    BY <2>2 DEF UpTo
  <2> HIDE DEF g
  <2> QED
    BY <2>1, <2>3
<1>2. ASSUME NEW k \in Nat, k \in T PROVE k + 1 \in T
  <2>1. PICK g \in [SUBSET S -> Nat] : UpTo(g, S, c, op, k)
    BY <1>2
  <2> DEFINE h == Grown(g)
  <2>2. h \in [SUBSET S -> Nat]
    BY <1>0
  <2>3. ASSUME NEW s \in SUBSET S, Cardinality(s) <= k + 1, s # {}
        PROVE  h[s] = op[<<c[s], h[s \ {c[s]}]>>]
    <3> DEFINE r == s \ {c[s]}
    <3>1. r \in SUBSET S /\ IsFiniteSet(s) /\ c[s] \in s
      BY <2>3, FS_Subset
    <3>2. Cardinality(s) \in Nat /\ Cardinality(r) = Cardinality(s) - 1
      <4> DEFINE x == c[s]
      <4>1. IsFiniteSet(s) /\ x \in s
        BY <3>1
      <4> HIDE DEF x
      <4>2. Cardinality(s \ {x}) = Cardinality(s) - 1
        BY <4>1, FS_RemoveElement
      <4>3. Cardinality(s) \in Nat
        BY <4>1, FS_CardinalityType
      <4> QED
        BY <4>2, <4>3 DEF x
    <3>3. Cardinality(r) <= k
      BY <2>3, <3>2
    <3>4. g[r] = h[r]
      BY <2>1, <3>1, <3>3, Zenon DEF UpTo
    <3>5. h[s] = op[<<c[s], g[r]>>]
      BY <2>3
    <3> QED
      BY <3>4, <3>5
  <2>4. h[{}] = 0
    OBVIOUS
  <2> HIDE DEF h
  <2>5. UpTo(h, S, c, op, k + 1)
    BY <2>3, <2>4 DEF UpTo
  <2> QED
    BY <2>2, <2>5
<1>3. Cardinality(S) \in T
  <2>1. Cardinality(S) \in Nat
    BY FS_CardinalityType
  <2> HIDE DEF T
  <2>2. Nat \subseteq T
    BY <1>1, <1>2, Counting
  <2> QED
    BY <2>1, <2>2
<1>4. PICK g \in [SUBSET S -> Nat] : UpTo(g, S, c, op, Cardinality(S))
  BY <1>3
<1>5. \A s \in SUBSET S : Cardinality(s) <= Cardinality(S)
  BY FS_Subset
<1> QED
  BY <1>4, <1>5 DEF Folding, UpTo

(* Induction on the subsets of a finite set, by taking out one element *)
LEMMA ByRemoving ==
  ASSUME NEW S, IsFiniteSet(S), NEW Good, {} \in Good,
         \A s \in SUBSET S : s # {} /\ (\A x \in s : s \ {x} \in Good) => s \in Good
  PROVE  SUBSET S \subseteq Good
<1> DEFINE Bad == {s \in SUBSET S : s \notin Good}
           Sizes == {Cardinality(s) : s \in Bad}
<1> SUFFICES ASSUME Bad # {} PROVE FALSE
  OBVIOUS
<1>1. \A s \in SUBSET S : IsFiniteSet(s) /\ Cardinality(s) \in Nat
  BY FS_Subset, FS_CardinalityType
<1>2. PICK s \in Bad : \A r \in Bad : Cardinality(s) <= Cardinality(r)
  <2>1. Sizes \subseteq Nat /\ Sizes # {}
    BY <1>1
  <2>2. PICK k \in Sizes : \A j \in Sizes : k <= j
    <3> HIDE DEF Sizes
    <3> QED
      BY <2>1, Least
  <2> QED
    BY <2>2
<1>3. s # {}
  OBVIOUS
<1>4. ASSUME NEW x \in s PROVE s \ {x} \in Good
  <2>1. Cardinality(s \ {x}) = Cardinality(s) - 1 /\ s \ {x} \in SUBSET S
    BY <1>1, <1>4, FS_RemoveElement
  <2>2. ~(Cardinality(s) <= Cardinality(s \ {x}))
    BY <1>1, <2>1
  <2> QED
    BY <1>2, <2>1, <2>2
<1> QED
  BY <1>3, <1>4

(* The last place of a set of places is one of them. *)
LEMMA MaxIn ==
  ASSUME NEW n \in Nat, NEW s \in SUBSET (1 .. n), s # {}
  PROVE  Max(s) \in s
<1> DEFINE FromEnd == {n - i : i \in s}
<1>1. FromEnd \subseteq Nat /\ FromEnd # {}
  <2>1. \A i \in s : n - i \in Nat
    OBVIOUS
  <2> QED
    BY <2>1
<1>2. PICK d \in FromEnd : \A e \in FromEnd : d <= e
  BY <1>1, Least
<1>3. PICK i \in s : d = n - i
  OBVIOUS
<1>4. \A j \in s : i >= j
  <2>1. \A j \in s : d <= n - j
    BY <1>2
  <2> QED
    BY <1>3, <2>1
<1> QED
  BY <1>3, <1>4 DEF Max

(* The checksum, as the code runs it: a function that takes out the last place *)
Rolling(g, n, buf) ==
  g = [s \in SUBSET (1 .. n) |-> IF s = {} THEN 0 ELSE (g[s \ {Max(s)}] + buf[Max(s)]) % 256]

(* There is such a function, and it gives numbers. *)
LEMMA RollingExists ==
  ASSUME NEW n \in Nat, NEW buf \in [1 .. n -> Nat]
  PROVE  \E g \in [SUBSET (1 .. n) -> Nat] : Rolling(g, n, buf)
<1> DEFINE S == 1 .. n
           c == [s \in SUBSET S |-> Max(s)]
           op == [p \in S \X Nat |-> (p[2] + buf[p[1]]) % 256]
<1>1. IsFiniteSet(S)
  BY FS_Interval
<1>2. \A s \in SUBSET S : s # {} => c[s] \in s
  BY MaxIn
<1>3. op \in [S \X Nat -> Nat]
  <2>1. ASSUME NEW p \in S \X Nat PROVE (p[2] + buf[p[1]]) % 256 \in Nat
    <3>1. p[2] \in Nat /\ buf[p[1]] \in Nat
      OBVIOUS
    <3> QED
      BY <3>1
  <2> QED
    BY <2>1
<1> HIDE DEF c, op
<1>4. PICK g \in [SUBSET S -> Nat] : Folding(g, S, c, op)
  BY <1>1, <1>2, <1>3, FoldingExists
<1>5. ASSUME NEW s \in SUBSET S, s # {} PROVE g[s] = (g[s \ {Max(s)}] + buf[Max(s)]) % 256
  <2>1. c[s] = Max(s) /\ Max(s) \in S /\ s \ {Max(s)} \in SUBSET S
    BY <1>5, MaxIn DEF c
  <2>2. g[s] = op[<<c[s], g[s \ {c[s]}]>>]
    BY <1>4, <1>5, Zenon DEF Folding
  <2>3. <<Max(s), g[s \ {Max(s)}]>> \in S \X Nat
    BY <2>1
  <2> QED
    BY <2>1, <2>2, <2>3 DEF op
<1>6. g[{}] = 0
  BY <1>4 DEF Folding
<1>7. g = [s \in SUBSET S |-> g[s]]
  OBVIOUS
<1>8. Rolling(g, n, buf)
  <2>1. \A s \in SUBSET S :
          g[s] = IF s = {} THEN 0 ELSE (g[s \ {Max(s)}] + buf[Max(s)]) % 256
    BY <1>5, <1>6
  <2> QED
    BY <1>7, <2>1 DEF Rolling
<1> QED
  BY <1>8

(* The checksum of hxd019.c's loop is that function's value at all the places. *)
LEMMA ChecksumIs ==
  ASSUME NEW n \in Nat, NEW buf \in [1 .. n -> Nat]
  PROVE  \E g : Rolling(g, n, buf) /\ Checksum(buf) = g[1 .. n]
<1>1. DOMAIN buf = 1 .. n
  OBVIOUS
<1>2. Checksum(buf) = (CHOOSE g : Rolling(g, n, buf))[1 .. n]
  BY <1>1 DEF Checksum, FoldLeft, MapThenFoldSet, Rolling
<1> QED
  BY <1>2, RollingExists

(* The sum the chip checks, in whatever order it takes the bytes *)
Adding(g, n, buf) ==
  g = [s \in SUBSET (1 .. n) |->
         IF s = {} THEN 0 ELSE buf[CHOOSE x \in s : TRUE] + g[s \ {CHOOSE x \in s : TRUE}]]

(* The chip's sum is this function's value at all the places. *)
LEMMA SumIs ==
  ASSUME NEW n \in Nat, NEW buf \in [1 .. n -> Nat]
  PROVE  FoldSeq(+, 0, buf) = (CHOOSE g : Adding(g, n, buf))[1 .. n]
<1>1. DOMAIN buf = 1 .. n
  OBVIOUS
<1> QED
  BY <1>1 DEF FoldSeq, FoldFunction, FoldFunctionOnSet, MapThenFoldSet, Adding

(* There is such a function. *)
LEMMA AddingExists ==
  ASSUME NEW n \in Nat, NEW buf \in [1 .. n -> Nat]
  PROVE  \E g \in [SUBSET (1 .. n) -> Nat] : Adding(g, n, buf)
<1> DEFINE S == 1 .. n
           c == [s \in SUBSET S |-> CHOOSE x \in s : TRUE]
           op == [p \in S \X Nat |-> buf[p[1]] + p[2]]
<1>1. IsFiniteSet(S)
  BY FS_Interval
<1>2. \A s \in SUBSET S : s # {} => c[s] \in s
  OBVIOUS
<1>3. op \in [S \X Nat -> Nat]
  <2>1. ASSUME NEW p \in S \X Nat PROVE buf[p[1]] + p[2] \in Nat
    <3>1. p[2] \in Nat /\ buf[p[1]] \in Nat
      OBVIOUS
    <3> QED
      BY <3>1
  <2> QED
    BY <2>1
<1> HIDE DEF c, op
<1>4. PICK g \in [SUBSET S -> Nat] : Folding(g, S, c, op)
  BY <1>1, <1>2, <1>3, FoldingExists
<1>5. ASSUME NEW s \in SUBSET S, s # {}
      PROVE  g[s] = buf[CHOOSE x \in s : TRUE] + g[s \ {CHOOSE x \in s : TRUE}]
  <2> DEFINE x == c[s]
  <2>1. x = (CHOOSE y \in s : TRUE) /\ x \in S /\ s \ {x} \in SUBSET S
    BY <1>2, <1>5 DEF c
  <2>2. g[s] = op[<<x, g[s \ {x}]>>]
    BY <1>4, <1>5, Zenon DEF Folding
  <2>3. <<x, g[s \ {x}]>> \in S \X Nat
    BY <2>1
  <2>4. g[s] = buf[x] + g[s \ {x}]
    BY <2>2, <2>3 DEF op
  <2> HIDE DEF x
  <2> QED
    BY <2>1, <2>4
<1>6. g[{}] = 0
  BY <1>4 DEF Folding
<1>7. g = [s \in SUBSET S |-> g[s]]
  OBVIOUS
<1>8. Adding(g, n, buf)
  <2>1. \A s \in SUBSET S :
          g[s] = IF s = {} THEN 0 ELSE buf[CHOOSE x \in s : TRUE] + g[s \ {CHOOSE x \in s : TRUE}]
    BY <1>5, <1>6
  <2> QED
    BY <1>7, <2>1 DEF Adding
<1> QED
  BY <1>8

(* Where the definition chooses a function, it chooses this one. *)
LEMMA AddingTyped ==
  ASSUME NEW n \in Nat, NEW buf \in [1 .. n -> Nat], NEW g, Adding(g, n, buf)
  PROVE  \A s \in SUBSET (1 .. n) : g[s] \in Nat
<1> DEFINE S == 1 .. n
           Good == {s \in SUBSET S : g[s] \in Nat}
<1>1. IsFiniteSet(S)
  BY FS_Interval
<1>2. {} \in Good
  BY DEF Adding
<1>3. ASSUME NEW s \in SUBSET S, s # {}, \A x \in s : s \ {x} \in Good PROVE s \in Good
  <2> DEFINE x == CHOOSE x \in s : TRUE
  <2>1. x \in s
    BY <1>3
  <2>2. g[s] = buf[x] + g[s \ {x}]
    BY <1>3 DEF Adding
  <2> HIDE DEF x
  <2>3. buf[x] \in Nat /\ g[s \ {x}] \in Nat
    BY <1>3, <2>1
  <2>4. g[s] \in Nat
    BY <2>2, <2>3
  <2> QED
    BY <2>4
<1>4. SUBSET S \subseteq Good
  <2>1. \A s \in SUBSET S : s # {} /\ (\A x \in s : s \ {x} \in Good) => s \in Good
    BY <1>3
  <2> HIDE DEF S, Good
  <2> QED
    BY <1>1, <1>2, <2>1, ByRemoving, Zenon
<1> QED
  BY <1>4

(* Any place may be the one that is taken out. *)
AnyOrder(g, n, buf) ==
  \A s \in SUBSET (1 .. n) : \A x \in s : g[s] = buf[x] + g[s \ {x}]

(* The order in which the places are taken does not matter to a sum. *)
LEMMA AddingInAnyOrder ==
  ASSUME NEW n \in Nat, NEW buf \in [1 .. n -> Nat], NEW g, Adding(g, n, buf)
  PROVE  AnyOrder(g, n, buf)
<1>0. SUFFICES \A s \in SUBSET (1 .. n) : \A x \in s : g[s] = buf[x] + g[s \ {x}]
  BY DEF AnyOrder
<1> DEFINE S == 1 .. n
           Good == {s \in SUBSET S : \A x \in s : g[s] = buf[x] + g[s \ {x}]}
<1>1. IsFiniteSet(S)
  BY FS_Interval
<1>2. {} \in Good
  OBVIOUS
<1>3. ASSUME NEW s \in SUBSET S, s # {}, \A x \in s : s \ {x} \in Good, NEW x \in s
      PROVE  g[s] = buf[x] + g[s \ {x}]
  <2> DEFINE y == CHOOSE y \in s : TRUE
  <2>1. y \in s
    BY <1>3
  <2>2. g[s] = buf[y] + g[s \ {y}]
    BY <1>3 DEF Adding
  <2> HIDE DEF y
  <2>3. CASE x # y
    <3> DEFINE r == (s \ {x}) \ {y}
    <3>1. r = (s \ {y}) \ {x} /\ r \in SUBSET S
      OBVIOUS
    <3>2. g[s \ {y}] = buf[x] + g[(s \ {y}) \ {x}]
      BY <1>3, <2>1, <2>3
    <3>3. g[s \ {x}] = buf[y] + g[r]
      BY <1>3, <2>1, <2>3
    <3>4. g[s \ {y}] = buf[x] + g[r]
      BY <3>1, <3>2
    <3>5. buf[x] \in Nat /\ buf[y] \in Nat /\ g[r] \in Nat
      BY <2>1, <3>1, AddingTyped
    <3> HIDE DEF r
    <3> QED
      BY <2>2, <3>3, <3>4, <3>5
  <2> QED
    BY <2>2, <2>3
<1>4. SUBSET S \subseteq Good
  <2>1. \A s \in SUBSET S : s # {} /\ (\A x \in s : s \ {x} \in Good) => s \in Good
    BY <1>3
  <2> HIDE DEF S, Good
  <2> QED
    BY <1>1, <1>2, <2>1, ByRemoving, Zenon
<1> QED
  BY <1>4

(* Adding up in eight bits gives the sum's low byte. *)
LEMMA RollingIsLowByte ==
  ASSUME NEW n \in Nat, NEW buf \in [1 .. n -> Nat], NEW g, Rolling(g, n, buf), NEW h, Adding(h, n, buf)
  PROVE  \A s \in SUBSET (1 .. n) : g[s] = h[s] % 256
<1>0. \A s \in SUBSET (1 .. n) : \A y \in s : h[s] = buf[y] + h[s \ {y}]
  <2>1. AnyOrder(h, n, buf)
    BY AddingInAnyOrder
  <2> QED
    BY <2>1 DEF AnyOrder
<1> DEFINE S == 1 .. n
           Good == {s \in SUBSET S : g[s] = h[s] % 256}
<1>1. IsFiniteSet(S)
  BY FS_Interval
<1>2. {} \in Good
  BY DEF Rolling, Adding
<1>3. ASSUME NEW s \in SUBSET S, s # {}, \A x \in s : s \ {x} \in Good PROVE s \in Good
  <2> DEFINE x == Max(s)
             r == s \ {x}
  <2>1. x \in s
    BY <1>3, MaxIn
  <2>2. g[s] = (g[r] + buf[x]) % 256
    BY <1>3 DEF Rolling
  <2>3. h[s] = buf[x] + h[r]
    <3> HIDE DEF x
    <3>0. \A y \in s : h[s] = buf[y] + h[s \ {y}]
      BY <1>0, <1>3
    <3>1. h[s] = buf[x] + h[s \ {x}]
      BY <2>1, <3>0
    <3> QED
      BY <3>1
  <2>4. g[r] = h[r] % 256 /\ r \in SUBSET S
    BY <1>3, <2>1
  <2>5. buf[x] \in Nat /\ h[r] \in Nat
    BY <2>1, <2>4, AddingTyped
  <2> HIDE DEF x, r
  <2>6. ((h[r] % 256) + buf[x]) % 256 = (buf[x] + h[r]) % 256
    BY <2>5
  <2>7. g[s] = h[s] % 256
    BY <2>2, <2>3, <2>4, <2>6
  <2> QED
    BY <2>7
<1>4. SUBSET S \subseteq Good
  <2>1. \A s \in SUBSET S : s # {} /\ (\A x \in s : s \ {x} \in Good) => s \in Good
    BY <1>3
  <2> HIDE DEF S, Good
  <2> QED
    BY <1>1, <1>2, <2>1, ByRemoving, Zenon
<1> QED
  BY <1>4

(* The sum that is sent is the sum the chip checks. *)
LEMMA ChecksumIsSum ==
  ASSUME NEW n \in Nat, NEW buf \in [1 .. n -> Nat]
  PROVE  Checksum(buf) = FoldSeq(+, 0, buf) % 256
<1> DEFINE sum == FoldSeq(+, 0, buf)
<1>1. PICK g : Rolling(g, n, buf) /\ Checksum(buf) = g[1 .. n]
  BY ChecksumIs
<1>2. PICK h : Adding(h, n, buf) /\ sum = h[1 .. n]
  BY SumIs, AddingExists
<1> HIDE DEF sum
<1>3. Checksum(buf) = sum % 256
  BY <1>1, <1>2, RollingIsLowByte
<1> QED
  BY <1>3 DEF sum

-----------------------------------------------------------------------------
(* Frames *)

(* A group that the chip finds fits two bytes, and so does 0, for none. *)
LEMMA Groups == 0 \in Group /\ Found \subseteq Group
<1>1. LastGroup \in Nat /\ LastFound \in Nat /\ LastFound <= LastGroup
  BY SMT DEF LastGroup, LastFound
<1> QED
  BY <1>1 DEF Group, Found

(* The last byte of a frame is the sum of the others. *)
Summed(f) == f[Len(f)] = FoldSeq(+, 0, Front(f)) % 256

(* A temperature that can be sent is sent in a byte, from which the chip has it. *)
LEMMA TempSent ==
  ASSUME NEW b \in [keys : {7, 11}, minus16 : BOOLEAN], NEW temp \in TempRange(b)
  PROVE  /\ TempByte(temp, b) \in Byte
         /\ TempByte(temp, b) + (IF b.minus16 THEN 16 ELSE 0) = temp
<1>1. temp \in 16 .. 31
  BY DEF TempRange
<1>2. (temp + 256 - 16) % 256 = temp - 16
  BY <1>1
<1> QED
  BY <1>1, <1>2 DEF TempByte, Byte

(* A frame that is sealed is the bytes and their sum. *)
LEMMA SealedIs ==
  ASSUME NEW buf \in Seq(Byte)
  PROVE  /\ Len(Sealed(buf)) = Len(buf) + 1
         /\ \A i \in 1 .. Len(buf) : Sealed(buf)[i] = buf[i]
         /\ Sealed(buf) \in Seq(Byte) /\ Summed(Sealed(buf))
<1> DEFINE sum == Checksum(buf)
           f == Append(buf, sum)
<1>0. PICK n \in Nat : n = Len(buf)
  OBVIOUS
<1>1. buf \in [1 .. n -> Nat]
  <2>1. Byte \subseteq Nat
    BY DEF Byte
  <2>2. buf = [i \in 1 .. n |-> buf[i]] /\ \A i \in 1 .. n : buf[i] \in Byte
    BY <1>0
  <2>3. \A i \in 1 .. n : buf[i] \in Nat
    BY <2>1, <2>2
  <2> QED
    BY <2>2, <2>3
<1>2. sum \in Byte
  <2> DEFINE total == FoldSeq(+, 0, buf)
  <2>1. PICK h : Adding(h, n, buf) /\ total = h[1 .. n]
    BY <1>1, SumIs, AddingExists
  <2>2. h[1 .. n] \in Nat
    BY <1>1, <2>1, AddingTyped
  <2>3. sum = total % 256
    BY <1>1, ChecksumIsSum
  <2> HIDE DEF sum, total
  <2>4. \A k \in Nat : k % 256 \in 0 .. 255
    OBVIOUS
  <2> QED
    BY <2>1, <2>2, <2>3, <2>4 DEF Byte
<1>3. sum = FoldSeq(+, 0, buf) % 256
  BY <1>1, ChecksumIsSum
<1> HIDE DEF sum
<1>4. /\ f \in Seq(Byte) /\ Len(f) = n + 1 /\ f[n + 1] = sum
      /\ \A i \in 1 .. n : f[i] = buf[i]
  BY <1>0, <1>2
<1>5. Front(f) = buf
  <2>1. Front(f) = SubSeq(f, 1, n)
    BY <1>4 DEF Front
  <2>2. Front(f) = [i \in 1 .. n |-> f[i]]
    BY <2>1, <1>4
  <2>3. buf = [i \in 1 .. n |-> buf[i]]
    BY <1>0
  <2> QED
    BY <1>4, <2>2, <2>3
<1>6. Summed(f)
  <2>1. f[Len(f)] = sum
    BY <1>4
  <2> HIDE DEF f
  <2> QED
    BY <1>3, <1>5, <2>1, Zenon DEF Summed
<1>7. Sealed(buf) = f
  BY DEF Sealed, sum
<1> HIDE DEF f
<1> QED
  BY <1>0, <1>4, <1>6, <1>7


(* A frame of a header that has a sum is well formed if its length and its sum are right. *)
LEMMA LongTaken ==
  ASSUME NEW f, \A i \in DOMAIN f : f[i] \in Byte, f[2] \in {0, 1},
         Len(f) = (IF f[2] = 0 THEN 10 ELSE 16), Summed(f)
  PROVE  WellFormed(f)
BY Zenon DEF WellFormed, Summed

(* Bytes that are joined are the ones of the first and then the ones of the second. *)
Joins(s, t) ==
  /\ s \o t \in Seq(Byte) /\ Len(s \o t) = Len(s) + Len(t)
  /\ \A i \in 1 .. Len(s) : (s \o t)[i] = s[i]
  /\ \A i \in 1 .. Len(t) : (s \o t)[Len(s) + i] = t[i]

(* So it is for any two sequences of bytes. *)
LEMMA Joined ==
  ASSUME NEW s \in Seq(Byte), NEW t \in Seq(Byte)
  PROVE  Joins(s, t)
<1>1. /\ s \o t \in Seq(Byte) /\ Len(s \o t) = Len(s) + Len(t)
      /\ \A i \in 1 .. Len(s) + Len(t) : (s \o t)[i] = IF i <= Len(s) THEN s[i] ELSE t[i - Len(s)]
  BY ConcatProperties
<1>2. ASSUME NEW i \in 1 .. Len(s) PROVE (s \o t)[i] = s[i]
  <2>1. i \in 1 .. Len(s) + Len(t) /\ i <= Len(s)
    OBVIOUS
  <2> QED
    BY <1>1, <2>1
<1>3. ASSUME NEW i \in 1 .. Len(t) PROVE (s \o t)[Len(s) + i] = t[i]
  <2> DEFINE k == Len(s) + i
  <2>1. k \in 1 .. Len(s) + Len(t) /\ ~(k <= Len(s)) /\ k - Len(s) = i
    OBVIOUS
  <2> HIDE DEF k
  <2>2. (s \o t)[k] = t[i]
    BY <1>1, <2>1
  <2> QED
    BY <2>2 DEF k
<1> QED
  BY <1>1, <1>2, <1>3 DEF Joins

(* Bytes are bytes. *)
LEMMA InBytes ==
  ASSUME NEW f \in Seq(Byte)
  PROVE  \A i \in DOMAIN f : f[i] \in Byte
<1>1. DOMAIN f = 1 .. Len(f)
  BY LenProperties
<1> QED
  BY <1>1, ElementOfSeq

(* The last group is the greatest number of two bytes. *)
LEMMA GroupFits == LastGroup \in Nat /\ LastGroup < 256 * 256
BY SMT DEF LastGroup

(* A group fits two bytes. *)
LEMMA GroupBytes ==
  ASSUME NEW g \in Group
  PROVE  /\ BigEndian(g) \in Seq(Byte) /\ Len(BigEndian(g)) = 2
         /\ BigEndian(g)[1] = g \div 256 /\ BigEndian(g)[2] = g % 256
         /\ 256 * (g \div 256) + (g % 256) = g
<1>1. g \in Nat /\ g <= LastGroup /\ LastGroup \in Nat /\ LastGroup < 256 * 256
  BY GroupFits DEF Group
<1>2. g \div 256 \in 0 .. 255
  <2> DEFINE d == g \div 256
  <2>1. d \in Int /\ g = 256 * d + (g % 256) /\ g % 256 \in 0 .. 255
    BY <1>1
  <2> HIDE DEF d
  <2>2. d >= 0 /\ d <= 255
    BY <1>1, <2>1
  <2> QED
    BY <2>1, <2>2 DEF d
<1>3. g % 256 \in 0 .. 255 /\ 256 * (g \div 256) + (g % 256) = g
  BY <1>1
<1>4. <<g \div 256, g % 256>> \in Seq(0 .. 255) /\ Len(<<g \div 256, g % 256>>) = 2
  BY <1>2, <1>3
<1> QED
  BY <1>3, <1>4 DEF BigEndian, Byte

(* A state that can be sent is carried, by a frame that the chip takes. *)
LEMMA StateCarried ==
  ASSUME NEW b \in Builds, NEW g \in Group, NEW st, Sendable(st, b)
  PROVE  Carries(AcState(g, st, b), g, st, b)
<1> DEFINE head == <<48, 1>>
           two == BigEndian(g)
           body == <<TempByte(st.temp, b), st.fan, st.swing, st.swingAuto, st.power, st.key, st.mode>>
           tail == Tail7or11(st, b)
           buf == head \o two \o body \o tail
           f == Sealed(buf)
<1>1. b \in [keys : {7, 11}, minus16 : BOOLEAN] /\ b.keys \in {7, 11}
  BY BuildAssumption
<1>2. /\ TempByte(st.temp, b) \in Byte
      /\ TempByte(st.temp, b) + (IF b.minus16 THEN 16 ELSE 0) = st.temp
  BY <1>1, TempSent DEF Sendable
<1>3. head \in Seq(Byte) /\ Len(head) = 2 /\ head[1] = 48 /\ head[2] = 1
  BY DEF Byte
<1>4. two \in Seq(Byte) /\ Len(two) = 2 /\ 256 * two[1] + two[2] = g
  BY GroupBytes
<1>5. /\ st.fan \in Byte /\ st.swing \in Byte /\ st.swingAuto \in Byte /\ st.power \in Byte
      /\ st.key \in Byte /\ st.mode \in Byte
      /\ st.sleep \in Byte /\ st.auxHeat \in Byte /\ st.light \in Byte /\ st.eco \in Byte
  BY DEF Sendable, ValidState, LastKey, Byte
<1>6. /\ body \in Seq(Byte) /\ Len(body) = 7
      /\ body[1] = TempByte(st.temp, b) /\ body[2] = st.fan /\ body[3] = st.swing
      /\ body[4] = st.swingAuto /\ body[5] = st.power /\ body[6] = st.key /\ body[7] = st.mode
  BY <1>2, <1>5
<1>7. /\ tail \in Seq(Byte) /\ Len(tail) = 4
      /\ b.keys = 11 => tail[1] = st.sleep /\ tail[2] = st.auxHeat /\ tail[3] = st.light /\ tail[4] = st.eco
  <2>1. CASE b.keys = 7
    <3>1. tail = <<3, 0, 0, 255>>
      BY <2>1 DEF Tail7or11
    <3>2. <<3, 0, 0, 255>> \in Seq(Byte) /\ Len(<<3, 0, 0, 255>>) = 4
      BY DEF Byte
    <3> HIDE DEF tail
    <3> QED
      BY <2>1, <3>1, <3>2
  <2>2. CASE b.keys = 11
    <3>1. tail = <<st.sleep, st.auxHeat, st.light, st.eco>>
      BY <2>2 DEF Tail7or11
    <3> HIDE DEF tail
    <3> QED
      BY <1>5, <3>1
  <2> QED
    BY <1>1, <2>1, <2>2
<1> HIDE DEF head, two, body, tail
<1> DEFINE p == head \o two
<1>8. /\ p \in Seq(Byte) /\ Len(p) = 4
      /\ p[1] = 48 /\ p[2] = 1 /\ p[3] = two[1] /\ p[4] = two[2]
  <2>1. Joins(head, two)
    BY <1>3, <1>4, Joined
  <2> QED
    BY <1>3, <1>4, <2>1 DEF Joins
<1> HIDE DEF p
<1> DEFINE q == p \o body
<1>9. /\ q \in Seq(Byte) /\ Len(q) = 11
      /\ q[1] = 48 /\ q[2] = 1 /\ q[3] = two[1] /\ q[4] = two[2]
      /\ q[5] = body[1] /\ q[6] = body[2] /\ q[7] = body[3] /\ q[8] = body[4]
      /\ q[9] = body[5] /\ q[10] = body[6] /\ q[11] = body[7]
  <2>1. Joins(p, body)
    BY <1>6, <1>8, Joined
  <2>0. Len(p) = 4 /\ Len(body) = 7
    BY <1>6, <1>8
  <2>6. /\ q \in Seq(Byte) /\ Len(q) = Len(p) + Len(body)
        /\ \A i \in 1 .. Len(p) : q[i] = p[i]
        /\ \A i \in 1 .. Len(body) : q[Len(p) + i] = body[i]
    BY <2>1 DEF Joins
  <2> HIDE DEF q
  <2>2. q \in Seq(Byte) /\ Len(q) = 11 /\ \A i \in 1 .. 4 : q[i] = p[i]
    BY <2>0, <2>6
  <2>3. \A i \in 1 .. 7 : q[4 + i] = body[i]
    BY <2>0, <2>6
  <2>4. /\ q[5] = body[1] /\ q[6] = body[2] /\ q[7] = body[3] /\ q[8] = body[4]
        /\ q[9] = body[5] /\ q[10] = body[6] /\ q[11] = body[7]
    BY <2>3
  <2>5. q[1] = 48 /\ q[2] = 1 /\ q[3] = two[1] /\ q[4] = two[2]
    BY <1>8, <2>2
  <2> QED
    BY <2>2, <2>4, <2>5
<1>10. buf = q \o tail
  BY DEF p
<1> HIDE DEF q, buf
<1>11. /\ buf \in Seq(Byte) /\ Len(buf) = 15
       /\ buf[1] = 48 /\ buf[2] = 1 /\ buf[3] = two[1] /\ buf[4] = two[2]
       /\ buf[5] = body[1] /\ buf[6] = body[2] /\ buf[7] = body[3] /\ buf[8] = body[4]
       /\ buf[9] = body[5] /\ buf[10] = body[6] /\ buf[11] = body[7]
       /\ buf[12] = tail[1] /\ buf[13] = tail[2] /\ buf[14] = tail[3] /\ buf[15] = tail[4]
  <2>1. Joins(q, tail)
    BY <1>7, <1>9, Joined
  <2>0. Len(q) = 11 /\ Len(tail) = 4
    BY <1>7, <1>9
  <2>2. buf \in Seq(Byte) /\ Len(buf) = 15 /\ \A i \in 1 .. 11 : buf[i] = q[i]
    <3>1. /\ buf \in Seq(Byte) /\ Len(buf) = Len(q) + Len(tail)
          /\ \A i \in 1 .. Len(q) : buf[i] = q[i]
      BY <1>10, <2>1 DEF Joins
    <3> QED
      BY <2>0, <3>1
  <2>3. \A i \in 1 .. 4 : buf[11 + i] = tail[i]
    BY <1>10, <2>0, <2>1 DEF Joins
  <2>4. buf[12] = tail[1] /\ buf[13] = tail[2] /\ buf[14] = tail[3] /\ buf[15] = tail[4]
    BY <2>3
  <2>5. /\ buf[1] = q[1] /\ buf[2] = q[2] /\ buf[3] = q[3] /\ buf[4] = q[4]
        /\ buf[5] = q[5] /\ buf[6] = q[6] /\ buf[7] = q[7] /\ buf[8] = q[8]
        /\ buf[9] = q[9] /\ buf[10] = q[10] /\ buf[11] = q[11]
    BY <2>2
  <2> QED
    BY <1>9, <2>2, <2>4, <2>5
<1>12. /\ f \in Seq(Byte) /\ Len(f) = Len(buf) + 1 /\ Summed(f)
       /\ \A i \in 1 .. Len(buf) : f[i] = buf[i]
  BY <1>11, SealedIs
<1> HIDE DEF f
<1>13. /\ f[1] = 48 /\ f[2] = 1 /\ f[3] = two[1] /\ f[4] = two[2]
       /\ f[5] = body[1] /\ f[6] = body[2] /\ f[7] = body[3] /\ f[8] = body[4]
       /\ f[9] = body[5] /\ f[10] = body[6] /\ f[11] = body[7]
       /\ f[12] = tail[1] /\ f[13] = tail[2] /\ f[14] = tail[3] /\ f[15] = tail[4]
       /\ Len(f) = 16
  BY <1>11, <1>12
<1>15. WellFormed(f)
  <2>1. \A i \in DOMAIN f : f[i] \in Byte
    BY <1>12, InBytes
  <2>2. f[2] \in {0, 1} /\ Len(f) = IF f[2] = 0 THEN 10 ELSE 16
    BY <1>13
  <2>3. Summed(f)
    BY <1>12
  <2> QED
    BY <2>1, <2>2, <2>3, LongTaken
<1>16. Carries(f, g, st, b)
  <2>1. 256 * f[3] + f[4] = g
    BY <1>4, <1>13
  <2>2. f[5] + (IF b.minus16 THEN 16 ELSE 0) = st.temp
    BY <1>2, <1>6, <1>13
  <2>3. <<f[6], f[7], f[8], f[9], f[10], f[11]>>
          = <<st.fan, st.swing, st.swingAuto, st.power, st.key, st.mode>>
    BY <1>6, <1>13
  <2>4. b.keys = 11 => <<f[12], f[13], f[14], f[15]>> = <<st.sleep, st.auxHeat, st.light, st.eco>>
    BY <1>7, <1>13
  <2> QED
    BY <1>13, <1>15, <2>1, <2>2, <2>3, <2>4, Zenon DEF Carries
<1> QED
  BY <1>16, Zenon DEF AcState, f, buf, head, two, body, tail

(* A registered code's frame is one the chip takes. *)
LEMMA AvTaken ==
  ASSUME NEW e \in [fmt : Byte, key : Byte \X Byte, com : Byte \X Byte \X Byte \X Byte]
  PROVE  WellFormed(Av(e))
<1> DEFINE head == <<48, 0, e.fmt>>
           front == head \o e.key
           buf == front \o e.com
           f == Sealed(buf)
<1>1. e.key \in Seq(Byte) /\ Len(e.key) = 2
  <2>1. PICK a \in Byte, b \in Byte : e.key = <<a, b>>
    OBVIOUS
  <2> QED
    BY <2>1
<1>2. e.com \in Seq(Byte) /\ Len(e.com) = 4
  <2>1. PICK a \in Byte, b \in Byte, c \in Byte, d \in Byte : e.com = <<a, b, c, d>>
    OBVIOUS
  <2> QED
    BY <2>1
<1>3. head \in Seq(Byte) /\ Len(head) = 3 /\ head[2] = 0
  <2>1. e.fmt \in Byte /\ 48 \in Byte /\ 0 \in Byte
    BY DEF Byte
  <2> QED
    BY <2>1
<1> HIDE DEF head
<1>4. front \in Seq(Byte) /\ Len(front) = 5 /\ front[2] = 0
  <2>1. Joins(head, e.key)
    BY <1>1, <1>3, Joined
  <2> QED
    BY <1>1, <1>3, <2>1 DEF Joins
<1> HIDE DEF front
<1>5. buf \in Seq(Byte) /\ Len(buf) = 9 /\ buf[2] = 0
  <2>1. Joins(front, e.com)
    BY <1>2, <1>4, Joined
  <2> QED
    BY <1>2, <1>4, <2>1 DEF Joins
<1> HIDE DEF buf
<1>6. f \in Seq(Byte) /\ Len(f) = 10 /\ f[2] = 0 /\ Summed(f)
  <2>1. /\ f \in Seq(Byte) /\ Len(f) = Len(buf) + 1 /\ Summed(f)
        /\ \A i \in 1 .. Len(buf) : f[i] = buf[i]
    BY <1>5, SealedIs
  <2> HIDE DEF f
  <2> QED
    BY <1>5, <2>1
<1> HIDE DEF f
<1>7. WellFormed(f)
  <2>1. \A i \in DOMAIN f : f[i] \in Byte
    BY <1>6, InBytes
  <2> QED
    BY <1>6, <2>1, LongTaken
<1> QED
  BY <1>7, Zenon DEF Av, f, buf, front, head

(* So is a simple command for a group, ... *)
LEMMA SimpleTaken ==
  ASSUME NEW g \in Group
  PROVE  WellFormed(AcSimple(g, 129))
<1> DEFINE head == <<48, 6>>
           front == head \o BigEndian(g)
           last == <<129>>
           f == front \o last
<1>1. head \in Seq(Byte) /\ Len(head) = 2 /\ head[2] = 6 /\ last \in Seq(Byte) /\ Len(last) = 1
  BY DEF Byte
<1> HIDE DEF head, last
<1>2. BigEndian(g) \in Seq(Byte) /\ Len(BigEndian(g)) = 2
  BY GroupBytes
<1>3. front \in Seq(Byte) /\ Len(front) = 4 /\ front[2] = 6
  <2>1. Joins(head, BigEndian(g))
    BY <1>1, <1>2, Joined
  <2> QED
    BY <1>1, <1>2, <2>1 DEF Joins
<1> HIDE DEF front
<1>6. f \in Seq(Byte) /\ Len(f) = 5 /\ f[2] = 6
  <2>1. Joins(front, last)
    BY <1>1, <1>3, Joined
  <2> QED
    BY <1>1, <1>3, <2>1 DEF Joins
<1> HIDE DEF f
<1>7. \A i \in DOMAIN f : f[i] \in Byte
  BY <1>6, InBytes
<1>8. WellFormed(f)
  BY <1>6, <1>7, Zenon DEF WellFormed
<1> QED
  BY <1>8, Zenon DEF AcSimple, f, front, head, last

(* ... and are the frames that begin learning and matching. *)
LEMMA FixedTaken == WellFormed(Learn) /\ WellFormed(Match)
<1>1. \A i \in DOMAIN Learn : Learn[i] \in Byte
  BY DEF Learn, Byte
<1>2. \A i \in DOMAIN Match : Match[i] \in Byte
  BY DEF Match, Byte
<1> QED
  BY <1>1, <1>2, Zenon DEF WellFormed

-----------------------------------------------------------------------------
(* What is typed *)

(* What the reader finds in a chunk is a group, or nothing. *)
LEMMA ScanTyped ==
  ASSUME NEW c \in Chunks
  PROVE  Scan(c) \in Found \cup {0}
<1> DEFINE at == {i \in 1 .. Len(c) - 1 :
                   c[i] \notin {32, 48, 112} /\ 256 * c[i] + c[i + 1] \in Found}
<1>1. at \subseteq Nat
  <2>1. c \in Seq(Byte)
    BY ChunkAssumption
  <2> QED
    BY <2>1
<1> HIDE DEF at
<1>2. CASE at = {}
  <2>1. Scan(c) = 0
    BY <1>2, Zenon DEF Scan, at
  <2> QED
    BY <2>1
<1>3. CASE at # {}
  <2> DEFINE i == CHOOSE i \in at : \A j \in at : i <= j
  <2>1. i \in at
    BY <1>1, <1>3, Least
  <2>2. Scan(c) = 256 * c[i] + c[i + 1]
    BY <1>3 DEF Scan, at
  <2> HIDE DEF i
  <2>3. 256 * c[i] + c[i + 1] \in Found
    BY <2>1, Zenon DEF at
  <2> QED
    BY <2>2, <2>3
<1> QED
  BY <1>2, <1>3

(* The state a driver starts with is one that every build can carry. *)
LEMMA DefaultCarried ==
  ASSUME build \in Builds, lastState = Default
  PROVE  Carried
<1>1. build.keys \in {7, 11}
  BY BuildAssumption
<1> QED
  BY <1>1 DEF Default, Carried, ValidState, TempRange

(* The same after a step that resets the session. *)
LEMMA ResetCarried ==
  ASSUME build \in Builds, UNCHANGED build, lastState' = Default
  PROVE  Carried'
<1>1. build'.keys \in {7, 11}
  BY BuildAssumption
<1> QED
  BY <1>1 DEF Default, Carried, ValidState, TempRange

-----------------------------------------------------------------------------
(* The cache *)

(* The session is used by one task, as its header asks. *)
OneThread == ~BindInCallback /\ \A t, u \in Setters : t = u

IsJob(j) == j = [state |-> j.state, key |-> j.key, frame |-> j.frame]

(* A task that is given a job has it, and the others keep theirs. *)
LEMMA JobGiven ==
  ASSUME Shape, NEW t \in Tasks, NEW j, IsJob(j), job' = [job EXCEPT ![t] = j]
  PROVE  Shape' /\ job'[t] = j /\ \A u \in Tasks : u # t => job'[u] = job[u]
<1>1. job'[t] = j /\ \A u \in Tasks : u # t => job'[u] = job[u]
  BY DEF Shape
<1>2. job' = [u \in Tasks |-> IF u = t THEN j ELSE job[u]]
  BY DEF Shape
<1>3. \A u \in Tasks : job[u] = [state |-> job[u].state, key |-> job[u].key, frame |-> job[u].frame]
  BY DEF Shape
<1>4. Shape'
  BY <1>1, <1>2, <1>3 DEF Shape, IsJob
<1> QED
  BY <1>1, <1>4

(* An idle task has a job of the same shape. *)
LEMMA NothingIsJob == IsJob(Nothing)
BY DEF IsJob, Nothing

(* What JobInv says of one task *)
JobOf(t) ==
  /\ pc[t] = "based" => t \in Setters /\ job[t].key
  /\ pc[t] \in {"send", "write", "sent"} /\ job[t].key =>
       t \in Setters /\ Sendable(job[t].state, build)
  /\ pc[t] \in {"send", "write"} /\ job[t].key =>
       job[t].frame = AcState(group, job[t].state, build)
  /\ pc[t] = "write" => wire = job[t].frame
  /\ pc[t] = "sent" => job[t].key /\ sent = [group |-> group, state |-> job[t].state]

(* JobInv, task by task *)
LEMMA JobParts == JobInv <=> Shape /\ \A t \in Tasks : JobOf(t)
BY DEF JobInv, Shape, JobOf

(* At power-on nothing is cached and nothing was sent. *)
LEMMA CacheInit == Init => CacheInv
<1> SUFFICES ASSUME Init PROVE CacheInv
  OBVIOUS
<1>1. WriterInv /\ build \in Builds
  BY WriterInit DEF Init
<1>2. Shape /\ \A t \in Tasks : JobOf(t)
  BY DEF Init, Shape, JobOf, Nothing
<1>3. TypeOK
  BY <1>1, DefaultCarried, TaskAssumption, Groups DEF Init, TypeOK, DriverTyped, GroupsTyped, WriterInv
<1> QED
  BY <1>1, <1>2, <1>3, JobParts DEF CacheInv, CacheIsLastSent, Init

(* The conjuncts of the invariant *)
LEMMA CacheParts ==
  CacheInv <=> /\ build \in Builds /\ WriterInv /\ Shape /\ \A t \in Tasks : JobOf(t)
               /\ TypeOK
               /\ hasState /\ (\A t \in Setters : pc[t] # "sent")
                    => sent = [group |-> group, state |-> lastState]
BY JobParts DEF CacheInv, CacheIsLastSent

(* Its conjuncts after a step make it hold after the step. *)
LEMMA CacheGathered ==
  ASSUME CacheInv, WriterInv', UNCHANGED build, Shape', \A t \in Tasks : JobOf(t)', TypeOK',
         hasState' /\ (\A t \in Setters : pc'[t] # "sent")
           => sent' = [group |-> group', state |-> lastState']
  PROVE  CacheInv'
<1>1. JobInv'
  BY JobParts DEF JobInv, Shape, JobOf
<1> QED
  BY <1>1 DEF CacheInv, CacheIsLastSent

(* Steps that leave the groups alone *)
LEMMA GroupsStill ==
  ASSUME TypeOK, UNCHANGED <<group, matched>>
  PROVE  GroupsTyped'
BY DEF TypeOK, GroupsTyped

(* ... the cached state *)
LEMMA CarriedStill ==
  ASSUME TypeOK, UNCHANGED <<build, lastState>>
  PROVE  Carried'
BY DEF TypeOK, Carried

(* ... the readers, with what is known of the mutex *)
LEMMA DriverStill ==
  ASSUME TypeOK, WriterInv', UNCHANGED readers
  PROVE  DriverTyped' /\ pc' \in [Tasks -> Place]
BY DEF TypeOK, DriverTyped, WriterInv

(* Session and reader have their types while they are left alone. *)
LEMMA TypesStill ==
  ASSUME TypeOK, WriterInv', UNCHANGED <<build, readers, group, lastState, matched>>
  PROVE  TypeOK'
<1>1. DriverTyped' /\ pc' \in [Tasks -> Place] /\ GroupsTyped' /\ Carried'
  BY GroupsStill, CarriedStill, DriverStill
<1> QED
  BY <1>1 DEF TypeOK

(* Steps that leave session, wire and record alone: what is left to show of them *)
LEMMA SessionStill ==
  ASSUME CacheInv, WriterInv', Shape', \A u \in Tasks : JobOf(u)',
         UNCHANGED <<build, readers, group, hasState, lastState, matched, sent>>,
         \A u \in Tasks : pc'[u] # "sent" => pc[u] # "sent"
  PROVE  CacheInv'
<1>1. TypeOK'
  BY TypesStill DEF CacheInv, CacheIsLastSent
<1>2. JobInv'
  BY JobParts DEF JobInv, Shape, JobOf
<1>3. Setters \subseteq Tasks
  BY DEF Tasks
<1> QED
  BY <1>1, <1>2, <1>3 DEF CacheInv, CacheIsLastSent

(* A state is built from the cache, and its frame for the group bound now. *)
LEMMA ReadKeeps ==
  ASSUME CacheInv, WriterInv', NEW t \in Tasks, ReadBase(t)
  PROVE  CacheInv'
<1>1. /\ pc[t] = "idle" /\ t \in Setters /\ Goto(t, "based")
      /\ UNCHANGED <<build, driver, session, table, reader, wire, sent>>
  BY DEF ReadBase, Resting
<1>2. PICK st : job' = [job EXCEPT ![t] = [state |-> st, key |-> TRUE, frame |-> <<>>]]
  BY DEF ReadBase
<1>3. pc'[t] = "based" /\ \A u \in Tasks : u # t => pc'[u] = pc[u]
  BY <1>1, Moved DEF CacheInv, WriterInv, Place
<1>4. Shape' /\ job'[t].key = TRUE /\ \A u \in Tasks : u # t => job'[u] = job[u]
  <2> DEFINE j == [state |-> st, key |-> TRUE, frame |-> <<>>]
  <2>1. IsJob(j) /\ j.key = TRUE
    BY DEF IsJob
  <2>2. job' = [job EXCEPT ![t] = j]
    BY <1>2
  <2> HIDE DEF j
  <2> QED
    BY <2>1, <2>2, JobGiven, JobParts DEF CacheInv
<1>5. \A u \in Tasks : JobOf(u)'
  BY <1>1, <1>3, <1>4, JobParts DEF CacheInv, JobOf, session
<1> QED
  BY <1>1, <1>3, <1>4, <1>5, SessionStill DEF driver, session, reader

(* A frame is built for the group bound now, and a state that cannot be sent is refused. *)
LEMMA BuildKeeps ==
  ASSUME CacheInv, WriterInv', NEW t \in Tasks, BuildState(t)
  PROVE  CacheInv'
<1>1. pc[t] = "based" /\ UNCHANGED <<build, driver, session, table, reader, wire, sent>>
  BY DEF BuildState
<1>2. t \in Setters /\ job[t].key /\ Shape /\ \A u \in Tasks : JobOf(u)
  BY <1>1, JobParts DEF CacheInv, JobOf
<1>3. CASE Sendable(job[t].state, build)
  <2> DEFINE f == AcState(group, job[t].state, build)
  <2>1. Goto(t, "send") /\ job' = [job EXCEPT ![t].frame = f]
    BY <1>3 DEF BuildState
  <2>2. pc'[t] = "send" /\ \A u \in Tasks : u # t => pc'[u] = pc[u]
    BY <2>1, Moved DEF CacheInv, WriterInv, Place
  <2> HIDE DEF f
  <2> DEFINE j == [job[t] EXCEPT !.frame = f]
  <2>3. IsJob(j) /\ j.key = job[t].key /\ j.state = job[t].state /\ j.frame = f
    <3>1. job[t] = [state |-> job[t].state, key |-> job[t].key, frame |-> job[t].frame]
      BY <1>2 DEF Shape
    <3> QED
      BY <3>1 DEF IsJob
  <2>6. job' = [job EXCEPT ![t] = j]
    BY <2>1
  <2> HIDE DEF j
  <2>4. /\ Shape' /\ job'[t].key = job[t].key /\ job'[t].state = job[t].state /\ job'[t].frame = f
        /\ \A u \in Tasks : u # t => job'[u] = job[u]
    BY <1>2, <2>3, <2>6, JobGiven
  <2>5. \A u \in Tasks : JobOf(u)'
    BY <1>1, <1>2, <1>3, <2>2, <2>4 DEF JobOf, session, f
  <2> QED
    BY <1>1, <2>2, <2>4, <2>5, SessionStill DEF driver, session, reader
<1>4. CASE ~Sendable(job[t].state, build)
  <2>1. Back(t)
    BY <1>4 DEF BuildState
  <2>2. pc'[t] = "idle" /\ \A u \in Tasks : u # t => pc'[u] = pc[u]
    BY <2>1, Moved DEF CacheInv, WriterInv, Place, Back
  <2>3. Shape' /\ \A u \in Tasks : u # t => job'[u] = job[u]
    BY <1>2, <2>1, NothingIsJob, JobGiven DEF Back
  <2>4. \A u \in Tasks : JobOf(u)'
    BY <1>1, <1>2, <2>2, <2>3 DEF JobOf, session
  <2> QED
    BY <1>1, <2>2, <2>3, <2>4, SessionStill DEF driver, session, reader
<1> QED
  BY <1>3, <1>4

(* A frame without a state is no business of the cache. *)
LEMMA PlainKeeps ==
  ASSUME CacheInv, WriterInv', NEW t \in Tasks, SendPlain(t)
  PROVE  CacheInv'
<1>1. /\ pc[t] = "idle" /\ Goto(t, "send")
      /\ UNCHANGED <<build, driver, session, table, matched, wire, sent>>
  BY DEF SendPlain, Resting
<1>2. PICK f : job' = [job EXCEPT ![t] = [state |-> Default, key |-> FALSE, frame |-> f]]
  BY DEF SendPlain, Nothing
<1>3. pc'[t] = "send" /\ \A u \in Tasks : u # t => pc'[u] = pc[u]
  BY <1>1, Moved DEF CacheInv, WriterInv, Place
<1>4. Shape' /\ job'[t].key = FALSE /\ \A u \in Tasks : u # t => job'[u] = job[u]
  <2> DEFINE j == [state |-> Default, key |-> FALSE, frame |-> f]
  <2>1. IsJob(j) /\ j.key = FALSE
    BY DEF IsJob
  <2>2. job' = [job EXCEPT ![t] = j]
    BY <1>2
  <2> HIDE DEF j
  <2> QED
    BY <2>1, <2>2, JobGiven, JobParts DEF CacheInv
<1>5. \A u \in Tasks : JobOf(u)'
  BY <1>1, <1>3, <1>4, JobParts DEF CacheInv, JobOf, session
<1> QED
  BY <1>1, <1>3, <1>4, <1>5, SessionStill DEF driver, session

(* A send that did not get the mutex changes nothing. *)
LEMMA RefusedKeeps ==
  ASSUME CacheInv, WriterInv', NEW t \in Tasks, SendRefused(t)
  PROVE  CacheInv'
<1>1. /\ pc[t] = "send" /\ Goto(t, "idle") /\ job' = [job EXCEPT ![t] = Nothing]
      /\ UNCHANGED <<build, driver, session, table, reader, wire, sent>>
  BY DEF SendRefused, Back
<1>2. pc'[t] = "idle" /\ \A u \in Tasks : u # t => pc'[u] = pc[u]
  BY <1>1, Moved DEF CacheInv, WriterInv, Place
<1>3. Shape' /\ \A u \in Tasks : u # t => job'[u] = job[u]
  BY <1>1, NothingIsJob, JobGiven, JobParts DEF CacheInv
<1>4. \A u \in Tasks : JobOf(u)'
  BY <1>1, <1>2, <1>3, JobParts DEF CacheInv, JobOf, session
<1> QED
  BY <1>1, <1>2, <1>3, <1>4, SessionStill DEF driver, session, reader

(* The writer's frame is on the wire, and no other frame. *)
LEMMA TakeCacheKeeps ==
  ASSUME CacheInv, WriterInv', NEW t \in Tasks, TakeMutex(t)
  PROVE  CacheInv'
<1>1. /\ pc[t] = "send" /\ mutex = "free" /\ Goto(t, "write") /\ wire' = job[t].frame
      /\ UNCHANGED <<build, readers, session, reader, job, sent>>
  BY DEF TakeMutex
<1>2. pc'[t] = "write" /\ \A u \in Tasks : u # t => pc'[u] = pc[u]
  BY <1>1, Moved DEF CacheInv, WriterInv, Place
<1>3. \A u \in Tasks : pc[u] # "write"
  BY <1>1, NoTask DEF CacheInv, WriterInv, OneWriter
<1>4. Shape'
  BY <1>1, JobParts DEF CacheInv, Shape
<1>5. \A u \in Tasks : JobOf(u)'
  BY <1>1, <1>2, <1>3, JobParts DEF CacheInv, JobOf, session
<1> QED
  BY <1>1, <1>2, <1>4, <1>5, SessionStill DEF session, reader

(* A write that fails, and one of a frame without a state, leave the cache. *)
LEMMA FailsKeeps ==
  ASSUME CacheInv, WriterInv', NEW t \in Tasks, WriteFails(t) \/ (Written(t) /\ ~job[t].key)
  PROVE  CacheInv'
<1>1. /\ pc[t] = "write" /\ Goto(t, "idle") /\ job' = [job EXCEPT ![t] = Nothing]
      /\ UNCHANGED <<build, readers, session, reader, sent>>
  BY DEF WriteFails, Written, Back
<1>2. pc'[t] = "idle" /\ \A u \in Tasks : u # t => pc'[u] = pc[u]
  BY <1>1, Moved DEF CacheInv, WriterInv, Place
<1>3. Shape' /\ \A u \in Tasks : u # t => job'[u] = job[u]
  BY <1>1, NothingIsJob, JobGiven, JobParts DEF CacheInv
<1>4. \A u \in Tasks : u # t => pc[u] # "write"
  BY <1>1 DEF CacheInv, WriterInv, OneWriter
<1>5. \A u \in Tasks : JobOf(u)'
  BY <1>1, <1>2, <1>3, <1>4, JobParts DEF CacheInv, JobOf, session
<1> QED
  BY <1>1, <1>2, <1>3, <1>5, SessionStill DEF session, reader

(* A state that was written is what the chip has, for the group bound now. *)
LEMMA WrittenKeeps ==
  ASSUME OneThread, CacheInv, WriterInv', NEW t \in Tasks, Written(t), job[t].key
  PROVE  CacheInv'
<1>1. /\ pc[t] = "write" /\ Goto(t, "sent") /\ job' = job
      /\ UNCHANGED <<build, readers, session, reader>>
      /\ sent' = [group |-> 256 * wire[3] + wire[4], state |-> job[t].state]
  BY DEF Written
<1>2. pc'[t] = "sent" /\ \A u \in Tasks : u # t => pc'[u] = pc[u]
  BY <1>1, Moved DEF CacheInv, WriterInv, Place
<1>3. Shape /\ \A u \in Tasks : JobOf(u)
  BY JobParts DEF CacheInv
<1>4. t \in Setters /\ Sendable(job[t].state, build) /\ wire = AcState(group, job[t].state, build)
  BY <1>1, <1>3 DEF JobOf
<1>5. sent' = [group |-> group, state |-> job[t].state]
  <2>1. build \in Builds /\ TypeOK
    BY CacheParts
  <2>2. group \in Group
    BY <2>1 DEF TypeOK, GroupsTyped
  <2> DEFINE st == job[t].state
  <2>3. Sendable(st, build) /\ wire = AcState(group, st, build)
    BY <1>4
  <2>4. sent' = [group |-> 256 * wire[3] + wire[4], state |-> st]
    BY <1>1
  <2> HIDE DEF st
  <2>5. 256 * wire[3] + wire[4] = group
    <3>1. Carries(AcState(group, st, build), group, st, build)
      BY <2>1, <2>2, <2>3, StateCarried
    <3> QED
      BY <2>3, <3>1 DEF Carries
  <2>6. sent' = [group |-> group, state |-> st]
    BY <2>4, <2>5
  <2> QED
    BY <2>6 DEF st
<1>6. \A u \in Tasks : u # t => pc[u] # "write" /\ pc[u] # "sent"
  <2>1. \A u \in Tasks : u # t => pc[u] # "write"
    BY <1>1 DEF CacheInv, WriterInv, OneWriter
  <2>2. \A u \in Tasks : pc[u] = "sent" => u \in Setters
    BY <1>3 DEF JobOf
  <2> QED
    BY <1>4, <2>1, <2>2 DEF OneThread
<1>7. \A u \in Tasks : JobOf(u)'
  BY <1>1, <1>2, <1>3, <1>4, <1>5, <1>6 DEF JobOf, session
<1>8. TypeOK'
  <2>1. TypeOK
    BY CacheParts
  <2> QED
    BY <1>1, <2>1, TypesStill DEF session, reader
<1>9. JobInv'
  BY <1>1, <1>3, <1>7, JobParts DEF JobInv, Shape, JobOf
<1> QED
  BY <1>1, <1>2, <1>4, <1>8, <1>9 DEF CacheInv, CacheIsLastSent

(* The cache is committed to what the chip has. *)
LEMMA CommitKeeps ==
  ASSUME CacheInv, WriterInv', NEW t \in Tasks, Commit(t)
  PROVE  CacheInv'
<1>1. /\ pc[t] = "sent" /\ Goto(t, "idle") /\ job' = [job EXCEPT ![t] = Nothing]
      /\ lastState' = job[t].state
      /\ UNCHANGED <<build, mutex, readers, group, reader, wire, sent>>
  BY DEF Commit, Back, driver
<1>2. pc'[t] = "idle" /\ \A u \in Tasks : u # t => pc'[u] = pc[u]
  BY <1>1, Moved DEF CacheInv, WriterInv, Place
<1>3. Shape' /\ \A u \in Tasks : u # t => job'[u] = job[u]
  BY <1>1, NothingIsJob, JobGiven, JobParts DEF CacheInv
<1>4. Sendable(job[t].state, build) /\ sent = [group |-> group, state |-> job[t].state]
  BY <1>1, JobParts DEF CacheInv, JobOf
<1>5. \A u \in Tasks : JobOf(u)'
  BY <1>1, <1>2, <1>3, JobParts DEF CacheInv, JobOf
<1>6. TypeOK'
  <2>0. TypeOK
    BY CacheParts
  <2>1. DriverTyped' /\ pc' \in [Tasks -> Place]
    BY <1>1, <2>0, DriverStill
  <2>2. GroupsTyped'
    BY <1>1, <2>0, GroupsStill DEF reader
  <2>3. Carried'
    BY <1>1, <1>4 DEF Sendable, Carried
  <2> QED
    BY <2>1, <2>2, <2>3 DEF TypeOK
<1>7. JobInv'
  BY <1>3, <1>5, JobParts DEF JobInv, Shape, JobOf
<1> QED
  BY <1>1, <1>4, <1>6, <1>7 DEF CacheInv, CacheIsLastSent

(* A driver that starts knows no state. *)
LEMMA StartKeeps ==
  ASSUME CacheInv, WriterInv', InitDriver
  PROVE  CacheInv'
<1>1. /\ \A t \in Tasks : pc[t] = "idle"
      /\ group' = 0 /\ hasState' = FALSE /\ lastState' = Default
      /\ readers' \in {readers, readers + 1} /\ (readers' # readers => readers' <= MaxReaders)
      /\ UNCHANGED <<build, reader, pc, job, wire>>
  BY DEF InitDriver, Quiet
<1>2. Shape' /\ \A t \in Tasks : JobOf(t)'
  BY <1>1, CacheParts DEF Shape, JobOf
<1>3. TypeOK'
  <2>1. DriverTyped'
    BY <1>1, CacheParts, TaskAssumption DEF TypeOK, DriverTyped, WriterInv
  <2>2. GroupsTyped'
    BY <1>1, CacheParts, Groups DEF TypeOK, GroupsTyped, reader
  <2>3. Carried'
    BY <1>1, CacheParts, ResetCarried
  <2> QED
    BY <1>1, <2>1, <2>2, <2>3, CacheParts DEF TypeOK
<1> QED
  BY <1>1, <1>2, <1>3, CacheGathered

(* A shutdown finds no send under way and leaves the cache. *)
LEMMA ShutdownKeeps ==
  ASSUME CacheInv, WriterInv', NEW t \in Tasks, DeinitBegins(t) \/ DeinitEnds(t)
  PROVE  CacheInv'
<1>1. PICK l \in {"deinit", "idle"} :
        /\ Goto(t, l) /\ pc[t] # "sent"
        /\ UNCHANGED <<build, readers, session, reader, job, wire, sent>>
  BY DEF DeinitBegins, DeinitEnds, Quiet
<1>2. pc'[t] = l /\ \A u \in Tasks : u # t => pc'[u] = pc[u]
  BY <1>1, Moved DEF CacheInv, WriterInv, Place
<1>3. Shape' /\ \A u \in Tasks : JobOf(u)'
  BY <1>1, <1>2, CacheParts DEF Shape, JobOf, session
<1> QED
  BY <1>1, <1>2, <1>3, SessionStill DEF session, reader

(* A bound group has no state, and no frame for the group before is under way: the
   one task that uses the session is the one that binds.                           *)
LEMMA BindKeeps ==
  ASSUME OneThread, CacheInv, WriterInv', NEW t \in Tasks, BindGroup(t)
  PROVE  CacheInv'
<1>1. /\ t \in Setters /\ pc[t] = "idle"
      /\ UNCHANGED <<build, driver, reader, pc, job, wire, sent>>
      /\ \E g \in {matched} \cup AcGroups : g # 0 /\ Bind(g)
  BY DEF BindGroup, Resting
<1>2. hasState' = FALSE /\ lastState' = Default /\ group' \in {matched} \cup AcGroups /\ group' # 0
  BY <1>1 DEF Bind
<1>3. \A u \in Tasks : JobOf(u)'
  BY <1>1, CacheParts DEF JobOf, OneThread
<1>4. TypeOK'
  <2>0. TypeOK
    BY CacheParts
  <2>1. DriverTyped' /\ pc' \in [Tasks -> Place]
    BY <1>1, <2>0, DriverStill DEF driver
  <2>2. GroupsTyped'
    BY <1>1, <1>2, <2>0, Groups, IndexAssumption DEF TypeOK, GroupsTyped, reader
  <2>3. Carried'
    BY <1>1, <1>2, CacheParts, ResetCarried
  <2> QED
    BY <2>1, <2>2, <2>3 DEF TypeOK
<1>5. Shape'
  BY <1>1, CacheParts DEF Shape
<1> QED
  BY <1>1, <1>2, <1>3, <1>4, <1>5, CacheGathered

(* A match is a message: the reader leaves the session to its task. *)
LEMMA ReceiveKeeps ==
  ASSUME OneThread, CacheInv, WriterInv', NEW c \in Chunks, Receive(c)
  PROVE  CacheInv'
<1>1. matched' = Scan(c) /\ UNCHANGED <<build, driver, session, pc, job, wire, sent>>
  BY DEF Receive, OneThread
<1>2. Shape' /\ \A u \in Tasks : JobOf(u)'
  BY <1>1, CacheParts DEF Shape, JobOf, session
<1>3. TypeOK'
  <2>0. TypeOK
    BY CacheParts
  <2>1. DriverTyped' /\ pc' \in [Tasks -> Place]
    BY <1>1, <2>0, DriverStill DEF driver
  <2>2. GroupsTyped'
    BY <1>1, <2>0, ScanTyped DEF TypeOK, GroupsTyped, session
  <2>3. Carried'
    BY <1>1, <2>0, CarriedStill DEF session
  <2> QED
    BY <2>1, <2>2, <2>3 DEF TypeOK
<1> QED
  BY <1>1, <1>2, <1>3, CacheParts, CacheGathered DEF session

(* A reader that ends leaves the session. *)
LEMMA ReaderKeeps ==
  ASSUME CacheInv, WriterInv', ReaderEnds
  PROVE  CacheInv'
<1>1. readers > 0 /\ readers' = readers - 1 /\ UNCHANGED <<build, mutex, session, reader, pc, job, wire, sent>>
  BY DEF ReaderEnds
<1>2. Shape' /\ \A u \in Tasks : JobOf(u)'
  BY <1>1, CacheParts DEF Shape, JobOf, session
<1>3. TypeOK'
  <2>0. TypeOK
    BY CacheParts
  <2>1. DriverTyped'
    BY <1>1, <2>0, TaskAssumption DEF TypeOK, DriverTyped
  <2>2. GroupsTyped' /\ Carried'
    BY <1>1, <2>0, GroupsStill, CarriedStill DEF session, reader
  <2> QED
    BY <1>1, <2>0, <2>1, <2>2 DEF TypeOK
<1> QED
  BY <1>1, <1>2, <1>3, CacheParts, CacheGathered DEF session

(* Every step keeps what the cache is proved from. *)
LEMMA CacheStep ==
  ASSUME OneThread, CacheInv, [Next]_vars
  PROVE  CacheInv'
<1>1. WriterInv'
  BY WriterStep DEF CacheInv
<1>2. CASE RegisterTable \/ UNCHANGED vars
  <2>1. UNCHANGED <<build, readers, group, hasState, lastState, matched, sent, pc, job, wire>>
    BY <1>2 DEF RegisterTable, vars, driver, session, reader
  <2>2. Shape' /\ \A u \in Tasks : JobOf(u)'
    BY <2>1, CacheParts DEF Shape, JobOf
  <2> QED
    BY <1>1, <2>1, <2>2, SessionStill
<1>3. ASSUME NEW t \in Tasks, Send(t)
      PROVE  CacheInv'
  BY <1>1, <1>3, BuildKeeps, RefusedKeeps, TakeCacheKeeps, FailsKeeps, WrittenKeeps, CommitKeeps,
     ShutdownKeeps DEF Send
<1>4. ASSUME NEW t \in Tasks, Call(t)
      PROVE  CacheInv'
  BY <1>1, <1>4, ShutdownKeeps, BindKeeps, ReadKeeps, PlainKeeps DEF Call
<1>5. CASE InitDriver \/ ReaderEnds \/ \E c \in Chunks : Receive(c)
  BY <1>1, <1>5, StartKeeps, ReaderKeeps, ReceiveKeeps
<1> QED
  BY <1>2, <1>3, <1>4, <1>5 DEF Next

(* With the session used by one task, as hxd019_session.h:11 asks, the cached state is
   the last one sent to the group that is bound, whatever other frames other tasks send
   and whatever fails; and one that the build's format can carry.                      *)
THEOREM CacheIsLastSentAlways ==
  ASSUME OneThread
  PROVE  Spec => []CacheIsLastSent
<1>1. CacheInv /\ [Next]_vars => CacheInv'
  BY CacheStep
<1>2. CacheInv => CacheIsLastSent
  BY DEF CacheInv
<1> QED
  BY <1>1, <1>2, CacheInit, PTL DEF Spec

-----------------------------------------------------------------------------
(* The frames that are sent, whoever uses the session *)

(* At power-on no frame is under way. *)
LEMMA FrameInit == Init => FrameInv
<1> SUFFICES ASSUME Init PROVE FrameInv
  OBVIOUS
<1>1. WriterInv /\ build \in Builds
  BY WriterInit DEF Init
<1>2. Shape /\ GroupsTyped
  BY Groups DEF Init, Shape, Nothing, GroupsTyped
<1> QED
  BY <1>1, <1>2 DEF FrameInv, Init

(* A task that moves, to anywhere but the write, has the frame it was given. *)
LEMMA FrameMoves ==
  ASSUME FrameInv, WriterInv', NEW t \in Tasks, NEW l \in Place \ {"write"}, Goto(t, l),
         NEW j, IsJob(j), job' = [job EXCEPT ![t] = j], l = "send" => WellFormed(j.frame),
         UNCHANGED <<build, group, matched, table>>, pc[t] # "write" => UNCHANGED wire
  PROVE  FrameInv'
<1>1. pc'[t] = l /\ \A u \in Tasks : u # t => pc'[u] = pc[u]
  BY Moved DEF FrameInv, WriterInv
<1>2. Shape' /\ job'[t] = j /\ \A u \in Tasks : u # t => job'[u] = job[u]
  BY JobGiven DEF FrameInv
<1>3. GroupsTyped'
  BY DEF FrameInv, GroupsTyped
<1>4. ASSUME NEW u \in Tasks
      PROVE  /\ pc'[u] \in {"send", "write"} => WellFormed(job'[u].frame)
             /\ pc'[u] = "write" => wire' = job'[u].frame
  <2>1. CASE u = t
    BY <1>1, <1>2, <2>1
  <2>2. CASE u # t
    <3>1. pc[u] = "write" => pc[t] # "write"
      BY <2>2 DEF FrameInv, WriterInv, OneWriter
    <3> QED
      BY <1>1, <1>2, <2>2, <3>1 DEF FrameInv
  <2> QED
    BY <2>1, <2>2
<1> QED
  BY <1>2, <1>3, <1>4 DEF FrameInv

(* Steps that move no task leave the frames. *)
LEMMA FrameStays ==
  ASSUME FrameInv, WriterInv', UNCHANGED <<build, pc, job, wire>>, GroupsTyped',
         table' \in {table, Table}
  PROVE  FrameInv'
<1>1. Shape'
  BY DEF FrameInv, Shape
<1> QED
  BY <1>1 DEF FrameInv

(* A job that is left is a job. *)
LEMMA JobLeft ==
  ASSUME Shape, NEW t \in Tasks, UNCHANGED job
  PROVE  IsJob(job[t]) /\ job' = [job EXCEPT ![t] = job[t]]
BY DEF Shape, IsJob

(* The frame a call starts with: one without a state is of a group, a code, or fixed. *)
LEMMA PlainTaken ==
  ASSUME FrameInv
  PROVE  \A f \in PlainFrames : WellFormed(f)
<1>1. group \in Group
  BY DEF FrameInv, GroupsTyped
<1>2. ASSUME NEW i \in DOMAIN table PROVE WellFormed(Av(table[i]))
  <2> DEFINE E == [fmt : Byte, key : Byte \X Byte, com : Byte \X Byte \X Byte \X Byte]
  <2>1. Table \in Seq(E)
    BY TableAssumption
  <2> HIDE DEF E
  <2>2. table = Table
    BY <1>2 DEF FrameInv
  <2>3. table[i] \in E
    BY <1>2, <2>1, <2>2, ElementOfSeq, LenProperties
  <2> QED
    BY <2>3, AvTaken DEF E
<1> QED
  BY <1>1, <1>2, SimpleTaken, FixedTaken DEF PlainFrames

(* The steps of a call, its write included *)
LEMMA FrameCalls ==
  ASSUME FrameInv, WriterInv', NEW t \in Tasks,
         \/ ReadBase(t) \/ BuildState(t) \/ SendPlain(t) \/ SendRefused(t)
         \/ WriteFails(t) \/ Written(t) \/ Commit(t) \/ DeinitBegins(t) \/ DeinitEnds(t)
  PROVE  FrameInv'
<1>0. Shape /\ build \in Builds /\ group \in Group
  BY DEF FrameInv, GroupsTyped
<1>1. CASE ReadBase(t)
  <2>1. PICK st : job' = [job EXCEPT ![t] = [state |-> st, key |-> TRUE, frame |-> <<>>]]
    BY <1>1 DEF ReadBase
  <2> DEFINE j == [state |-> st, key |-> TRUE, frame |-> <<>>]
  <2>2. IsJob(j) /\ job' = [job EXCEPT ![t] = j]
    BY <2>1 DEF IsJob
  <2> HIDE DEF j
  <2>3. /\ Goto(t, "based") /\ UNCHANGED <<build, group, matched, table, wire>>
        /\ "based" \in Place \ {"write"}
    BY <1>1 DEF ReadBase, session, reader, Place
  <2> QED
    BY <2>2, <2>3, FrameMoves
<1>2. CASE BuildState(t)
  <2>1. pc[t] = "based" /\ UNCHANGED <<build, group, matched, table, wire>>
    BY <1>2 DEF BuildState, session, reader
  <2>2. CASE Sendable(job[t].state, build)
    <3> DEFINE f == AcState(group, job[t].state, build)
               j == [job[t] EXCEPT !.frame = f]
    <3>1. Goto(t, "send") /\ job' = [job EXCEPT ![t].frame = f]
      BY <1>2, <2>2 DEF BuildState
    <3>2. WellFormed(f)
      <4> DEFINE st == job[t].state
      <4> HIDE DEF st
      <4>1. Carries(AcState(group, st, build), group, st, build)
        BY <1>0, <2>2, StateCarried DEF st
      <4> QED
        BY <4>1 DEF Carries, st
    <3> HIDE DEF f
    <3>3. IsJob(j) /\ j.frame = f
      <4>1. job[t] = [state |-> job[t].state, key |-> job[t].key, frame |-> job[t].frame]
        BY <1>0 DEF Shape
      <4> QED
        BY <4>1 DEF IsJob
    <3>4. job' = [job EXCEPT ![t] = j]
      BY <3>1
    <3> HIDE DEF j
    <3> QED
      BY <2>1, <3>1, <3>2, <3>3, <3>4, FrameMoves DEF Place
  <2>3. CASE ~Sendable(job[t].state, build)
    BY <1>2, <2>1, <2>3, NothingIsJob, FrameMoves DEF BuildState, Back, Place
  <2> QED
    BY <2>2, <2>3
<1>3. CASE SendPlain(t)
  <2>1. PICK f \in PlainFrames :
          job' = [job EXCEPT ![t] = [state |-> Default, key |-> FALSE, frame |-> f]]
    BY <1>3 DEF SendPlain, Nothing
  <2> DEFINE j == [state |-> Default, key |-> FALSE, frame |-> f]
  <2>2. IsJob(j) /\ j.frame = f /\ job' = [job EXCEPT ![t] = j]
    BY <2>1 DEF IsJob
  <2> HIDE DEF j
  <2>3. WellFormed(j.frame)
    BY <2>2, PlainTaken
  <2> QED
    BY <1>3, <2>2, <2>3, FrameMoves DEF SendPlain, session, Place
<1>4. CASE SendRefused(t) \/ WriteFails(t) \/ Commit(t)
  <2>1. /\ Goto(t, "idle") /\ job' = [job EXCEPT ![t] = Nothing]
        /\ UNCHANGED <<build, group, matched, table>> /\ (pc[t] # "write" => UNCHANGED wire)
    BY <1>4 DEF SendRefused, WriteFails, Commit, Back, session, reader
  <2>2. "idle" \in Place \ {"write"}
    BY DEF Place
  <2> QED
    BY <2>1, <2>2, NothingIsJob, FrameMoves
<1>5. CASE Written(t)
  <2>1. pc[t] = "write" /\ UNCHANGED <<build, group, matched, table>>
    BY <1>5 DEF Written, session, reader
  <2>2. CASE job[t].key
    <3>1. Goto(t, "sent") /\ UNCHANGED job
      BY <1>5, <2>2 DEF Written
    <3> QED
      BY <1>0, <2>1, <3>1, JobLeft, FrameMoves DEF Place
  <2>3. CASE ~job[t].key
    BY <1>5, <2>1, <2>3, NothingIsJob, FrameMoves DEF Written, Back, Place
  <2> QED
    BY <2>2, <2>3
<1>6. CASE DeinitBegins(t) \/ DeinitEnds(t)
  <2>1. PICK l \in {"deinit", "idle"} : Goto(t, l) /\ UNCHANGED <<build, group, matched, table, job, wire>>
    BY <1>6 DEF DeinitBegins, DeinitEnds, session, reader
  <2> QED
    BY <1>0, <2>1, JobLeft, FrameMoves DEF Place
<1> QED
  BY <1>1, <1>2, <1>3, <1>4, <1>5, <1>6

(* The frame of the task that takes the mutex goes to the wire, where there is no other. *)
LEMMA FrameTaken ==
  ASSUME FrameInv, WriterInv', NEW t \in Tasks, TakeMutex(t)
  PROVE  FrameInv'
<1>1. /\ pc[t] = "send" /\ mutex = "free" /\ Goto(t, "write") /\ wire' = job[t].frame
      /\ UNCHANGED <<build, group, matched, table, job>>
  BY DEF TakeMutex, session, reader
<1>2. pc'[t] = "write" /\ \A u \in Tasks : u # t => pc'[u] = pc[u]
  BY <1>1, Moved DEF FrameInv, WriterInv, Place
<1>3. \A u \in Tasks : pc[u] # "write"
  BY <1>1, NoTask DEF FrameInv, WriterInv, OneWriter
<1>4. Shape' /\ GroupsTyped'
  BY <1>1 DEF FrameInv, Shape, GroupsTyped
<1> QED
  BY <1>1, <1>2, <1>3, <1>4 DEF FrameInv

(* Every step keeps the frames well formed, whoever uses the session. *)
LEMMA FrameStep ==
  ASSUME FrameInv, [Next]_vars
  PROVE  FrameInv'
<1>1. WriterInv' /\ GroupsTyped
  BY WriterStep DEF FrameInv
<1>2. ASSUME NEW t \in Tasks, Send(t) PROVE FrameInv'
  BY <1>1, <1>2, FrameCalls, FrameTaken DEF Send
<1>3. ASSUME NEW t \in Tasks, BindGroup(t) PROVE FrameInv'
  <2>1. /\ UNCHANGED <<build, pc, job, wire, matched, table>>
        /\ group' \in {matched} \cup AcGroups
    BY <1>3 DEF BindGroup, Bind, reader
  <2>2. GroupsTyped'
    BY <1>1, <2>1, Groups, IndexAssumption DEF GroupsTyped
  <2> QED
    BY <1>1, <2>1, <2>2, FrameStays
<1>4. ASSUME NEW t \in Tasks, Call(t) PROVE FrameInv'
  BY <1>1, <1>3, <1>4, FrameCalls DEF Call
<1>5. CASE InitDriver
  <2>1. UNCHANGED <<build, pc, job, wire, matched, table>> /\ group' = 0
    BY <1>5 DEF InitDriver, reader
  <2>2. GroupsTyped'
    BY <1>1, <2>1, Groups DEF GroupsTyped
  <2> QED
    BY <1>1, <2>1, <2>2, FrameStays
<1>6. ASSUME NEW c \in Chunks, Receive(c) PROVE FrameInv'
  <2>1. /\ UNCHANGED <<build, pc, job, wire, table>> /\ matched' = Scan(c)
        /\ group' \in {group, matched'}
    BY <1>6 DEF Receive, Bind, session
  <2>2. GroupsTyped'
    BY <1>1, <2>1, ScanTyped, Groups DEF GroupsTyped
  <2> QED
    BY <1>1, <2>1, <2>2, FrameStays
<1>7. CASE RegisterTable \/ ReaderEnds \/ UNCHANGED vars
  <2>1. UNCHANGED <<build, pc, job, wire, group, matched>> /\ table' \in {table, Table}
    BY <1>7 DEF RegisterTable, ReaderEnds, vars, session, reader
  <2>2. GroupsTyped'
    BY <1>1, <2>1 DEF GroupsTyped
  <2> QED
    BY <1>1, <2>1, <2>2, FrameStays
<1> QED
  BY <1>2, <1>4, <1>5, <1>6, <1>7 DEF Next

(* Every frame on the wire is one the chip takes, for any number of tasks that set
   states and any use of the session: bytes, the length of its header, the right sum. *)
THEOREM EveryFrameTaken == Spec => [](\A t \in Tasks : pc[t] = "write" => WellFormed(wire))
<1>1. FrameInv /\ [Next]_vars => FrameInv'
  BY FrameStep
<1>2. FrameInv => \A t \in Tasks : pc[t] = "write" => WellFormed(wire)
  BY DEF FrameInv
<1> QED
  BY <1>1, <1>2, FrameInit, PTL DEF Spec

(* With the session used by one task, a state's frame also carries, to the group that is
   bound, the very state that is committed if the write succeeds.                       *)
THEOREM WireIsRightAlways ==
  ASSUME OneThread
  PROVE  Spec => []WireIsRight
<1>1. CacheInv /\ [Next]_vars => CacheInv'
  BY CacheStep
<1>2. FrameInv /\ [Next]_vars => FrameInv'
  BY FrameStep
<1>3. ASSUME CacheInv, FrameInv PROVE WireIsRight
  <2> SUFFICES ASSUME NEW t \in Tasks, pc[t] = "write"
               PROVE  WellFormed(wire) /\ (job[t].key => Carries(wire, group, job[t].state, build))
    BY DEF WireIsRight
  <2>1. WellFormed(wire)
    BY <1>3 DEF FrameInv
  <2>2. ASSUME job[t].key PROVE Carries(wire, group, job[t].state, build)
    <3> DEFINE st == job[t].state
    <3>1. Sendable(st, build) /\ wire = AcState(group, st, build)
      BY <1>3, <2>2, CacheParts DEF JobOf
    <3>2. build \in Builds /\ group \in Group
      BY <1>3 DEF FrameInv, GroupsTyped
    <3> HIDE DEF st
    <3>3. Carries(wire, group, st, build)
      BY <3>1, <3>2, StateCarried
    <3> QED
      BY <3>3 DEF st
  <2> QED
    BY <2>1, <2>2
<1> QED
  BY <1>1, <1>2, <1>3, CacheInit, FrameInit, PTL DEF Spec
=============================================================================
