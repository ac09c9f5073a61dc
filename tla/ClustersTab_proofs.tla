-------------------------- MODULE ClustersTab_proofs --------------------------
(***************************************************************************)
(* Proofs about the clusters tab under the root model, for any clusters,   *)
(* names, search terms, users and numbers of checks and messages.          *)
(***************************************************************************)
EXTENDS ClustersTab, CommandBars_proofs, FiniteSetTheorems, SequenceTheorems,
        WellFoundedInduction

-----------------------------------------------------------------------------
(* Counting and folding.                                                   *)

LEMMA BelowWellFounded == IsWellFoundedOn({p \in Nat \X Nat : p[1] < p[2]}, Nat)
BY NatLessThanWellFounded, Zenon DEF OpToRel

(* Induction for a set of numbers: the least one left out has a            *)
(* predecessor in the set.                                                 *)
LEMMA NatSetInduction ==
  ASSUME NEW S, 0 \in S, \A n \in Nat : n \in S => n + 1 \in S
  PROVE  \A n \in Nat : n \in S
<1> DEFINE T == {n \in Nat : n \notin S}
           R == {p \in Nat \X Nat : p[1] < p[2]}
<1> SUFFICES ASSUME T # {} PROVE FALSE
  OBVIOUS
<1>1. PICK x \in T : \A y \in T : <<y, x>> \notin R
  <2> HIDE DEF R
  <2>1. IsWellFoundedOn(R, Nat)
    BY BelowWellFounded DEF R
  <2>2. T \subseteq Nat
    OBVIOUS
  <2> HIDE DEF T
  <2> QED
    BY <2>1, <2>2, WFMin
<1>2. x # 0 /\ x \in Nat
  OBVIOUS
<1>3. x - 1 \in Nat /\ <<x - 1, x>> \in R
  BY <1>2
<1>4. x - 1 \in S
  BY <1>1, <1>3
<1> QED
  BY <1>2, <1>3, <1>4

LEMMA MaxOfInitial ==
  ASSUME NEW n \in Nat, NEW s \in SUBSET (1..n), n \in s
  PROVE  Max(s) = n
<1>1. \A y \in s : n >= y /\ y \in Int
  OBVIOUS
<1>2. \A x \in s : (\A y \in s : x >= y) => x = n
  BY <1>1
<1> QED
  BY <1>1, <1>2 DEF Max

LEMMA Initial ==
  ASSUME NEW n \in Nat
  PROVE  1..0 = {} /\ (1..(n + 1)) \ {n + 1} = 1..n
OBVIOUS

(* The fold of Run over a sequence of commands of any length, as the       *)
(* states it goes through.                                                 *)
RunBody(base, cmds, g, s) ==
  IF s = {} THEN base ELSE Run(g[s \ {Max(s)}], cmds[Max(s)])

LEMMA RunIterates ==
  ASSUME NEW base, NEW cmds, NEW m \in Nat
  PROVE  \E g : g = [s \in SUBSET (1..m) |-> RunBody(base, cmds, g, s)]
<1> DEFINE Body(g, s) == IF s = {} THEN base ELSE Run(g[s \ {Max(s)}], cmds[Max(s)])
           Good == {n \in Nat : \E g : g = [s \in SUBSET (1..n) |-> Body(g, s)]}
<1>1. 0 \in Good
  <2> DEFINE g == [s \in {{}} |-> base]
  <2>1. SUBSET (1..0) = {{}}
    BY Initial
  <2>2. g = [s \in SUBSET (1..0) |-> Body(g, s)]
    BY <2>1
  <2> QED
    BY <2>2
<1>2. ASSUME NEW n \in Nat, n \in Good PROVE n + 1 \in Good
  <2>1. PICK g : g = [s \in SUBSET (1..n) |-> Body(g, s)]
    BY <1>2
  <2> DEFINE h == [s \in SUBSET (1..(n + 1)) |->
                     IF n + 1 \in s THEN Run(g[s \ {n + 1}], cmds[n + 1]) ELSE g[s]]
  <2> HIDE DEF Good
  <2>2. ASSUME NEW s \in SUBSET (1..(n + 1)) PROVE h[s] = Body(h, s)
    <3>1. CASE n + 1 \in s
      <4>1. s \ {n + 1} \in SUBSET (1..n) /\ s # {} /\ Max(s) = n + 1
        BY <3>1, MaxOfInitial
      <4>2. h[s \ {n + 1}] = g[s \ {n + 1}]
        BY <4>1
      <4> QED
        BY <3>1, <4>1, <4>2
    <3>2. CASE n + 1 \notin s /\ s # {}
      <4>1. s \in SUBSET (1..n)
        BY <3>2, Initial
      <4>5. s \ {Max(s)} \in SUBSET (1..n)
        BY <4>1
      <4>2. h[s] = g[s] /\ g[s] = Body(g, s)
        BY <2>1, <3>2, <4>1
      <4>3. n + 1 \notin s \ {Max(s)} /\ s \ {Max(s)} \in SUBSET (1..(n + 1))
        BY <3>2
      <4> HIDE DEF Body
      <4>4. h[s \ {Max(s)}] = g[s \ {Max(s)}]
        BY <4>3
      <4> USE DEF Body
      <4> HIDE DEF h
      <4> QED
        BY <3>2, <4>2, <4>4
    <3>3. CASE s = {}
      <4>1. h[s] = g[s] /\ s \in SUBSET (1..n)
        BY <3>3
      <4>2. g[s] = Body(g, s)
        BY <2>1, <4>1
      <4> QED
        BY <3>3, <4>1, <4>2
    <3> QED
      BY <3>1, <3>2, <3>3
  <2>3. h = [s \in SUBSET (1..(n + 1)) |-> Body(h, s)]
    <3>1. h = [s \in SUBSET (1..(n + 1)) |-> h[s]]
      OBVIOUS
    <3> HIDE DEF h
    <3> QED
      BY <2>2, <3>1, Zenon
  <2>4. \E k : k = [s \in SUBSET (1..(n + 1)) |-> Body(k, s)]
    BY <2>3, Zenon
  <2>5. n + 1 \in Nat
    OBVIOUS
  <2> HIDE DEF h, Body
  <2> QED
    BY <2>4, <2>5, Zenon DEF Good
<1> HIDE DEF Good
<1>3. m \in Good
  BY <1>1, <1>2, NatSetInduction
<1> QED
  BY <1>3 DEF Good, RunBody

AllRun(base, cmds) == FoldLeft(Run, base, cmds)

LEMMA RunTrace ==
  ASSUME NEW base, NEW cmds, NEW m \in Nat, DOMAIN cmds = 1..m
  PROVE  \E f : /\ f[0] = base
                /\ \A n \in Nat : n < m => f[n + 1] = Run(f[n], cmds[n + 1])
                /\ AllRun(base, cmds) = f[m]
<1> DEFINE iter == CHOOSE g : g = [s \in SUBSET (1..m) |-> RunBody(base, cmds, g, s)]
<1>1. iter = [s \in SUBSET (1..m) |-> RunBody(base, cmds, iter, s)]
  <2>1. \E g : g = [s \in SUBSET (1..m) |-> RunBody(base, cmds, g, s)]
    BY RunIterates
  <2> QED
    BY <2>1, Zenon
<1>2. AllRun(base, cmds) = iter[1..m]
  BY DEF AllRun, FoldLeft, MapThenFoldSet, RunBody
<1> HIDE DEF iter
<1> DEFINE f == [n \in Nat |-> iter[1..n]]
<1>3. f[0] = base
  BY <1>1, Initial DEF RunBody
<1>4. ASSUME NEW n \in Nat, n < m PROVE f[n + 1] = Run(f[n], cmds[n + 1])
  <2>1. 1..(n + 1) \in SUBSET (1..m) /\ 1..(n + 1) # {}
    BY <1>4
  <2>2. Max(1..(n + 1)) = n + 1
    BY MaxOfInitial
  <2>3. (1..(n + 1)) \ {n + 1} = 1..n
    BY Initial
  <2>4. iter[1..(n + 1)] = Run(iter[1..n], cmds[n + 1])
    BY <1>1, <2>1, <2>2, <2>3 DEF RunBody
  <2> QED
    BY <2>4
<1>5. AllRun(base, cmds) = f[m]
  BY <1>2
<1> HIDE DEF f
<1> QED
  BY <1>3, <1>4, <1>5

(* The same of the fold that picks the members of a sequence that are in a *)
(* set.                                                                    *)
Picked(S, found, x) == IF x \in S THEN Append(found, x) ELSE found

AmongBody(S, q, g, s) ==
  IF s = {} THEN <<>> ELSE Picked(S, g[s \ {Max(s)}], q[Max(s)])

LEMMA AmongIterates ==
  ASSUME NEW S, NEW q, NEW m \in Nat
  PROVE  \E g : g = [s \in SUBSET (1..m) |-> AmongBody(S, q, g, s)]
<1> DEFINE Body(g, s) == IF s = {} THEN <<>> ELSE Picked(S, g[s \ {Max(s)}], q[Max(s)])
           Good == {n \in Nat : \E g : g = [s \in SUBSET (1..n) |-> Body(g, s)]}
<1>1. 0 \in Good
  <2> DEFINE g == [s \in {{}} |-> <<>>]
  <2>1. SUBSET (1..0) = {{}}
    BY Initial
  <2>2. g = [s \in SUBSET (1..0) |-> Body(g, s)]
    BY <2>1
  <2> QED
    BY <2>2
<1>2. ASSUME NEW n \in Nat, n \in Good PROVE n + 1 \in Good
  <2>1. PICK g : g = [s \in SUBSET (1..n) |-> Body(g, s)]
    BY <1>2
  <2> DEFINE h == [s \in SUBSET (1..(n + 1)) |->
                     IF n + 1 \in s THEN Picked(S, g[s \ {n + 1}], q[n + 1]) ELSE g[s]]
  <2> HIDE DEF Good
  <2>2. ASSUME NEW s \in SUBSET (1..(n + 1)) PROVE h[s] = Body(h, s)
    <3>1. CASE n + 1 \in s
      <4>1. s \ {n + 1} \in SUBSET (1..n) /\ s # {} /\ Max(s) = n + 1
        BY <3>1, MaxOfInitial
      <4>2. h[s \ {n + 1}] = g[s \ {n + 1}]
        BY <4>1
      <4> QED
        BY <3>1, <4>1, <4>2
    <3>2. CASE n + 1 \notin s /\ s # {}
      <4>1. s \in SUBSET (1..n)
        BY <3>2, Initial
      <4>5. s \ {Max(s)} \in SUBSET (1..n)
        BY <4>1
      <4>2. h[s] = g[s] /\ g[s] = Body(g, s)
        BY <2>1, <3>2, <4>1
      <4>3. n + 1 \notin s \ {Max(s)} /\ s \ {Max(s)} \in SUBSET (1..(n + 1))
        BY <3>2
      <4> HIDE DEF Body
      <4>4. h[s \ {Max(s)}] = g[s \ {Max(s)}]
        BY <4>3
      <4> USE DEF Body
      <4> HIDE DEF h
      <4> QED
        BY <3>2, <4>2, <4>4
    <3>3. CASE s = {}
      <4>1. h[s] = g[s] /\ s \in SUBSET (1..n)
        BY <3>3
      <4>2. g[s] = Body(g, s)
        BY <2>1, <4>1
      <4> QED
        BY <3>3, <4>1, <4>2
    <3> QED
      BY <3>1, <3>2, <3>3
  <2>3. h = [s \in SUBSET (1..(n + 1)) |-> Body(h, s)]
    <3>1. h = [s \in SUBSET (1..(n + 1)) |-> h[s]]
      OBVIOUS
    <3> HIDE DEF h
    <3> QED
      BY <2>2, <3>1, Zenon
  <2>4. \E k : k = [s \in SUBSET (1..(n + 1)) |-> Body(k, s)]
    BY <2>3, Zenon
  <2>5. n + 1 \in Nat
    OBVIOUS
  <2> HIDE DEF h, Body
  <2> QED
    BY <2>4, <2>5, Zenon DEF Good
<1> HIDE DEF Good
<1>3. m \in Good
  BY <1>1, <1>2, NatSetInduction
<1> QED
  BY <1>3 DEF Good, AmongBody

PicksOf(f, S, q, m) == /\ f[0] = <<>>
                       /\ \A n \in Nat : n < m => f[n + 1] = Picked(S, f[n], q[n + 1])
                       /\ Among(q, S) = f[m]

LEMMA AmongTrace ==
  ASSUME NEW S, NEW q, NEW m \in Nat, DOMAIN q = 1..m
  PROVE  \E f : PicksOf(f, S, q, m)
<1> DEFINE iter == CHOOSE g : g = [s \in SUBSET (1..m) |-> AmongBody(S, q, g, s)]
<1>1. iter = [s \in SUBSET (1..m) |-> AmongBody(S, q, iter, s)]
  <2>1. \E g : g = [s \in SUBSET (1..m) |-> AmongBody(S, q, g, s)]
    BY AmongIterates
  <2> QED
    BY <2>1, Zenon
<1>2. Among(q, S) = iter[1..m]
  BY DEF Among, Picked, FoldLeft, MapThenFoldSet, AmongBody
<1> HIDE DEF iter
<1> DEFINE f == [n \in Nat |-> iter[1..n]]
<1>3. f[0] = <<>>
  BY <1>1, Initial DEF AmongBody
<1>4. ASSUME NEW n \in Nat, n < m PROVE f[n + 1] = Picked(S, f[n], q[n + 1])
  <2>1. 1..(n + 1) \in SUBSET (1..m) /\ 1..(n + 1) # {}
    BY <1>4
  <2>2. Max(1..(n + 1)) = n + 1
    BY MaxOfInitial
  <2>3. (1..(n + 1)) \ {n + 1} = 1..n
    BY Initial
  <2>4. iter[1..(n + 1)] = Picked(S, iter[1..n], q[n + 1])
    BY <1>1, <2>1, <2>2, <2>3 DEF AmongBody
  <2> QED
    BY <2>4
<1>5. Among(q, S) = f[m]
  BY <1>2
<1> HIDE DEF f
<1> QED
  BY <1>3, <1>4, <1>5 DEF PicksOf

(* And of the loop that takes a Connect cluster out of the list.           *)
LoopStart(known) == [cells |-> known, len |-> Len(known), panic |-> FALSE]

Cells(known) == [i \in DOMAIN known |-> i]

LoopBody(known, k, g, s) ==
  IF s = {} THEN LoopStart(known) ELSE LoopStep(g[s \ {Max(s)}], k, Cells(known)[Max(s)])

LEMMA LoopIterates ==
  ASSUME NEW known, NEW k, NEW m \in Nat
  PROVE  \E g : g = [s \in SUBSET (1..m) |-> LoopBody(known, k, g, s)]
<1> DEFINE Body(g, s) == IF s = {} THEN LoopStart(known) ELSE LoopStep(g[s \ {Max(s)}], k, Cells(known)[Max(s)])
           Good == {n \in Nat : \E g : g = [s \in SUBSET (1..n) |-> Body(g, s)]}
<1>1. 0 \in Good
  <2> DEFINE g == [s \in {{}} |-> LoopStart(known)]
  <2>1. SUBSET (1..0) = {{}}
    BY Initial
  <2>2. g = [s \in SUBSET (1..0) |-> Body(g, s)]
    BY <2>1
  <2> QED
    BY <2>2
<1>2. ASSUME NEW n \in Nat, n \in Good PROVE n + 1 \in Good
  <2>1. PICK g : g = [s \in SUBSET (1..n) |-> Body(g, s)]
    BY <1>2
  <2> DEFINE h == [s \in SUBSET (1..(n + 1)) |->
                     IF n + 1 \in s THEN LoopStep(g[s \ {n + 1}], k, Cells(known)[n + 1]) ELSE g[s]]
  <2> HIDE DEF Good
  <2>2. ASSUME NEW s \in SUBSET (1..(n + 1)) PROVE h[s] = Body(h, s)
    <3>1. CASE n + 1 \in s
      <4>1. s \ {n + 1} \in SUBSET (1..n) /\ s # {} /\ Max(s) = n + 1
        BY <3>1, MaxOfInitial
      <4>2. h[s \ {n + 1}] = g[s \ {n + 1}]
        BY <4>1
      <4> QED
        BY <3>1, <4>1, <4>2
    <3>2. CASE n + 1 \notin s /\ s # {}
      <4>1. s \in SUBSET (1..n)
        BY <3>2, Initial
      <4>5. s \ {Max(s)} \in SUBSET (1..n)
        BY <4>1
      <4>2. h[s] = g[s] /\ g[s] = Body(g, s)
        BY <2>1, <3>2, <4>1
      <4>3. n + 1 \notin s \ {Max(s)} /\ s \ {Max(s)} \in SUBSET (1..(n + 1))
        BY <3>2
      <4> HIDE DEF Body
      <4>4. h[s \ {Max(s)}] = g[s \ {Max(s)}]
        BY <4>3
      <4> USE DEF Body
      <4> HIDE DEF h
      <4> QED
        BY <3>2, <4>2, <4>4
    <3>3. CASE s = {}
      <4>1. h[s] = g[s] /\ s \in SUBSET (1..n)
        BY <3>3
      <4>2. g[s] = Body(g, s)
        BY <2>1, <4>1
      <4> QED
        BY <3>3, <4>1, <4>2
    <3> QED
      BY <3>1, <3>2, <3>3
  <2>3. h = [s \in SUBSET (1..(n + 1)) |-> Body(h, s)]
    <3>1. h = [s \in SUBSET (1..(n + 1)) |-> h[s]]
      OBVIOUS
    <3> HIDE DEF h
    <3> QED
      BY <2>2, <3>1, Zenon
  <2>4. \E l : l = [s \in SUBSET (1..(n + 1)) |-> Body(l, s)]
    BY <2>3, Zenon
  <2>5. n + 1 \in Nat
    OBVIOUS
  <2> HIDE DEF h, Body
  <2> QED
    BY <2>4, <2>5, Zenon DEF Good
<1> HIDE DEF Good
<1>3. m \in Good
  BY <1>1, <1>2, NatSetInduction
<1> QED
  BY <1>3 DEF Good, LoopBody

LoopsOf(f, known, k, m) == /\ f[0] = LoopStart(known)
                           /\ \A n \in Nat : n < m => f[n + 1] = LoopStep(f[n], k, n + 1)
                           /\ AfterLoop(known, k) = f[m]

LEMMA LoopTrace ==
  ASSUME NEW known, NEW k, NEW m \in Nat, DOMAIN known = 1..m
  PROVE  \E f : LoopsOf(f, known, k, m)
<1> DEFINE iter == CHOOSE g : g = [s \in SUBSET (1..m) |-> LoopBody(known, k, g, s)]
<1>1. iter = [s \in SUBSET (1..m) |-> LoopBody(known, k, iter, s)]
  <2>1. \E g : g = [s \in SUBSET (1..m) |-> LoopBody(known, k, g, s)]
    BY LoopIterates
  <2> QED
    BY <2>1, Zenon
<1>2. AfterLoop(known, k) = iter[1..m]
  BY DEF AfterLoop, LoopStart, Cells, FoldLeftDomain, FoldLeft, MapThenFoldSet, LoopBody
<1> HIDE DEF iter
<1> DEFINE f == [n \in Nat |-> iter[1..n]]
<1>3. f[0] = LoopStart(known)
  BY <1>1, Initial DEF LoopBody
<1>4. ASSUME NEW n \in Nat, n < m PROVE f[n + 1] = LoopStep(f[n], k, n + 1)
  <2>1. 1..(n + 1) \in SUBSET (1..m) /\ 1..(n + 1) # {}
    BY <1>4
  <2>2. Max(1..(n + 1)) = n + 1
    BY MaxOfInitial
  <2>3. (1..(n + 1)) \ {n + 1} = 1..n
    BY Initial
  <2>4. iter[1..(n + 1)] = LoopStep(iter[1..n], k, Cells(known)[n + 1])
    BY <1>1, <2>1, <2>2, <2>3 DEF LoopBody
  <2>5. Cells(known)[n + 1] = n + 1
    BY <2>1 DEF Cells
  <2> QED
    BY <2>4, <2>5
<1>5. AfterLoop(known, k) = f[m]
  BY <1>2
<1> HIDE DEF f
<1> QED
  BY <1>3, <1>4, <1>5 DEF LoopsOf

(* What Among picks are members of the sequence that are in the set.       *)
LEMMA AmongTyped ==
  ASSUME NEW X, NEW q \in Seq(X), NEW S
  PROVE  Among(q, S) \in Seq(X \cap S)
<1> DEFINE m == Len(q)
           Y == X \cap S
<1>1. m \in Nat /\ DOMAIN q = 1..m /\ m = Len(q)
  OBVIOUS
<1> HIDE DEF m
<1>0. PICK f : PicksOf(f, S, q, m)
  BY <1>1, AmongTrace
<1>2. /\ f[0] = <<>>
      /\ \A n \in Nat : n < m => f[n + 1] = Picked(S, f[n], q[n + 1])
      /\ Among(q, S) = f[m]
  BY <1>0 DEF PicksOf
<1>3. ASSUME NEW n \in Nat, n < m, f[n] \in Seq(Y) PROVE f[n + 1] \in Seq(Y)
  <2>1. n + 1 \in 1..m
    BY <1>1, <1>3
  <2>2. q[n + 1] \in X
    BY <1>1, <2>1
  <2>3. CASE q[n + 1] \in S
    <3>1. q[n + 1] \in Y
      BY <2>2, <2>3
    <3>2. f[n + 1] = Append(f[n], q[n + 1])
      BY <1>2, <1>3, <2>3 DEF Picked
    <3>3. Append(f[n], q[n + 1]) \in Seq(Y)
      <4> HIDE DEF Y
      <4> QED
        BY <1>3, <3>1, AppendProperties
    <3> QED
      BY <3>2, <3>3
  <2>4. CASE q[n + 1] \notin S
    <3> HIDE DEF Y
    <3> QED
      BY <1>2, <1>3, <2>4 DEF Picked
  <2> QED
    BY <2>3, <2>4
<1> DEFINE Good == {n \in Nat : n <= m => f[n] \in Seq(Y)}
<1> HIDE DEF Y
<1>4. 0 \in Good
  <2>1. <<>> \in Seq(Y)
    OBVIOUS
  <2> QED
    BY <1>2, <2>1
<1>5. ASSUME NEW n \in Nat, n \in Good PROVE n + 1 \in Good
  <2> SUFFICES ASSUME n + 1 <= m PROVE f[n + 1] \in Seq(Y)
    BY <1>5
  <2>1. f[n] \in Seq(Y) /\ n < m
    BY <1>1, <1>5
  <2> QED
    BY <1>3, <2>1
<1> HIDE DEF Good
<1>6. m \in Good
  BY <1>1, <1>4, <1>5, NatSetInduction
<1>7. f[m] \in Seq(Y)
  BY <1>1, <1>6 DEF Good
<1> QED
  BY <1>2, <1>7 DEF Y

-----------------------------------------------------------------------------
(* The Connect tab of the form.                                            *)
ConnectNames == Connects \cup {NoConnect}
ConnectLists == Seq(ConnectNames)
KcPrompts == [active : BOOLEAN, affirmed : BOOLEAN, value : ConnectNames \cup {NoItem}]
KcForms == [state : {"entering", "listing", "registering"}, done : BOOLEAN,
            name : ConnectNames, prev : ConnectNames, clusters : ConnectLists,
            drawn : SUBSET ConnectNames, prompt : KcPrompts]

(* The messages a page may get, by what they carry.                        *)
MsgOK(msg) ==
  /\ msg.type = "key" => msg.term \in Terms
  /\ msg.type = "edit" =>
       /\ msg.field \in DOMAIN Blank
       /\ [Blank EXCEPT ![msg.field] = msg.value] \in Values
       /\ msg.field \in {"tls", "ver", "srTls", "srVer"} => msg.value # "none"
  /\ msg.type = "kcname" => msg.name \in ConnectNames
  /\ msg.type = "registered" => msg.cluster \in Cluster
  /\ msg.type = "switched" => msg.cluster \in Cluster \cup {NoCluster}

KcCmds == {<<>>} \cup {<<c>> : c \in {"list", "crash", "await", "register", "kcdelete", "kccheck"}}

(* Each cell of the list stays a Connect cluster while the loop runs, also *)
(* the cells that it has moved up.                                         *)
LEMMA LoopTyped ==
  ASSUME NEW known \in ConnectLists, NEW k
  PROVE  LET loop == AfterLoop(known, k)
         IN  /\ loop.panic \in BOOLEAN
             /\ ~loop.panic => SubSeq(loop.cells, 1, loop.len) \in ConnectLists
<1> DEFINE m == Len(known)
           Loops == [cells : [1..m -> ConnectNames], len : 0..m, panic : BOOLEAN]
<1>1. m \in Nat /\ DOMAIN known = 1..m /\ known \in [1..m -> ConnectNames]
  BY DEF ConnectLists
<1> HIDE DEF m
<1>0. PICK f : LoopsOf(f, known, k, m)
  BY <1>1, LoopTrace
<1>2. /\ f[0] = LoopStart(known)
      /\ \A n \in Nat : n < m => f[n + 1] = LoopStep(f[n], k, n + 1)
      /\ AfterLoop(known, k) = f[m]
  BY <1>0 DEF LoopsOf
<1>3. LoopStart(known) \in Loops
  BY <1>1 DEF LoopStart, m
<1>4. ASSUME NEW l \in Loops, NEW i \in 1..m PROVE LoopStep(l, k, i) \in Loops
  <2>1. CASE l.panic \/ l.cells[i] # k
    BY <2>1 DEF LoopStep
  <2>2. CASE ~(l.panic \/ l.cells[i] # k) /\ i > l.len
    BY <2>2 DEF LoopStep
  <2>3. CASE ~(l.panic \/ l.cells[i] # k) /\ ~(i > l.len)
    <3> DEFINE cells == Shortened(l.cells, i, l.len)
    <3>1. l.len \in 1..m
      BY <1>1, <2>3
    <3>2. cells \in [1..m -> ConnectNames]
      BY <1>1, <3>1 DEF Shortened
    <3> HIDE DEF cells
    <3>3. LoopStep(l, k, i) = [[l EXCEPT !.cells = cells] EXCEPT !.len = l.len - 1]
      BY <2>3, Zenon DEF LoopStep, cells
    <3>4. l.len - 1 \in 0..m
      BY <1>1, <3>1
    <3> QED
      BY <3>2, <3>3, <3>4
  <2> QED
    BY <2>1, <2>2, <2>3
<1> DEFINE Good == {n \in Nat : n <= m => f[n] \in Loops}
<1>5. 0 \in Good
  BY <1>2, <1>3
<1>6. ASSUME NEW n \in Nat, n \in Good PROVE n + 1 \in Good
  <2> HIDE DEF Loops
  <2> SUFFICES ASSUME n + 1 <= m PROVE f[n + 1] \in Loops
    BY <1>6
  <2>1. f[n] \in Loops /\ n < m /\ n + 1 \in 1..m
    BY <1>1, <1>6
  <2> QED
    BY <1>2, <1>4, <2>1
<1>7. m \in Good
  <2> HIDE DEF Good
  <2> QED
    BY <1>1, <1>5, <1>6, NatSetInduction
<1>8. AfterLoop(known, k) \in Loops
  BY <1>1, <1>2, <1>7
<1> DEFINE loop == AfterLoop(known, k)
<1> HIDE DEF loop
<1>9. loop.panic \in BOOLEAN /\ loop.cells \in [1..m -> ConnectNames] /\ loop.len \in 0..m
  BY <1>8 DEF loop
<1>10. loop.cells \in Seq(ConnectNames) /\ Len(loop.cells) = m
  BY <1>1, <1>9
<1>11. SubSeq(loop.cells, 1, loop.len) \in Seq(ConnectNames)
  BY <1>1, <1>9, <1>10, SubSeqProperties
<1> QED
  BY <1>9, <1>11 DEF loop, ConnectLists

LEMMA KcDeletedTyped ==
  ASSUME NEW kc \in KcForms, NEW k
  PROVE  KcDeleted(kc, k).next \in KcForms /\ KcDeleted(kc, k).cmds \in KcCmds
<1> DEFINE loop == AfterLoop(kc.clusters, k)
           rest == SubSeq(loop.cells, 1, loop.len)
           prompt == [kc.prompt EXCEPT !.active = FALSE]
           state == IF loop.len = 0 THEN "entering" ELSE kc.state
<1>1. kc.clusters \in ConnectLists /\ kc.prompt \in KcPrompts
  BY DEF KcForms
<1>2. loop.panic \in BOOLEAN /\ (~loop.panic => rest \in ConnectLists)
  BY <1>1, LoopTyped
<1>3. CASE loop.panic
  BY <1>3 DEF KcDeleted, Does, KcCmds
<1>4. CASE ~loop.panic
  <2>1. KcDeleted(kc, k).next
          = [[[kc EXCEPT !.clusters = rest] EXCEPT !.state = state] EXCEPT !.prompt = prompt]
    <3>1. [[[kc EXCEPT !.clusters = rest] EXCEPT !.state = state] EXCEPT !.prompt.active = FALSE]
            = [[[kc EXCEPT !.clusters = rest] EXCEPT !.state = state] EXCEPT !.prompt = prompt]
      BY DEF KcForms
    <3> QED
      BY <1>4, <3>1 DEF KcDeleted, Does
  <2>2. KcDeleted(kc, k).cmds = <<>>
    BY <1>4 DEF KcDeleted, Does
  <2>3. prompt \in KcPrompts
    BY <1>1 DEF KcPrompts
  <2>4. state \in {"entering", "listing", "registering"}
    BY DEF KcForms
  <2> HIDE DEF loop, rest, prompt, state
  <2> QED
    BY <1>2, <1>4, <2>1, <2>2, <2>3, <2>4 DEF KcForms, KcCmds
<1> QED
  BY <1>2, <1>3, <1>4

(* Setting fields of the Connect tab. *)
LEMMA ToSetTyped ==
  ASSUME NEW X, NEW q \in Seq(X)
  PROVE  ToSet(q) \subseteq X
BY DEF ToSet

LEMMA NewKcFormTyped ==
  ASSUME NEW known \in ConnectLists
  PROVE  NewKcForm(known) \in KcForms
BY DEF NewKcForm, NewPrompt, KcForms, KcPrompts, ConnectNames

LEMMA DrawnTyped ==
  ASSUME NEW kc \in KcForms
  PROVE  /\ Drawn(kc) \in KcForms
         /\ \A row \in KcSelections(kc) : row \in ConnectNames \cup {NoItem}
<1>1. kc.clusters \in Seq(ConnectNames) /\ kc.drawn \subseteq ConnectNames
  BY DEF KcForms, ConnectLists
<1>2. ToSet(kc.clusters) \subseteq ConnectNames
  BY <1>1, ToSetTyped
<1> QED
  BY <1>1, <1>2 DEF Drawn, KcSelections, KcForms

LEMMA KcWithPrompt ==
  ASSUME NEW kc \in KcForms, NEW d \in KcPrompts
  PROVE  [kc EXCEPT !.prompt = d] \in KcForms
BY DEF KcForms

LEMMA KcPromptUpdate ==
  ASSUME NEW d \in KcPrompts, NEW msg, NEW key, NEW valid
  PROVE  DeleteUpdate(d, msg, key, valid).next \in KcPrompts
BY DEF KcPrompts, DeleteUpdate, Enter, Closed, Outcome

LEMMA AfterPromptTyped ==
  ASSUME NEW kc \in KcForms, NEW msg
  PROVE  AfterPrompt(kc, msg).next \in KcForms /\ AfterPrompt(kc, msg).cmds \in KcCmds
<1>1. kc.prompt \in KcPrompts
  BY DEF KcForms
<1> QED
  BY <1>1, KcPromptUpdate, KcWithPrompt DEF AfterPrompt, Prompted, Does, KcCmds

LEMMA AfterKcFormTyped ==
  ASSUME NEW kc \in KcForms, NEW msg, MsgOK(msg)
  PROVE  AfterKcForm(kc, msg).next \in KcForms /\ AfterKcForm(kc, msg).cmds \in KcCmds
<1>1. Typed(kc, msg) \in KcForms
  BY DEF Typed, KcForms, MsgOK
<1> QED
  BY <1>1 DEF AfterKcForm, Does, KcForms, KcCmds

LEMMA KcNewTyped ==
  ASSUME NEW kc \in KcForms
  PROVE  KcNew(kc) \in KcForms
<1> DEFINE c == [[kc EXCEPT !.state = "entering"] EXCEPT !.name = NoConnect]
<1>1. c \in KcForms
  BY DEF KcForms, ConnectNames
<1>2. KcNew(kc) = [c EXCEPT !.done = FALSE]
  BY DEF KcNew, NewForm
<1> HIDE DEF c
<1> QED
  BY <1>1, <1>2 DEF KcForms

LEMMA KcEditTyped ==
  ASSUME NEW kc \in KcForms, NEW row
  PROVE  KcEdit(kc, row).next \in KcForms /\ KcEdit(kc, row).cmds \in KcCmds
<1>1. CASE row \notin ToSet(kc.clusters)
  BY <1>1 DEF KcEdit, Does, KcCmds
<1>2. CASE row \in ToSet(kc.clusters)
  <2>1. row \in ConnectNames
    BY <1>2, ToSetTyped DEF KcForms, ConnectLists
  <2> DEFINE c == [[[kc EXCEPT !.state = "entering"] EXCEPT !.name = row] EXCEPT !.prev = row]
  <2>2. c \in KcForms
    BY <2>1 DEF KcForms
  <2>3. KcEdit(kc, row).next = [c EXCEPT !.done = FALSE] /\ KcEdit(kc, row).cmds = <<>>
    BY <1>2 DEF KcEdit, NewForm, Does
  <2> HIDE DEF c
  <2> QED
    BY <2>2, <2>3 DEF KcForms, KcCmds
<1> QED
  BY <1>1, <1>2

LEMMA KcFailedTyped ==
  ASSUME NEW kc \in KcForms
  PROVE  KcFailed(kc) \in KcForms
BY DEF KcFailed, NewForm, KcForms

LEMMA KcUpdateTyped ==
  ASSUME NEW kc \in KcForms, NEW msg, MsgOK(msg), NEW row \in ConnectNames \cup {NoItem}
  PROVE  LET o == KcUpdate(kc, msg, row)
         IN  o.next \in KcForms /\ o.cmds \in KcCmds
<1> DEFINE o == KcUpdate(kc, msg, row)
<1>1. CASE IsKey(msg, "esc")
  <2>1. KcEsc(kc).next \in KcForms /\ KcEsc(kc).cmds \in KcCmds
    BY DEF KcEsc, Does, KcForms, KcCmds
  <2> QED
    BY <1>1, <2>1 DEF KcUpdate
<1>2. CASE IsKey(msg, "f2") /\ ~IsKey(msg, "esc")
  <2> DEFINE d == [kc.prompt EXCEPT !.value = row]
             c == [kc EXCEPT !.prompt = d]
  <2>1. d \in KcPrompts
    BY DEF KcForms, KcPrompts
  <2>2. c \in KcForms /\ c = [kc EXCEPT !.prompt.value = row]
    BY <2>1, KcWithPrompt DEF KcForms
  <2> HIDE DEF d, c
  <2>3. KcF2(kc, msg, row).next \in KcForms /\ KcF2(kc, msg, row).cmds \in KcCmds
    BY <2>2, AfterPromptTyped DEF KcF2, Does, KcCmds
  <2> QED
    BY <1>2, <2>3 DEF KcUpdate
<1>3. CASE /\ ~IsKey(msg, "esc") /\ ~IsKey(msg, "f2")
           /\ IsKey(msg, "ctrl+e") /\ kc.state # "entering"
  BY <1>3, KcEditTyped DEF KcUpdate
<1> DEFINE Later == /\ ~IsKey(msg, "esc") /\ ~IsKey(msg, "f2")
                    /\ ~(IsKey(msg, "ctrl+e") /\ kc.state # "entering")
<1>4. CASE Later /\ msg.type \in {"kcStarted", "kcOk"}
  BY <1>4 DEF KcUpdate, Does, KcCmds
<1>5. CASE Later /\ msg.type = "registered"
  <2>1. msg.cluster.connect \in ConnectLists
    BY <1>5 DEF MsgOK, Cluster, ConnectLists, ConnectNames
  <2>2. [[kc EXCEPT !.state = "listing"] EXCEPT !.clusters = msg.cluster.connect] \in KcForms
    BY <2>1 DEF KcForms
  <2>3. /\ o.next = [[kc EXCEPT !.state = "listing"] EXCEPT !.clusters = msg.cluster.connect]
        /\ o.cmds = <<>>
    BY <1>5 DEF KcUpdate, KcRegistered, Does
  <2> QED
    BY <2>2, <2>3 DEF KcCmds
<1>6. CASE Later /\ msg.type = "connectDeleted"
  BY <1>6, KcDeletedTyped DEF KcUpdate
<1>7. CASE Later /\ msg.type \notin {"kcStarted", "kcOk", "registered", "connectDeleted"}
  <2> DEFINE c == IF IsKey(msg, "ctrl+n") THEN KcNew(kc) ELSE kc
  <2>1. c \in KcForms
    BY KcNewTyped
  <2>2. o = BelowSwitch(c, msg)
    BY <1>7 DEF KcUpdate
  <2> HIDE DEF c
  <2>3. BelowSwitch(c, msg).next \in KcForms /\ BelowSwitch(c, msg).cmds \in KcCmds
    BY <2>1, AfterPromptTyped, AfterKcFormTyped DEF BelowSwitch, Does, KcCmds
  <2> QED
    BY <2>2, <2>3
<1> QED
  BY <1>1, <1>2, <1>3, <1>4, <1>5, <1>6, <1>7

LEMMA ClusterDetailsTyped ==
  ASSUME NEW kc \in KcForms
  PROVE  ClusterDetails(kc) \in ConnectLists
<1>1. /\ kc.clusters \in Seq(ConnectNames) /\ kc.name \in ConnectNames
      /\ kc.clusters \in [1..Len(kc.clusters) -> ConnectNames] /\ Len(kc.clusters) \in Nat
  BY DEF KcForms, ConnectLists
<1>2. KeptOrReplaced(kc) \in [1..Len(kc.clusters) -> ConnectNames]
  BY <1>1 DEF KeptOrReplaced
<1>3. KeptOrReplaced(kc) \in Seq(ConnectNames)
  BY <1>1, <1>2
<1> DEFINE more == IF kc.name # NoConnect /\ ~ \E k \in ToSet(kc.clusters) : Replaces(kc, k)
                   THEN <<kc.name>> ELSE <<>>
<1>4. more \in Seq(ConnectNames)
  BY <1>1
<1>5. ClusterDetails(kc) = KeptOrReplaced(kc) \o more
  BY DEF ClusterDetails
<1> HIDE DEF more
<1> QED
  BY <1>3, <1>4, <1>5, ConcatProperties DEF ConnectLists

-----------------------------------------------------------------------------
(* The form.                                                               *)
FieldNames == {"ver", "client", "ca", "credentials", "srVer"}
HuhForms == [fields : SUBSET FieldNames, done : BOOLEAN,
             own : {<<>>} \cup {<<v>> : v \in Values}]
MaybeNames == Names \cup {NoName}
Forms == [editing : BOOLEAN, saved : BOOLEAN, pre : MaybeNames, opened : MaybeNames,
          values : Values, c : HuhForms, sr : HuhForms, shown : {"c", "sr"},
          tab : {"c", "sr", "kc"}, loading : BOOLEAN, tls : Transports,
          ver : Verifications, sasl : BOOLEAN, kc : KcForms]
Registrations == [name : Names, newName : MaybeNames, details : Details,
                  connect : ConnectLists]

FormWords == {"list", "crash", "await", "register", "kcdelete", "kccheck", "kcheck", "srcheck"}
FormCmds == {<<>>} \cup {<<c>> : c \in FormWords}
              \cup {<<a, c>> : a \in {"await", "register"}, c \in FormWords \ {"list"}}

LEMMA BlankTyped == Blank \in Values
BY FormAssumption DEF Blank, Values, Transports, Verifications

LEMMA DetailsTyped ==
  ASSUME NEW v \in Values
  PROVE  DetailsOf(v) \in Details
BY DEF DetailsOf, SecurityOf, Details, Security, Values

LEMMA ValuesTyped ==
  ASSUME NEW c \in Cluster
  PROVE  ValuesOf(c) \in Values
BY DEF ValuesOf, TransportOf, VerificationOf, Cluster, Details, Security, Values,
       Transports, Verifications

LEMMA HuhFormTyped ==
  ASSUME NEW v \in Values
  PROVE  HuhForm(CFields(v)) \in HuhForms /\ HuhForm(SrFields(v)) \in HuhForms
<1>1. CFields(v) \subseteq FieldNames /\ SrFields(v) \subseteq FieldNames
  BY DEF CFields, SrFields, FieldNames
<1> QED
  BY <1>1 DEF HuhForm, HuhForms

LEMMA NewPageTyped ==
  ASSUME NEW editing \in BOOLEAN, NEW v \in Values, NEW n \in MaybeNames,
         NEW known \in ConnectLists
  PROVE  NewPage(editing, v, n, known) \in Forms
BY HuhFormTyped, NewKcFormTyped DEF NewPage, Forms, Values

LEMMA CreatePageTyped == CreatePage \in Forms
<1>1. <<>> \in ConnectLists
  BY DEF ConnectLists
<1> QED
  BY <1>1, BlankTyped, NewPageTyped DEF CreatePage, MaybeNames

LEMMA EditPageTyped ==
  ASSUME NEW c \in Cluster
  PROVE  EditPage(c) \in Forms
<1> DEFINE f == NewPage(TRUE, ValuesOf(c), c.name, c.connect)
           pre == IF c.name = EmptyName THEN NoName ELSE f.pre
<1>1. c.connect \in ConnectLists /\ c.name \in MaybeNames
  BY DEF Cluster, ConnectLists, ConnectNames, MaybeNames
<1>2. f \in Forms
  BY <1>1, ValuesTyped, NewPageTyped
<1>3. EditPage(c) = [f EXCEPT !.pre = pre]
  BY DEF EditPage
<1> HIDE DEF f
<1>4. pre \in MaybeNames
  BY <1>2 DEF Forms, MaybeNames
<1> HIDE DEF pre
<1> QED
  BY <1>2, <1>3, <1>4 DEF Forms

LEMMA RecreateTyped ==
  ASSUME NEW f \in Forms
  PROVE  RecreateC(f) \in Forms /\ RecreateSr(f) \in Forms
<1>1. f.values \in Values
  BY DEF Forms
<1> QED
  BY <1>1, HuhFormTyped DEF RecreateC, RecreateSr, Forms

LEMMA RegistrationTyped ==
  ASSUME NEW f \in Forms
  PROVE  RegistrationOf(f) \in Registrations
<1>1. f.values \in Values /\ f.kc \in KcForms /\ f.pre \in MaybeNames
  BY DEF Forms
<1>2. f.values.name \in Names
  BY <1>1 DEF Values
<1> QED
  BY <1>1, <1>2, DetailsTyped, ClusterDetailsTyped DEF RegistrationOf, Registrations, MaybeNames

(* An edit of a field of the values. *)
LEMMA ValueEdited ==
  ASSUME NEW v \in Values, NEW field \in DOMAIN Blank, NEW value,
         [Blank EXCEPT ![field] = value] \in Values
  PROVE  [v EXCEPT ![field] = value] \in Values
<1>1. field \in {"name", "tls", "ver", "sasl", "url", "srTls", "srVer"}
  BY DEF Blank
<1>2. CASE field = "name"
  BY <1>2, BlankTyped DEF Values
<1>3. CASE field = "tls"
  BY <1>3, BlankTyped DEF Values
<1>4. CASE field = "ver"
  BY <1>4, BlankTyped DEF Values
<1>5. CASE field = "sasl"
  BY <1>5, BlankTyped DEF Values
<1>6. CASE field = "url"
  BY <1>6, BlankTyped DEF Values
<1>7. CASE field = "srTls"
  BY <1>7, BlankTyped DEF Values
<1>8. CASE field = "srVer"
  BY <1>8, BlankTyped DEF Values
<1> QED
  BY <1>1, <1>2, <1>3, <1>4, <1>5, <1>6, <1>7, <1>8

LEMMA ShownTyped ==
  ASSUME NEW f \in Forms
  PROVE  Shown(f) \in HuhForms /\ Written(f, Shown(f)) \in Values
<1>1. Shown(f) \in HuhForms /\ f.values \in Values
  BY DEF Shown, Forms
<1> QED
  BY <1>1 DEF Written, HuhForms

LEMMA EditedTyped ==
  ASSUME NEW f \in Forms, NEW msg, MsgOK(msg), msg.type = "edit"
  PROVE  Edited(f, msg) \in Forms
<1> DEFINE v == [Written(f, Shown(f)) EXCEPT ![msg.field] = msg.value]
<1>1. v \in Values
  BY ShownTyped, ValueEdited DEF MsgOK
<1>2. f.c \in HuhForms /\ f.sr \in HuhForms /\ f.shown \in {"c", "sr"}
  BY DEF Forms
<1> HIDE DEF v
<1>3. [f.c EXCEPT !.own = <<v>>] \in HuhForms /\ [f.sr EXCEPT !.own = <<v>>] \in HuhForms
  BY <1>1, <1>2 DEF HuhForms
<1>4. [f EXCEPT !.values = v] \in Forms
  BY <1>1 DEF Forms
<1>5. [f EXCEPT !.c.own = <<v>>] \in Forms /\ [f EXCEPT !.sr.own = <<v>>] \in Forms
  <2>1. /\ [f EXCEPT !.c.own = <<v>>] = [f EXCEPT !.c = [f.c EXCEPT !.own = <<v>>]]
        /\ [f EXCEPT !.sr.own = <<v>>] = [f EXCEPT !.sr = [f.sr EXCEPT !.own = <<v>>]]
    BY DEF Forms
  <2> QED
    BY <1>3, <2>1 DEF Forms
<1>6. [f EXCEPT ![f.shown].own = <<v>>] \in Forms
  BY <1>2, <1>5
<1> QED
  BY <1>4, <1>6 DEF Edited, v

LEMMA WithDone ==
  ASSUME NEW f \in Forms, NEW done \in BOOLEAN
  PROVE  /\ [f EXCEPT !.c.done = done] \in Forms
         /\ [f EXCEPT !.sr.done = done] \in Forms
         /\ [f EXCEPT ![f.shown].done = done] \in Forms
<1>1. f.c \in HuhForms /\ f.sr \in HuhForms /\ f.shown \in {"c", "sr"}
  BY DEF Forms
<1>2. [f.c EXCEPT !.done = done] \in HuhForms /\ [f.sr EXCEPT !.done = done] \in HuhForms
  BY <1>1 DEF HuhForms
<1>3. /\ [f EXCEPT !.c.done = done] = [f EXCEPT !.c = [f.c EXCEPT !.done = done]]
      /\ [f EXCEPT !.sr.done = done] = [f EXCEPT !.sr = [f.sr EXCEPT !.done = done]]
  BY DEF Forms
<1>4. [f EXCEPT !.c.done = done] \in Forms /\ [f EXCEPT !.sr.done = done] \in Forms
  BY <1>2, <1>3 DEF Forms
<1> QED
  BY <1>1, <1>4

LEMMA HuhUpdateTyped ==
  ASSUME NEW f \in Forms, NEW msg, MsgOK(msg), NEW cs
  PROVE  HuhUpdate(cs, f, msg) \in Forms
BY EditedTyped, WithDone DEF HuhUpdate

LEMMA ChosenTyped ==
  ASSUME NEW f \in Forms
  PROVE  Chosen(f) \in Forms
<1>1. ASSUME NEW g \in Forms PROVE AfterTransport(g) \in Forms
  <2> DEFINE v == [g.values EXCEPT !.ver = "none"]
             h == [[[g EXCEPT !.tls = "plain"] EXCEPT !.ver = "none"] EXCEPT !.values = v]
  <2>1. v \in Values
    BY DEF Forms, Values, Verifications
  <2>2. h \in Forms
    BY <2>1 DEF Forms, Transports, Verifications
  <2>3. [g EXCEPT !.tls = "plain", !.ver = "none", !.values.ver = "none"] = h
    BY DEF Forms
  <2>4. [RecreateC(g) EXCEPT !.tls = "tls"] \in Forms
    BY RecreateTyped DEF Forms, Transports
  <2> HIDE DEF h
  <2> QED
    BY <2>2, <2>3, <2>4, RecreateTyped DEF AfterTransport
<1>2. ASSUME NEW g \in Forms PROVE AfterVerification(g) \in Forms
  <2>1. RecreateC(g) \in Forms /\ g.values.ver \in Verifications
    BY RecreateTyped DEF Forms, Values
  <2> QED
    BY <2>1 DEF AfterVerification, Forms
<1>3. ASSUME NEW g \in Forms PROVE AfterAuth(g) \in Forms
  <2>1. RecreateC(g) \in Forms /\ g.values.sasl \in BOOLEAN
    BY RecreateTyped DEF Forms, Values
  <2> QED
    BY <2>1 DEF AfterAuth, Forms
<1>4. ASSUME NEW g \in Forms PROVE AfterSrTransport(g) \in Forms
  <2>1. RecreateSr(g) \in Forms /\ g.values.srTls \in Transports
    BY RecreateTyped DEF Forms, Values
  <2> QED
    BY <2>1 DEF AfterSrTransport, Forms
<1>5. ASSUME NEW g \in Forms PROVE AfterSrVerification(g) \in Forms
  <2>1. RecreateSr(g) \in Forms /\ g.values.srVer \in Verifications
    BY RecreateTyped DEF Forms, Values
  <2> QED
    BY <2>1 DEF AfterSrVerification, Forms
<1> QED
  BY <1>1, <1>2, <1>3, <1>4, <1>5 DEF Chosen

LEMMA SubmittedTyped ==
  ASSUME NEW f \in Forms, NEW check \in {"kcheck", "srcheck"}
  PROVE  LET o == Submitted(f, check)
         IN  /\ o.next \in Forms
             /\ o.cmds \in {<<>>, <<check>>, <<"crash">>}
BY DEF Submitted, Does, Forms

LEMMA AfterFormTyped ==
  ASSUME NEW f \in Forms, NEW msg, MsgOK(msg), NEW cs
  PROVE  LET o == AfterForm(cs, f, msg)
         IN  /\ o.next \in Forms
             /\ o.cmds \in {<<>>, <<"kcheck">>, <<"srcheck">>, <<"crash">>}
<1>1. Chosen(HuhUpdate(cs, f, msg)) \in Forms
  BY HuhUpdateTyped, ChosenTyped
<1> QED
  BY <1>1, SubmittedTyped DEF AfterForm

LEMMA DetachedTyped ==
  ASSUME NEW form \in HuhForms, NEW v \in Values
  PROVE  Detached(form, v) \in HuhForms
BY DEF Detached, HuhForms

LEMMA ResetTyped ==
  ASSUME NEW f \in Forms
  PROVE  Reset(f) \in Forms
<1> DEFINE c == Detached(f.c, f.values)
           sr == Detached(f.sr, f.values)
           blank == [[[f EXCEPT !.values = Blank] EXCEPT !.c = c] EXCEPT !.sr = sr]
           cleared == [[[blank EXCEPT !.tls = "none"] EXCEPT !.ver = "none"] EXCEPT !.sasl = FALSE]
<1>1. c \in HuhForms /\ sr \in HuhForms
  BY DetachedTyped DEF Forms
<1>2. Reset(f) = IF f.tab = "c" THEN RecreateC(cleared) ELSE RecreateSr(blank)
  BY DEF Reset
<1> HIDE DEF c, sr
<1>3. blank \in Forms
  BY <1>1, BlankTyped DEF Forms
<1> HIDE DEF blank
<1>4. cleared \in Forms
  BY <1>3 DEF Forms, Transports, Verifications
<1> HIDE DEF cleared
<1> QED
  BY <1>2, <1>3, <1>4, RecreateTyped

LEMMA TabsTyped ==
  ASSUME NEW f \in Forms
  PROVE  ToClusterTab(f) \in Forms /\ ToRegistryTab(f) \in Forms /\ ToConnectTab(f) \in Forms
<1>1. ToClusterTab(f) \in Forms
  BY DEF ToClusterTab, Forms
<1>2. ToRegistryTab(f) \in Forms
  <2> DEFINE g == [f EXCEPT !.sr.done = FALSE]
  <2>1. g \in Forms
    BY WithDone
  <2>2. [f EXCEPT !.shown = "sr", !.sr.done = FALSE, !.tab = "sr"]
          = [[g EXCEPT !.shown = "sr"] EXCEPT !.tab = "sr"]
    BY DEF Forms
  <2> HIDE DEF g
  <2> QED
    BY <2>1, <2>2 DEF ToRegistryTab, Forms
<1>3. ToConnectTab(f) \in Forms
  <2> DEFINE g == [f EXCEPT ![f.shown].done = FALSE]
             kc == Drawn(f.kc)
  <2>1. g \in Forms
    BY WithDone
  <2>2. kc \in KcForms
    BY DrawnTyped DEF Forms
  <2>3. [f EXCEPT ![f.shown].done = FALSE, !.tab = "kc", !.kc = kc]
          = [[g EXCEPT !.tab = "kc"] EXCEPT !.kc = kc]
    BY DEF Forms
  <2>4. ToConnectTab(f) = IF f.editing THEN [[g EXCEPT !.tab = "kc"] EXCEPT !.kc = kc] ELSE f
    <3>1. ToConnectTab(f) = IF f.editing
            THEN [f EXCEPT ![f.shown].done = FALSE, !.tab = "kc", !.kc = kc] ELSE f
      BY DEF ToConnectTab, Forms
    <3> QED
      BY <2>3, <3>1
  <2> HIDE DEF g, kc
  <2>5. [g EXCEPT !.tab = "kc"] \in Forms
    BY <2>1 DEF Forms
  <2>6. ASSUME NEW h \in Forms PROVE [h EXCEPT !.kc = kc] \in Forms
    BY <2>2 DEF Forms
  <2> QED
    BY <2>4, <2>5, <2>6
<1> QED
  BY <1>1, <1>2, <1>3

LEMMA KcStepTyped ==
  ASSUME NEW f \in Forms, NEW msg, MsgOK(msg), NEW row \in ConnectNames \cup {NoItem}
  PROVE  KcStep(f, msg, row).next \in Forms /\ KcStep(f, msg, row).cmds \in KcCmds
<1> DEFINE o == KcUpdate(f.kc, msg, row)
<1>1. o.next \in KcForms /\ o.cmds \in KcCmds
  BY KcUpdateTyped DEF Forms
<1>2. Drawn(o.next) \in KcForms
  BY <1>1, DrawnTyped
<1>3. KcStep(f, msg, row) = Does([f EXCEPT !.kc = Drawn(o.next)], o.cmds)
  BY DEF KcStep, KcShown
<1> HIDE DEF o
<1> QED
  BY <1>1, <1>2, <1>3 DEF Does, Forms

(* Only esc leaves the form from the Connect tab. *)
LEMMA KcLeaves ==
  ASSUME NEW kc \in KcForms, NEW msg, ~IsKey(msg, "esc"), NEW row
  PROVE  KcUpdate(kc, msg, row).cmds # <<"list">>
<1>1. ASSUME NEW k PROVE KcDeleted(k, msg.name).cmds # <<"list">>
  BY DEF KcDeleted, Does
<1>2. ASSUME NEW k PROVE AfterPrompt(k, msg).cmds # <<"list">>
  BY DEF AfterPrompt, Prompted, Does
<1>3. ASSUME NEW k PROVE BelowSwitch(k, msg).cmds # <<"list">>
  <2>1. AfterKcForm(k, msg).cmds # <<"list">>
    BY DEF AfterKcForm, Does
  <2> QED
    BY <1>2, <2>1 DEF BelowSwitch, Does
<1>4. KcF2(kc, msg, row).cmds # <<"list">>
  BY <1>2 DEF KcF2, Does
<1>5. KcEdit(kc, row).cmds # <<"list">>
  BY DEF KcEdit, Does
<1>6. /\ Does(kc, <<"await">>).cmds # <<"list">> /\ Does(kc, <<"register">>).cmds # <<"list">>
      /\ \A k : Does(k, <<>>).cmds # <<"list">>
  BY DEF Does
<1> QED
  BY <1>1, <1>3, <1>4, <1>5, <1>6 DEF KcUpdate

LEMMA HeardTyped ==
  ASSUME NEW f \in Forms, NEW msg, MsgOK(msg)
  PROVE  Heard(f, msg) \in Forms
<1>1. CASE msg.type \in {"kStarted", "srStarted", "kOk"}
  BY <1>1 DEF Heard, Forms
<1>2. CASE msg.type = "registered"
  <2>1. msg.cluster.name \in MaybeNames
    BY <1>2 DEF MsgOK, Cluster, MaybeNames
  <2> QED
    BY <1>2, <2>1 DEF Heard, Forms
<1>3. CASE msg.type \notin {"kStarted", "srStarted", "kOk", "registered"}
  BY <1>3, ResetTyped DEF Heard
<1> QED
  BY <1>1, <1>2, <1>3

LEMMA RenewedTyped ==
  ASSUME NEW f \in Forms, NEW msg
  PROVE  Renewed(f, msg) \in Forms
<1>1. ASSUME NEW g \in Forms PROVE [g EXCEPT !.loading = FALSE] \in Forms
  BY DEF Forms
<1>2. RecreateC(f) \in Forms /\ RecreateSr(f) \in Forms
  BY RecreateTyped
<1>3. [f EXCEPT !.kc = KcFailed(f.kc)] \in Forms
  BY KcFailedTyped DEF Forms
<1> QED
  BY <1>1, <1>2, <1>3, RecreateTyped DEF Renewed

LEMMA OnwardTyped ==
  ASSUME NEW f \in Forms, NEW msg, MsgOK(msg), NEW row \in ConnectNames \cup {NoItem}, NEW cs
  PROVE  LET o == Onward(cs, f, msg, row)
         IN  /\ o.next \in Forms
             /\ o.cmds \in {<<>>} \cup {<<c>> : c \in FormWords}
             /\ ~IsKey(msg, "esc") => o.cmds # <<"list">>
<1>1. CASE f.tab = "kc"
  <2>1. KcStep(f, msg, row).next \in Forms /\ KcStep(f, msg, row).cmds \in KcCmds
    BY KcStepTyped
  <2>2. ~IsKey(msg, "esc") => KcStep(f, msg, row).cmds # <<"list">>
    BY KcLeaves DEF KcStep, KcShown, Does, Forms
  <2> QED
    BY <1>1, <2>1, <2>2 DEF Onward, KcCmds, FormWords
<1>2. CASE f.tab # "kc"
  <2>1. Onward(cs, f, msg, row) \in {Does(f, <<>>), AfterForm(cs, f, msg)}
    BY <1>2 DEF Onward
  <2>2. /\ AfterForm(cs, f, msg).next \in Forms
        /\ AfterForm(cs, f, msg).cmds \in {<<>>, <<"kcheck">>, <<"srcheck">>, <<"crash">>}
    BY AfterFormTyped
  <2>3. AfterForm(cs, f, msg).cmds # <<"list">>
    <3>1. <<"list">> \notin {<<>>, <<"kcheck">>, <<"srcheck">>, <<"crash">>}
      OBVIOUS
    <3> QED
      BY <2>2, <3>1, Zenon
  <2>4. AfterForm(cs, f, msg).cmds \in {<<>>} \cup {<<c>> : c \in FormWords}
    BY <2>2 DEF FormWords
  <2> QED
    BY <2>1, <2>2, <2>3, <2>4 DEF Does
<1> QED
  BY <1>1, <1>2

LEMMA TwoTogether ==
  ASSUME NEW a, NEW c
  PROVE  <<a>> \o <<c>> = <<a, c>>
<1> DEFINE both == <<a>> \o <<c>>
<1>1. <<a>> \in Seq({a, c}) /\ <<c>> \in Seq({a, c})
  OBVIOUS
<1>2. both \in Seq({a, c}) /\ Len(both) = 2 /\ both[1] = a /\ both[2] = c
  BY <1>1, ConcatProperties
<1> HIDE DEF both
<1>3. both = <<both[1], both[2]>>
  BY <1>2
<1> QED
  BY <1>2, <1>3 DEF both

(* At most two commands; nothing follows the one that leaves the form. *)
LEMMA FormUpdateTyped ==
  ASSUME NEW f \in Forms, NEW msg, MsgOK(msg), NEW row \in ConnectNames \cup {NoItem}, NEW cs
  PROVE  LET o == FormUpdate(cs, f, msg, row)
         IN  o.next \in Forms /\ o.cmds \in FormCmds
<1> DEFINE o == FormUpdate(cs, f, msg, row)
           Plain == /\ ~(IsKey(msg, "esc") /\ f.tab # "kc")
                    /\ ~IsKey(msg, "f4") /\ ~IsKey(msg, "f5") /\ ~IsKey(msg, "f6")
                    /\ msg.type # "srOk"
<1>1. CASE ~Plain
  <2>1. <<"list">> \in FormCmds /\ <<"register">> \in FormCmds /\ <<>> \in FormCmds
    BY DEF FormCmds, FormWords
  <2>2. [f EXCEPT !.loading = FALSE] \in Forms
    BY DEF Forms
  <2> QED
    BY <1>1, <2>1, <2>2, TabsTyped DEF FormUpdate, Does
<1>2. CASE Plain
  <2> DEFINE on == Onward(cs, Heard(f, msg), msg, row)
  <2>1. /\ on.next \in Forms
        /\ on.cmds \in {<<>>} \cup {<<c>> : c \in FormWords}
        /\ ~IsKey(msg, "esc") => on.cmds # <<"list">>
    BY HeardTyped, OnwardTyped
  <2>2. o.next = Renewed(on.next, msg) /\ o.cmds = Asked(msg) \o on.cmds
    BY <1>2 DEF FormUpdate, Completed, Does
  <2> HIDE DEF on
  <2>3. CASE Asked(msg) = <<>>
    <3>1. o.cmds = on.cmds
      BY <2>1, <2>2, <2>3
    <3> QED
      BY <2>1, <2>2, <3>1, RenewedTyped DEF FormCmds
  <2>4. CASE Asked(msg) # <<>>
    <3>1. PICK a \in {"await", "register"} : Asked(msg) = <<a>>
      BY <2>4 DEF Asked
    <3>2. ~IsKey(msg, "esc")
      BY <2>4 DEF Asked, IsKey
    <3>3. CASE on.cmds = <<>>
      <4>1. o.cmds = <<a>>
        BY <2>2, <3>1, <3>3
      <4> QED
        BY <2>1, <2>2, <4>1, RenewedTyped DEF FormCmds, FormWords
    <3>4. CASE on.cmds # <<>>
      <4>1. PICK c \in FormWords : on.cmds = <<c>>
        BY <2>1, <3>4
      <4>2. c # "list"
        BY <2>1, <3>2, <4>1
      <4>3. <<a>> \o <<c>> = <<a, c>>
        BY TwoTogether
      <4>4. o.cmds = <<a, c>>
        BY <2>2, <3>1, <4>1, <4>3, Zenon
      <4> QED
        BY <2>1, <2>2, <4>2, <4>4, RenewedTyped DEF FormCmds
    <3> QED
      BY <3>3, <3>4
  <2> QED
    BY <2>3, <2>4
<1> QED
  BY <1>1, <1>2

-----------------------------------------------------------------------------
(* The clusters page.                                                      *)
LEMMA MinOfTwo ==
  ASSUME NEW a \in Int, NEW b \in Int
  PROVE  Min({a, b}) = IF a <= b THEN a ELSE b
<1> DEFINE m == IF a <= b THEN a ELSE b
<1>1. m \in {a, b} /\ \A y \in {a, b} : m <= y
  OBVIOUS
<1>2. \A x \in {a, b} : (\A y \in {a, b} : x <= y) => x = m
  OBVIOUS
<1> QED
  BY <1>1, <1>2 DEF Min

LEMMA MaxOfTwo ==
  ASSUME NEW a \in Int, NEW b \in Int
  PROVE  Max({a, b}) = IF a >= b THEN a ELSE b
<1> DEFINE m == IF a >= b THEN a ELSE b
<1>1. m \in {a, b} /\ \A y \in {a, b} : m >= y
  OBVIOUS
<1>2. \A x \in {a, b} : (\A y \in {a, b} : x >= y) => x = m
  OBVIOUS
<1> QED
  BY <1>1, <1>2 DEF Max

Clusters == Seq(Cluster)
ListPages == [kind : {"list"}, bars : Bars, rows : Seq(Names), cursor : Nat]

ListOK(p) == p \in ListPages /\ p.cursor <= Len(p.rows) /\ IsOpen(p.bars)

(* The rows are those of the configuration.                                *)
Fresh(cs, p) == p.rows = RowsOf(cs, p.bars.search.term)
Prompting(p) == p.bars.active = "delete"

(* The cursor stays where it is: the prompt has the focus, or the notifier *)
(* of a check does.                                                        *)
Held(b) == \/ b.active = "delete"
           \/ b.active = "notifier" /\ b.note.active /\ HasPriority(b)

(* What leaves it there.                                                   *)
CalmTypes == {"other", "edit", "kcname", "kStarted", "srStarted", "kcStarted"}
Calm(msg) == msg.type \in CalmTypes \/ (msg.type = "key" /\ msg.key \notin Closing)

LEMMA NamesAreItems == Names = Items /\ NoItem = NoName /\ NoName \notin Names
BY TabAssumption, FormAssumption DEF Names

LEMMA RowsTyped ==
  ASSUME NEW cs \in Clusters, NEW t
  PROVE  /\ RowsOf(cs, t) \in Seq(Names)
         /\ \A i \in 1..Len(RowsOf(cs, t)) : RowsOf(cs, t)[i] \in InUse(cs)
<1> DEFINE S == {n \in InUse(cs) : Matches(n, t)}
           rows == RowsOf(cs, t)
<1>1. rows \in Seq(Names \cap S)
  BY AmongTyped, TabAssumption DEF RowsOf
<1>2. \A x \in Names \cap S : x \in Names /\ x \in InUse(cs)
  OBVIOUS
<1> DEFINE Y == Names \cap S
<1>3. rows \in Seq(Y) /\ \A x \in Y : x \in Names /\ x \in InUse(cs)
  BY <1>1, <1>2
<1> HIDE DEF Y, S, rows
<1>4. rows \in Seq(Names) /\ \A i \in 1..Len(rows) : rows[i] \in InUse(cs)
  BY <1>3
<1> QED
  BY <1>4 DEF rows

LEMMA SelectedTyped ==
  ASSUME NEW p \in ListPages, p.cursor <= Len(p.rows)
  PROVE  Selected(p) \in MaybeNames
BY DEF Selected, ListPages, MaybeNames

LEMMA HandlersTyped == AreHandlers(ListHandlers)
<1> DEFINE Plain == {"spinning", "error", "success"}
<1>1. ASSUME NEW s \in Plain, NEW a \in BOOLEAN, NEW h \in BOOLEAN PROVE IsHandler(Handler(s, a, h))
  BY DEF IsHandler, Handler, NoteStates
<1>2. DOMAIN ListHandlers = {"deleted", "refused", "kStarted", "kErr", "connErr", "kOk", "switched"}
  BY DEF ListHandlers
<1>3. /\ ListHandlers["deleted"] = Handler("success", TRUE, TRUE)
      /\ ListHandlers["refused"] = Handler("error", TRUE, TRUE)
      /\ ListHandlers["kStarted"] = Handler("spinning", TRUE, FALSE)
      /\ ListHandlers["kErr"] = Handler("error", TRUE, FALSE)
      /\ ListHandlers["connErr"] = Handler("error", TRUE, FALSE)
      /\ ListHandlers["kOk"] = Handler("spinning", TRUE, FALSE)
      /\ ListHandlers["switched"] = Handler("success", TRUE, TRUE)
  BY DEF ListHandlers, Spin
<1> QED
  BY <1>1, <1>2, <1>3 DEF AreHandlers

LEMMA NewListPageOK ==
  ASSUME NEW cs \in Clusters
  PROVE  ListOK(ListPage(cs)) /\ ~Prompting(ListPage(cs))
<1> DEFINE rows == RowsOf(cs, EmptyTerm)
           p == ListPage(cs)
<1>1. rows \in Seq(Names)
  BY RowsTyped
<1>2. NewBars \in Bars /\ IsOpen(NewBars) /\ NewBars.active = "notifier"
  BY BarsAssumption DEF NewBars, Bars, IsOpen
<1>3. p = [kind |-> "list", bars |-> NewBars, rows |-> rows,
           cursor |-> IF rows = <<>> THEN 0 ELSE 1]
  BY DEF ListPage
<1>4. rows # <<>> => Len(rows) >= 1
  BY <1>1
<1> HIDE DEF p, rows
<1>5. p \in ListPages /\ p.cursor <= Len(p.rows) /\ IsOpen(p.bars) /\ ~Prompting(p)
  BY <1>1, <1>2, <1>3, <1>4 DEF ListPages, Prompting
<1> QED
  BY <1>5 DEF ListOK, p

LEMMA MovedTyped ==
  ASSUME NEW p \in ListPages, p.cursor <= Len(p.rows), NEW msg
  PROVE  /\ Moved(p, msg) \in ListPages
         /\ Moved(p, msg).bars = p.bars
<1>1. /\ p.cursor \in Nat /\ Len(p.rows) \in Nat
      /\ p.rows # <<>> => Len(p.rows) >= 1
  BY DEF ListPages
<1>2. Max({p.cursor - 1, 1}) \in Nat /\ Min({p.cursor + 1, Len(p.rows)}) \in Nat
  BY <1>1, MaxOfTwo, MinOfTwo
<1> QED
  BY <1>1, <1>2 DEF Moved, ListPages

(* At most one command comes of a message to the clusters page.            *)
ListWords == {"await", "switch", "check", "refuse", "delete", "crash"}

LEMMA FiveParts ==
  ASSUME NEW w
  PROVE  /\ <<w>> \o <<>> \o <<>> \o <<>> \o <<>> = <<w>>
         /\ <<>> \o <<w>> \o <<>> \o <<>> \o <<>> = <<w>>
         /\ <<>> \o <<>> \o <<w>> \o <<>> \o <<>> = <<w>>
         /\ <<>> \o <<>> \o <<>> \o <<w>> \o <<>> = <<w>>
         /\ <<>> \o <<>> \o <<>> \o <<>> \o <<w>> = <<w>>
         /\ <<>> \o <<>> \o <<>> \o <<>> \o <<>> = <<>>
<1>1. <<>> \in Seq({w})
  OBVIOUS
<1>2. <<w>> \in Seq({w})
  OBVIOUS
<1>3. \A x \in Seq({w}) : x \o <<>> = x /\ <<>> \o x = x
  BY ConcatEmptySeq
<1>4. <<w>> \o <<>> = <<w>> /\ <<>> \o <<w>> = <<w>> /\ <<>> \o <<>> = <<>>
  BY <1>1, <1>2, <1>3
<1> QED
  BY <1>4, Zenon

OneWord(p, msg, bars, valid, asked) ==
  /\ asked \in {<<>>} \cup {<<c>> : c \in ListWords}
  /\ msg.type = "kStarted" => asked = <<"await">>
  /\ msg.type = "kOk" => asked = <<"switch">>
  /\ asked = <<"await">> => msg.type = "kStarted"
  /\ asked = <<"switch">> => msg.type = "kOk"
  /\ msg.type # "key" => asked \in {<<>>, <<"await">>, <<"switch">>}
  /\ asked = <<"delete">> => /\ Prompting(p) /\ bars.active = "delete"
                             /\ p.bars.del.value \in valid /\ IsKey(msg, "enter")

LEMMA AsksOne ==
  ASSUME NEW p \in ListPages, IsOpen(p.bars), NEW msg, IsMessage(msg),
         NEW sel, NEW valid, valid \subseteq Names, NEW cs
  PROVE  OneWord(p, msg, TableUpdate(p.bars, msg, sel, ListHandlers, valid).next, valid,
                 Asks(cs, p, msg, TableUpdate(p.bars, msg, sel, ListHandlers, valid).cmds))
<1> DEFINE o == TableUpdate(p.bars, msg, sel, ListHandlers, valid)
           refuse == IF cs = <<>> THEN "crash" ELSE "refuse"
           asked == Asks(cs, p, msg, o.cmds)
           a == IF msg.type = "kStarted" THEN <<"await">> ELSE <<>>
           b == IF msg.type = "kOk" THEN <<"switch">> ELSE <<>>
           c == IF IsKey(msg, "enter") /\ ~IsFocussed(p.bars) THEN <<"check">> ELSE <<>>
           d == IF RefuseCmd \in o.cmds THEN <<refuse>> ELSE <<>>
           e == IF \E n \in Names : DeleteCmd(n) \in o.cmds THEN <<"delete">> ELSE <<>>
<1>1. asked = a \o b \o c \o d \o e
  BY DEF Asks
<1>2. p.bars \in Bars
  BY DEF ListPages
<1>3. CASE ~Answers(o.cmds)
  <2>1. d = <<>> /\ e = <<>>
    BY <1>3 DEF Answers
  <2> HIDE DEF o, asked, d, e
  <2>2. CASE msg.type = "kStarted"
    <3>1. a = <<"await">> /\ b = <<>> /\ c = <<>>
      BY <2>2 DEF IsKey
    <3> HIDE DEF a, b, c
    <3>2. asked = <<"await">>
      BY <1>1, <2>1, <3>1, FiveParts, Zenon
    <3> QED
      BY <2>2, <3>2 DEF OneWord, ListWords, o, asked
  <2>3. CASE msg.type = "kOk"
    <3>1. a = <<>> /\ b = <<"switch">> /\ c = <<>>
      BY <2>3 DEF IsKey
    <3> HIDE DEF a, b, c
    <3>2. asked = <<"switch">>
      BY <1>1, <2>1, <3>1, FiveParts, Zenon
    <3> QED
      BY <2>3, <3>2 DEF OneWord, ListWords, o, asked
  <2>4. CASE msg.type \notin {"kStarted", "kOk"} /\ IsKey(msg, "enter") /\ ~IsFocussed(p.bars)
    <3>1. a = <<>> /\ b = <<>> /\ c = <<"check">>
      BY <2>4
    <3> HIDE DEF a, b, c
    <3>2. asked = <<"check">>
      BY <1>1, <2>1, <3>1, FiveParts, Zenon
    <3> QED
      BY <2>4, <3>2 DEF OneWord, ListWords, o, asked, IsKey
  <2>5. CASE msg.type \notin {"kStarted", "kOk"} /\ ~(IsKey(msg, "enter") /\ ~IsFocussed(p.bars))
    <3>1. a = <<>> /\ b = <<>> /\ c = <<>>
      BY <2>5
    <3> HIDE DEF a, b, c
    <3>2. asked = <<>>
      BY <1>1, <2>1, <3>1, FiveParts, Zenon
    <3> QED
      BY <2>5, <3>2 DEF OneWord, ListWords, o, asked
  <2> QED
    BY <2>2, <2>3, <2>4, <2>5
<1>4. CASE Answers(o.cmds)
  <2>1. /\ p.bars.active = "delete" /\ IsKey(msg, "enter") /\ o.next.active = "delete"
        /\ \/ o.cmds = {RefuseCmd}
           \/ o.cmds = {DeleteCmd(p.bars.del.value)} /\ p.bars.del.value \in valid
    <3> DEFINE b0 == p.bars
    <3>1. b0 \in Bars /\ IsOpen(b0)
      BY <1>2
    <3>2. AreHandlers(ListHandlers)
      BY HandlersTyped
    <3>3. Answers(TableUpdate(b0, msg, sel, ListHandlers, valid).cmds)
      BY <1>4
    <3> DEFINE o0 == TableUpdate(b0, msg, sel, ListHandlers, valid)
    <3> HIDE DEF b0, a, b, c, d, e, asked
    <3>4. /\ b0.active = "delete" /\ IsKey(msg, "enter") /\ o0.next.active = "delete"
          /\ \/ o0.cmds = {RefuseCmd}
             \/ o0.cmds = {DeleteCmd(b0.del.value)} /\ b0.del.value \in valid
      <4> HIDE DEF o0
      <4>1. ASSUME NEW x, x = TableUpdate(b0, msg, sel, ListHandlers, valid)
            PROVE  /\ b0.active = "delete" /\ IsKey(msg, "enter") /\ x.next.active = "delete"
                   /\ \/ x.cmds = {RefuseCmd}
                      \/ x.cmds = {DeleteCmd(b0.del.value)} /\ b0.del.value \in valid
        BY <1>2, <3>1, <3>2, <3>3, <4>1, TableUpdateAnswers
      <4> QED
        BY <4>1 DEF o0
    <3> QED
      BY <3>4 DEF b0
  <2>2. IsFocussed(p.bars) /\ msg.type = "key"
    BY <2>1 DEF IsFocussed, IsOpen, IsKey
  <2>3. a = <<>> /\ b = <<>> /\ c = <<>>
    BY <2>2
  <2>4. \A t : RefuseCmd # DeleteCmd(t)
    BY DEF RefuseCmd, DeleteCmd
  <2> HIDE DEF a, b, c, asked
  <2>5. CASE o.cmds = {RefuseCmd}
    <3>1. d = <<refuse>> /\ e = <<>>
      BY <2>4, <2>5
    <3> HIDE DEF d, e
    <3>2. asked = <<refuse>>
      BY <1>1, <2>3, <3>1, FiveParts, Zenon
    <3> HIDE DEF o
    <3> QED
      BY <2>2, <3>2 DEF OneWord, ListWords, o, asked
  <2>6. CASE o.cmds = {DeleteCmd(p.bars.del.value)} /\ p.bars.del.value \in valid
    <3>1. d = <<>> /\ e = <<"delete">>
      BY <2>4, <2>6
    <3> HIDE DEF d, e
    <3>2. asked = <<"delete">>
      BY <1>1, <2>3, <3>1, FiveParts, Zenon
    <3> HIDE DEF o
    <3> QED
      BY <2>1, <2>2, <2>6, <3>2 DEF OneWord, ListWords, Prompting, o, asked
  <2> QED
    BY <2>1, <2>5, <2>6
<1> QED
  BY <1>3, <1>4

(* A prompt is opened by a key.                                            *)
LEMMA NoPromptOpened ==
  ASSUME NEW b \in Bars, IsOpen(b), NEW msg, IsMessage(msg), ~IsKey(msg, "f2"),
         NEW sel, NEW handlers, AreHandlers(handlers), NEW valid
  PROVE  PromptFrom(b, TableUpdate(b, msg, sel, handlers, valid).next, NoItem)
<1>1. \A c : ToBars(c, msg, sel, handlers, valid) = ToBars(c, msg, NoItem, handlers, valid)
  BY DEF ToBars
<1>2. TableUpdate(b, msg, sel, handlers, valid) = TableUpdate(b, msg, NoItem, handlers, valid)
  BY <1>1 DEF TableUpdate
<1> QED
  BY <1>2, TableUpdatePrompt

(* A spinning notifier and an open prompt keep the focus, and the search   *)
(* its term.                                                               *)
LEMMA HeldStays ==
  ASSUME NEW b \in Bars, IsOpen(b), Held(b), NEW msg, Calm(msg), NEW sel, NEW valid
  PROVE  LET c == TableUpdate(b, msg, sel, ListHandlers, valid).next
         IN  Held(c) /\ c.search.term = b.search.term
<1> DEFINE n == NotifierUpdate(b, msg, ListHandlers)
           rest == [n.next EXCEPT !.searchPrevActive = @ \/ b.active = "search"]
           table == TableUpdate(b, msg, sel, ListHandlers, valid)
           spun == [b EXCEPT !.note = [state |-> "spinning", active |-> TRUE, autoHide |-> FALSE]]
<1>1. DOMAIN ListHandlers = {"deleted", "refused", "kStarted", "kErr", "connErr", "kOk", "switched"}
  BY DEF ListHandlers
<1>2. /\ msg.type \notin {"tick", "hide"}
      /\ msg.type \in DOMAIN ListHandlers => msg.type = "kStarted"
  BY <1>1 DEF Calm, CalmTypes
<1>3. CASE msg.type = "kStarted"
  <2>1. n = Notify(b, Spin)
    <3>1. ListHandlers[msg.type] = Spin
      BY <1>3 DEF ListHandlers
    <3> QED
      BY <1>1, <1>3, <3>1 DEF NotifierUpdate
  <2>2. n.next = spun /\ n.active /\ n.handled
    BY <2>1 DEF Notify, Spin, Handler, Outcome
  <2>3. spun \in Bars /\ spun.active = b.active /\ spun.search = b.search
        /\ spun.note.state = "spinning" /\ spun.note.active
    BY DEF Bars
  <2>4. table.next = [spun EXCEPT !.active = IF b.active = "notifier" THEN @ ELSE "notifier"]
    <3>1. CASE b.active = "notifier"
      <4>1. HasPriority(b)
        BY <3>1 DEF Held
      <4>2. table = [n EXCEPT !.next.active = IF n.active THEN @ ELSE "none"]
        BY <3>1, <4>1 DEF TableUpdate
      <4> QED
        BY <2>1, <2>2, <3>1, <4>2 DEF Notify, Outcome
    <3>2. CASE b.active # "notifier"
      <4>1. table = [n EXCEPT !.next.active = "notifier"]
        BY <2>2, <3>2 DEF TableUpdate
      <4> QED
        BY <2>1, <2>2, <3>2, <4>1 DEF Notify, Outcome
    <3> QED
      BY <3>1, <3>2
  <2> HIDE DEF table, n
  <2>5. /\ table.next.active = "notifier" /\ table.next.note = spun.note
        /\ table.next.search = b.search
    BY <2>3, <2>4 DEF Bars
  <2> HIDE DEF spun
  <2> QED
    BY <2>3, <2>5 DEF Held, HasPriority, table
<1>4. CASE msg.type # "kStarted"
  <2>1. n = Outcome(b, b.note.active, FALSE, {})
    BY <1>2, <1>4 DEF NotifierUpdate
  <2>2. n.next = b /\ n.active = b.note.active /\ ~n.handled
    BY <2>1 DEF Outcome
  <2>3. CASE b.active = "notifier"
    <3>1. HasPriority(b) /\ b.note.active
      BY <2>3 DEF Held
    <3>2. table = [n EXCEPT !.next.active = IF n.active THEN @ ELSE "none"]
      BY <2>3, <3>1 DEF TableUpdate
    <3>3. table.next = [b EXCEPT !.active = IF b.note.active THEN @ ELSE "none"]
      BY <2>1, <2>2, <3>2 DEF Outcome
    <3> HIDE DEF table, n
    <3>4. table.next = b
      BY <3>1, <3>3 DEF Bars
    <3> QED
      BY <3>4 DEF table
  <2>4. CASE b.active = "delete"
    <3> DEFINE prev == b.searchPrevActive \/ b.active = "search"
    <3>1. rest = [b EXCEPT !.searchPrevActive = prev]
      BY <2>2
    <3>2. prev \in BOOLEAN
      OBVIOUS
    <3> HIDE DEF prev
    <3>3. /\ rest \in Bars /\ rest.active = "delete" /\ rest.del = b.del
          /\ rest.search = b.search /\ b.del.active
      BY <2>4, <3>1, <3>2 DEF Bars, IsOpen
    <3>4. table = ToBars(rest, msg, sel, ListHandlers, valid)
      BY <2>2, <2>4 DEF TableUpdate
    <3> HIDE DEF rest, table, n
    <3>5. /\ ~IsKey(msg, "/") /\ ~IsKey(msg, "f2") /\ ~IsKey(msg, "esc")
          /\ ~IsKey(msg, "enter")
      BY DEF Calm, CalmTypes, IsKey, Closing
    <3>6. CASE IsKey(msg, "f3")
      <4>1. table.next = rest
        BY <3>4, <3>5, <3>6, TabAssumption DEF ToBars, Outcome
      <4> QED
        BY <3>3, <4>1 DEF Held, table
    <3>7. CASE ~IsKey(msg, "f3")
      <4> DEFINE o == DeleteStep(rest, msg, valid)
                 d == DeleteUpdate(rest.del, msg, "f2", valid)
      <4>1. d.active = rest.del.active /\ o = [d EXCEPT !.next = [rest EXCEPT !.del = d.next]]
        BY <3>5 DEF DeleteStep, DeleteUpdate, Outcome
      <4>2. o.active /\ o.next = [rest EXCEPT !.del = d.next]
        BY <3>3, <4>1 DEF DeleteUpdate, Outcome, Enter, Closed
      <4> HIDE DEF d
      <4>3. table = [o EXCEPT !.next = IF o.active THEN @ ELSE GiveWay(@)]
        BY <3>3, <3>4, <3>5, <3>7 DEF ToBars, ToActive, ActiveUpdate
      <4>4. table.next = o.next
        BY <4>1, <4>2, <4>3 DEF DeleteStep, DeleteUpdate, Outcome, Enter, Closed
      <4> HIDE DEF o
      <4>5. table.next.active = "delete" /\ table.next.search = b.search
        BY <3>3, <4>2, <4>4 DEF Bars
      <4> QED
        BY <4>5 DEF Held, table
    <3> QED
      BY <3>6, <3>7
  <2> QED
    BY <2>3, <2>4 DEF Held
<1> QED
  BY <1>3, <1>4

(* What an update of the clusters page returns: the rows of the            *)
(* configuration, a prompt opened by a key for the row selected or left    *)
(* open, and at most one command.                                          *)
ListKept(cs, p, msg, o) ==
  /\ ListOK(o.next) /\ Fresh(cs, o.next)
  /\ OneWord(p, msg, o.next.bars, Deletable(cs), o.cmds)
  /\ Prompting(o.next) =>
       /\ Fresh(cs, p) => o.next.rows = p.rows
       /\ o.next.rows = p.rows /\ ~Misnamed(p) => ~Misnamed(o.next)
       /\ Prompting(p) \/ IsKey(msg, "f2")
       /\ Prompting(p) => o.next.bars.del.value = p.bars.del.value
  /\ Held(p.bars) /\ Calm(msg) =>
       /\ Held(o.next.bars)
       /\ Fresh(cs, p) => Selected(o.next) = Selected(p)

LEMMA ListUpdateKeeps ==
  ASSUME NEW cs \in Clusters, NEW p, ListOK(p), p.kind = "list", NEW msg, IsMessage(msg)
  PROVE  ListKept(cs, p, msg, ListUpdate(cs, p, msg))
<1> DEFINE b == p.bars
           t == TableUpdate(b, msg, Selected(p), ListHandlers, Deletable(cs))
           o == ListUpdate(cs, p, msg)
           rows == RowsOf(cs, t.next.search.term)
           moved == IF IsFocussed(t.next) THEN p ELSE Moved(p, msg)
           drawn == [moved EXCEPT !.bars = t.next]
<1>1. p \in ListPages /\ p.cursor <= Len(p.rows) /\ b \in Bars /\ IsOpen(b)
  BY DEF ListOK, ListPages
<1>2. Selected(p) \in Items \cup {NoItem} /\ Deletable(cs) \subseteq Names
  BY <1>1, SelectedTyped, NamesAreItems DEF MaybeNames, Deletable
<1>3. o.next = WithRows(drawn, rows) /\ o.cmds = Asks(cs, p, msg, t.cmds)
  BY DEF ListUpdate, TableAndRows, Does
<1>4. t.next \in Bars /\ IsOpen(t.next)
  <2> HIDE DEF b
  <2> QED
    BY <1>1, <1>2, HandlersTyped, TableUpdateKeeps
<1>5. PromptFrom(b, t.next, Selected(p)) /\ (~IsKey(msg, "f2") => PromptFrom(b, t.next, NoItem))
  <2> HIDE DEF b
  <2>1. PromptFrom(b, t.next, Selected(p))
    BY <1>1, <1>2, HandlersTyped, TableUpdatePrompt
  <2>2. ~IsKey(msg, "f2") => PromptFrom(b, t.next, NoItem)
    BY <1>1, HandlersTyped, NoPromptOpened
  <2> QED
    BY <2>1, <2>2
<1>6. OneWord(p, msg, t.next, Deletable(cs), o.cmds)
  <2> DEFINE asked == Asks(cs, p, msg, t.cmds)
  <2>1. OneWord(p, msg, t.next, Deletable(cs), asked)
    <3> HIDE DEF o
    <3>1. p \in ListPages /\ IsOpen(p.bars) /\ Deletable(cs) \subseteq Names
      BY <1>1, <1>2
    <3> QED
      BY <3>1, AsksOne, Zenon
  <2>2. o.cmds = asked
    BY <1>3
  <2> HIDE DEF o, asked, t
  <2> QED
    BY <2>1, <2>2
<1>7. rows \in Seq(Names)
  BY RowsTyped
<1>8. moved \in ListPages
  BY <1>1, MovedTyped
<1>9. /\ o.next \in ListPages /\ o.next.cursor <= Len(o.next.rows)
      /\ o.next.bars = t.next /\ o.next.rows = rows
      /\ o.next.cursor = Min({moved.cursor, Len(rows)})
  <2> HIDE DEF t, o, rows, moved
  <2>1. drawn \in ListPages /\ drawn.bars = t.next /\ drawn.cursor = moved.cursor
    BY <1>4, <1>8 DEF ListPages
  <2> HIDE DEF drawn
  <2> DEFINE c == Min({drawn.cursor, Len(rows)})
  <2>2. c \in Nat /\ c <= Len(rows)
    BY <1>7, <2>1, MinOfTwo DEF ListPages
  <2>3. o.next = [[drawn EXCEPT !.rows = rows] EXCEPT !.cursor = c]
    BY <1>3, <2>1 DEF WithRows, ListPages
  <2>4. c = Min({moved.cursor, Len(rows)})
    BY <2>1
  <2> HIDE DEF c
  <2> QED
    BY <1>7, <2>1, <2>2, <2>3, <2>4 DEF ListPages
<1>10. ListOK(o.next) /\ Fresh(cs, o.next)
  BY <1>4, <1>9 DEF Fresh, ListOK
<1>11. IsFocussed(t.next) /\ o.next.rows = p.rows => Selected(o.next) = Selected(p)
  <2> SUFFICES ASSUME IsFocussed(t.next), o.next.rows = p.rows PROVE Selected(o.next) = Selected(p)
    OBVIOUS
  <2>1. moved = p
    OBVIOUS
  <2> HIDE DEF t, o, moved, rows
  <2>2. p.cursor \in Nat /\ Len(p.rows) \in Nat
    BY <1>1 DEF ListPages
  <2>3. o.next.cursor = p.cursor
    BY <1>1, <1>9, <2>1, <2>2, MinOfTwo
  <2> QED
    BY <2>3 DEF Selected
<1>12. ASSUME Prompting(o.next)
       PROVE  /\ Fresh(cs, p) => o.next.rows = p.rows
              /\ o.next.rows = p.rows /\ ~Misnamed(p) => ~Misnamed(o.next)
              /\ Prompting(p) \/ IsKey(msg, "f2")
              /\ Prompting(p) => o.next.bars.del.value = p.bars.del.value
  <2>1. t.next.active = "delete" /\ IsFocussed(t.next)
    BY <1>4, <1>9, <1>12 DEF Prompting, IsFocussed, IsOpen
  <2> HIDE DEF t, o, moved
  <2>2. /\ t.next.search.term = b.search.term
        /\ \/ Prompting(p) /\ t.next.del.value = b.del.value
           \/ ~Prompting(p) /\ t.next.del.value = Selected(p)
        /\ Prompting(p) \/ IsKey(msg, "f2")
    BY <1>5, <2>1 DEF PromptFrom, Prompting
  <2>3. Fresh(cs, p) => o.next.rows = p.rows
    BY <1>9, <2>2 DEF Fresh
  <2> HIDE DEF rows
  <2>4. o.next.rows = p.rows /\ ~Misnamed(p) => ~Misnamed(o.next)
    BY <1>9, <1>11, <2>1, <2>2 DEF Misnamed, Prompting
  <2> QED
    BY <1>9, <2>2, <2>3, <2>4
<1>13. ASSUME Held(b), Calm(msg)
       PROVE  Held(o.next.bars) /\ (Fresh(cs, p) => Selected(o.next) = Selected(p))
  <2>1. Held(t.next) /\ t.next.search.term = b.search.term
    <3> HIDE DEF b
    <3> QED
      BY <1>1, <1>13, HeldStays
  <2>2. IsFocussed(t.next)
    BY <1>4, <2>1 DEF Held, IsFocussed, IsOpen
  <2>3. Fresh(cs, p) => o.next.rows = p.rows
    BY <1>9, <2>1 DEF Fresh
  <2> QED
    BY <1>9, <1>11, <2>1, <2>2, <2>3
<1>14. OneWord(p, msg, o.next.bars, Deletable(cs), o.cmds)
  BY <1>6, <1>9
<1> HIDE DEF o
<1> QED
  BY <1>10, <1>12, <1>13, <1>14 DEF ListKept, o

-----------------------------------------------------------------------------
(* The configuration.                                                      *)

LEMMA FirstIsMember ==
  ASSUME NEW I, I \subseteq Nat, I # {}
  PROVE  FirstOf(I) \in I
<1> DEFINE R == {p \in Nat \X Nat : p[1] < p[2]}
<1>1. \A i, j \in Nat : j < i => <<j, i>> \in R
  OBVIOUS
<1>2. IsWellFoundedOn(R, Nat)
  BY BelowWellFounded
<1> HIDE DEF R
<1>3. PICK i \in I : \A j \in I : <<j, i>> \notin R
  BY <1>2, WFMin
<1>4. \A j \in I : i <= j
  <2>1. \A j \in I : ~(j < i)
    BY <1>1, <1>3
  <2> QED
    BY <2>1
<1> QED
  BY <1>4 DEF FirstOf

LEMMA LastIsMember ==
  ASSUME NEW n \in Nat, NEW I, I \subseteq 1..n, I # {}
  PROVE  Max(I) \in I
<1> DEFINE Below == {n - i : i \in I}
<1>0. \A i \in I : i \in 1..n /\ n - i \in Nat
  OBVIOUS
<1>1. Below \subseteq Nat /\ Below # {}
  BY <1>0
<1>2. PICK i \in I : \A j \in I : n - i <= n - j
  <2> DEFINE R == {p \in Nat \X Nat : p[1] < p[2]}
  <2>1. \A a, b \in Nat : b < a => <<b, a>> \in R
    OBVIOUS
  <2>2. IsWellFoundedOn(R, Nat)
    BY BelowWellFounded
  <2> HIDE DEF R, Below
  <2>3. PICK a \in Below : \A b \in Below : <<b, a>> \notin R
    BY <1>1, <2>2, WFMin
  <2>4. \A b \in Below : ~(b < a)
    BY <1>1, <2>1, <2>3
  <2>5. PICK i \in I : a = n - i
    BY DEF Below
  <2>6. \A j \in I : ~(n - j < n - i)
    BY <2>4, <2>5 DEF Below
  <2> QED
    BY <1>0, <2>6
<1>3. \A j \in I : i >= j
  BY <1>2
<1> QED
  BY <1>3 DEF Max

LEMMA FirstNamed ==
  ASSUME NEW cs \in Clusters, NEW n, Named(cs, n) # {}
  PROVE  /\ FirstOf(Named(cs, n)) \in 1..Len(cs)
         /\ cs[FirstOf(Named(cs, n))].name = n
         /\ cs[FirstOf(Named(cs, n))] \in Cluster
<1>1. Named(cs, n) \subseteq 1..Len(cs)
  BY DEF Named, Clusters
<1>2. FirstOf(Named(cs, n)) \in Named(cs, n)
  BY <1>1, FirstIsMember
<1> QED
  BY <1>1, <1>2 DEF Named, Clusters

LEMMA FoundTyped ==
  ASSUME NEW cs \in Clusters, NEW n
  PROVE  Found(cs, n) \in Cluster \cup {NoCluster}
BY FirstNamed DEF Found

LEMMA ActiveTyped ==
  ASSUME NEW cs \in Clusters
  PROVE  ActiveCluster(cs) \in Cluster \cup {NoCluster}
<1>1. Active(cs) \subseteq 1..Len(cs)
  BY DEF Active, Clusters
<1>2. ASSUME Active(cs) # {} PROVE cs[FirstOf(Active(cs))] \in Cluster
  <2>1. FirstOf(Active(cs)) \in 1..Len(cs)
    BY <1>1, <1>2, FirstIsMember
  <2> QED
    BY <2>1 DEF Clusters
<1> QED
  BY <1>2 DEF ActiveCluster, Clusters

(* What is registered is a cluster, and no cluster is lost.                *)
LEMMA RegisteredTyped ==
  ASSUME NEW cs \in Clusters, NEW r \in Registrations
  PROVE  /\ Registered(cs, r) \in Clusters
         /\ Len(Registered(cs, r)) >= Len(cs)
         /\ ToCluster(cs, r) \in Cluster
<1> DEFINE k == FirstOf(Named(cs, r.name))
           new == ToCluster(cs, r)
           put == [new EXCEPT !.name = IF r.newName = NoName THEN @ ELSE r.newName]
<1>1. /\ r.name \in Names /\ r.newName \in Names \cup {NoName}
      /\ r.details \in Details /\ r.connect \in Seq(Connects \cup {NoConnect})
  BY DEF Registrations, MaybeNames, ConnectLists, ConnectNames
<1>2. CASE Named(cs, r.name) = {}
  <2>1. new \in Cluster
    BY <1>1, <1>2 DEF ToCluster, Cluster
  <2> HIDE DEF new
  <2>2. Registered(cs, r) = Append(cs, new)
    BY <1>2 DEF Registered, new
  <2> QED
    BY <2>1, <2>2, AppendProperties DEF Clusters, new
<1>3. CASE Named(cs, r.name) # {}
  <2>1. k \in 1..Len(cs) /\ cs[k] \in Cluster
    BY <1>3, FirstNamed
  <2>2. cs[k].active \in BOOLEAN
    BY <2>1 DEF Cluster
  <2>3. new = [name |-> r.name, active |-> cs[k].active, details |-> r.details,
               connect |-> r.connect]
    BY <1>3 DEF ToCluster
  <2>4. new \in Cluster
    BY <1>1, <2>2, <2>3 DEF Cluster
  <2> HIDE DEF new
  <2>5. put \in Cluster
    BY <1>1, <2>4 DEF Cluster
  <2>6. Registered(cs, r) = [cs EXCEPT ![k] = put]
    BY <1>3 DEF Registered, new
  <2> HIDE DEF put, k
  <2> QED
    BY <2>1, <2>4, <2>5, <2>6 DEF Clusters, new
<1> QED
  BY <1>2, <1>3

(* Switching keeps the names.                                              *)
LEMMA SetActive ==
  ASSUME NEW c \in Cluster, NEW a \in BOOLEAN
  PROVE  /\ [c EXCEPT !.active = a] \in Cluster
         /\ [c EXCEPT !.active = a].name = c.name
BY Zenon DEF Cluster

LEMMA SwitchedTyped ==
  ASSUME NEW cs \in Clusters, NEW n
  PROVE  /\ Switched(cs, n) \in Clusters
         /\ Len(Switched(cs, n)) = Len(cs)
         /\ InUse(Switched(cs, n)) = InUse(cs)
         /\ n \in InUse(cs) =>
              /\ Named(Switched(cs, n), n) # {}
              /\ Switched(cs, n)[Max(Named(Switched(cs, n), n))] \in Cluster
<1> DEFINE now == Switched(cs, n)
<1>1. DOMAIN now = 1..Len(cs)
  BY DEF Switched, Clusters
<1>2. ASSUME NEW i \in 1..Len(cs) PROVE now[i] \in Cluster /\ now[i].name = cs[i].name
  <2> DEFINE c == cs[i]
             a == cs[i].name = n
  <2>1. c \in Cluster /\ a \in BOOLEAN
    BY DEF Clusters
  <2>2. now[i] = [c EXCEPT !.active = a]
    BY DEF Switched, Clusters
  <2> HIDE DEF c, a, now
  <2>3. now[i] \in Cluster /\ now[i].name = c.name
    BY <2>1, <2>2, SetActive
  <2> QED
    BY <2>3 DEF c
<1> HIDE DEF now
<1>3. now \in Clusters /\ Len(now) = Len(cs)
  <2>1. now = [i \in 1..Len(cs) |-> now[i]]
    BY <1>1 DEF now, Switched
  <2> QED
    BY <1>1, <1>2, <2>1 DEF Clusters
<1>4. InUse(now) = InUse(cs)
  BY <1>1, <1>2 DEF InUse, Clusters
<1>5. ASSUME n \in InUse(cs) PROVE Named(now, n) # {} /\ now[Max(Named(now, n))] \in Cluster
  <2>1. Named(now, n) \subseteq 1..Len(cs) /\ Named(now, n) # {}
    BY <1>1, <1>4, <1>5 DEF Named, InUse
  <2>2. Len(cs) \in Nat
    BY DEF Clusters
  <2>3. Max(Named(now, n)) \in 1..Len(cs)
    BY <2>1, <2>2, LastIsMember
  <2> QED
    BY <1>2, <2>1, <2>3
<1> QED
  BY <1>3, <1>4, <1>5 DEF now

(* Deleting takes away one cluster: its name is gone, or another has it.   *)
LEMMA WithoutTyped ==
  ASSUME NEW cs \in Clusters, NEW k \in 1..Len(cs)
  PROVE  /\ Without(cs, k) \in Clusters
         /\ Len(Without(cs, k)) = Len(cs) - 1
         /\ InUse(Without(cs, k)) = {cs[i].name : i \in (1..Len(cs)) \ {k}}
<1> DEFINE At(i) == IF i < k THEN i ELSE i + 1
           rest == Without(cs, k)
<1>1. Len(cs) - 1 \in Nat /\ Len(cs) \in Nat
  BY DEF Clusters
<1>2. \A i \in 1..(Len(cs) - 1) : At(i) \in (1..Len(cs)) \ {k} /\ rest[i] = cs[At(i)]
  BY <1>1 DEF Without
<1>3. \A j \in (1..Len(cs)) \ {k} : \E i \in 1..(Len(cs) - 1) : At(i) = j
  <2> SUFFICES ASSUME NEW j \in (1..Len(cs)) \ {k}
               PROVE  \E i \in 1..(Len(cs) - 1) : At(i) = j
    OBVIOUS
  <2>1. CASE j < k
    <3>1. j \in 1..(Len(cs) - 1) /\ At(j) = j
      BY <1>1, <2>1
    <3> QED
      BY <3>1
  <2>2. CASE ~(j < k)
    <3>1. j - 1 \in 1..(Len(cs) - 1) /\ At(j - 1) = j
      BY <1>1, <2>2
    <3> QED
      BY <3>1
  <2> QED
    BY <2>1, <2>2
<1>4. rest \in Clusters /\ Len(rest) = Len(cs) - 1
  <2>1. rest \in [1..(Len(cs) - 1) -> Cluster]
    BY <1>1 DEF Without, Clusters
  <2> QED
    BY <1>1, <2>1 DEF Clusters
<1> HIDE DEF At, rest
<1>5. InUse(rest) = {cs[i].name : i \in (1..Len(cs)) \ {k}}
  <2>1. DOMAIN rest = 1..(Len(cs) - 1)
    BY <1>1, <1>4 DEF Clusters
  <2>2. ASSUME NEW i \in 1..(Len(cs) - 1)
        PROVE  rest[i].name \in {cs[j].name : j \in (1..Len(cs)) \ {k}}
    BY <1>2
  <2>3. ASSUME NEW j \in (1..Len(cs)) \ {k}
        PROVE  cs[j].name \in {rest[i].name : i \in 1..(Len(cs) - 1)}
    <3>1. PICK i \in 1..(Len(cs) - 1) : At(i) = j
      BY <1>3
    <3>2. rest[i] = cs[j]
      BY <1>2, <3>1
    <3> QED
      BY <3>2
  <2> QED
    BY <2>1, <2>2, <2>3 DEF InUse
<1> QED
  BY <1>4, <1>5 DEF rest

LEMMA MarkedTyped ==
  ASSUME NEW cs \in Clusters, cs # <<>>
  PROVE  /\ [cs EXCEPT ![1].active = TRUE] \in Clusters
         /\ Len([cs EXCEPT ![1].active = TRUE]) = Len(cs)
         /\ InUse([cs EXCEPT ![1].active = TRUE]) = InUse(cs)
<1> DEFINE c == [cs[1] EXCEPT !.active = TRUE]
           marked == [cs EXCEPT ![1] = c]
<1>1. 1 \in 1..Len(cs) /\ cs[1] \in Cluster
  BY DEF Clusters
<1>2. c \in Cluster /\ c.name = cs[1].name
  BY <1>1, SetActive
<1>3. [cs EXCEPT ![1].active = TRUE] = marked
  OBVIOUS
<1> HIDE DEF c
<1>4. marked \in Clusters /\ Len(marked) = Len(cs)
  BY <1>1, <1>2 DEF Clusters
<1>5. DOMAIN marked = DOMAIN cs /\ \A i \in DOMAIN cs : marked[i].name = cs[i].name
  BY <1>1, <1>2
<1> HIDE DEF marked
<1>6. InUse(marked) = InUse(cs)
  BY <1>5, Zenon DEF InUse
<1> QED
  BY <1>3, <1>4, <1>6

LEMMA DeletedTyped ==
  ASSUME NEW cs \in Clusters, NEW n
  PROVE  /\ Deleted(cs, n) \in Clusters
         /\ InUse(Deleted(cs, n)) \subseteq InUse(cs)
         /\ n \in InUse(Deleted(cs, n)) => InUse(Deleted(cs, n)) = InUse(cs)
<1>1. CASE Named(cs, n) = {}
  BY <1>1 DEF Deleted
<1>2. CASE Named(cs, n) # {}
  <2> DEFINE k == FirstOf(Named(cs, n))
             rest == Without(cs, k)
             all == {cs[i].name : i \in (1..Len(cs)) \ {k}}
  <2>1. k \in 1..Len(cs) /\ cs[k].name = n
    BY <1>2, FirstNamed
  <2>2. Deleted(cs, n) = IF cs[k].active /\ rest # <<>>
                         THEN [rest EXCEPT ![1].active = TRUE] ELSE rest
    BY <1>2 DEF Deleted
  <2> HIDE DEF k
  <2>3. rest \in Clusters /\ InUse(rest) = all
    BY <2>1, WithoutTyped
  <2>4. /\ all \subseteq InUse(cs)
        /\ n \in all => all = InUse(cs)
    <3>1. InUse(cs) = {cs[i].name : i \in 1..Len(cs)}
      BY DEF InUse, Clusters
    <3> QED
      BY <2>1, <3>1
  <2> HIDE DEF rest, all
  <2>5. Deleted(cs, n) \in Clusters /\ InUse(Deleted(cs, n)) = all
    BY <2>2, <2>3, MarkedTyped
  <2> QED
    BY <2>4, <2>5
<1> QED
  BY <1>1, <1>2

LEMMA ConnectDeletedTyped ==
  ASSUME NEW cs \in Clusters, NEW n, NEW k
  PROVE  /\ ConnectDeleted(cs, n, k) \in Clusters
         /\ Len(ConnectDeleted(cs, n, k)) = Len(cs)
         /\ Holding(cs, n, k) # {} => k \in ConnectNames
<1> DEFINE now == ConnectDeleted(cs, n, k)
           first == FirstOf(Holding(cs, n, k))
<1>1. ASSUME NEW i \in 1..Len(cs) PROVE now[i] \in Cluster
  <2> DEFINE kept == Among(cs[i].connect, ToSet(cs[i].connect) \ {k})
  <2>0. cs[i] \in Cluster
    BY DEF Clusters
  <2>1. cs[i] \in Cluster /\ cs[i].connect \in ConnectLists
    BY <2>0 DEF Cluster, ConnectLists, ConnectNames
  <2>2. kept \in ConnectLists
    <3> DEFINE S == ToSet(cs[i].connect) \ {k}
    <3> HIDE DEF S
    <3>1. Among(cs[i].connect, S) \in Seq(ConnectNames \cap S)
      BY <2>1, AmongTyped DEF ConnectLists
    <3> QED
      BY <3>1 DEF S, ConnectLists
  <2>4. DOMAIN cs = 1..Len(cs)
    BY DEF Clusters
  <2>3. now[i] = IF i = first THEN [cs[i] EXCEPT !.connect = kept] ELSE cs[i]
    BY <2>4, Zenon DEF ConnectDeleted
  <2> HIDE DEF kept, now, first
  <2> QED
    BY <2>1, <2>2, <2>3 DEF Cluster, ConnectLists, ConnectNames
<1>2. now = [i \in 1..Len(cs) |-> now[i]]
  BY DEF ConnectDeleted, Clusters
<1> HIDE DEF now
<1>3. now \in Clusters /\ Len(now) = Len(cs)
  BY <1>1, <1>2 DEF Clusters
<1>4. ASSUME NEW i \in Holding(cs, n, k) PROVE k \in ConnectNames
  <2>1. i \in 1..Len(cs) /\ k \in ToSet(cs[i].connect)
    BY <1>4 DEF Holding, Named, Clusters
  <2>3. cs[i] \in Cluster
    BY <2>1 DEF Clusters
  <2>2. cs[i].connect \in Seq(ConnectNames)
    BY <2>3 DEF Cluster, ConnectNames
  <2> QED
    BY <2>1, <2>2, ToSetTyped
<1> QED
  BY <1>3, <1>4 DEF now
-----------------------------------------------------------------------------
(* The state of the program.                                               *)

FormPages    == [kind : {"form"}, form : Forms]
Events       == {"registered", "switched", "connectDeleted", "deleted", "refused", "connErr"}
ListCommands == {"find", "switch", "delete"}

(* What is checked, the check just answered, and what a command is to read *)
(* when the page that asked for it is left.                                *)
Checkables == Cluster \cup Registrations \cup ConnectNames
CheckJobs == [kind : Checks, by : {"list", "form"}, of : Checkables,
              at : {"issued", "awaited"}, alone : BOOLEAN, held : {<<>>}]
Afters == {<<>>} \cup {<<c>> : c \in CheckJobs}
Prompts == [cluster : MaybeNames, connect : ConnectNames \cup {NoItem}]
Readings == MaybeNames \cup Registrations \cup Nat \cup Prompts

AnyJob == [kind : Checks \cup Commands \cup Events,
           by : {"list", "form", "command", "none"},
           of : Checkables \cup MaybeNames \cup {NoCluster} \cup Afters,
           at : {"issued", "awaited"}, alone : BOOLEAN,
           held : {<<>>} \cup {<<x>> : x \in Readings}]

Jobs == {j \in AnyJob :
           /\ j.kind \in Checks => j \in CheckJobs
           /\ j.kind = "registered" => j.of \in Cluster
           /\ j.kind = "switched" => j.of \in Cluster \cup {NoCluster}
           /\ j.kind = "connectDeleted" => j.of \in ConnectNames
           /\ j.kind \in ListCommands /\ j.held # <<>> => j.held[1] \in MaybeNames
           /\ j.kind = "register" /\ j.held # <<>> => j.held[1] \in Registrations
           /\ j.kind = "kcdelete" => j.held # <<>>}

TabStates == [offered : Seq(Labels), bar : Labels, synced : Labels \cup {"none"},
              ctrl : Labels, back : BOOLEAN]

(* The clusters tab is shown because it is the one marked, or because the  *)
(* one marked has nothing to show.                                         *)
TabsOK(t) ==
  /\ t \in TabStates
  /\ t.bar \in ToSet(t.offered) /\ "clusters" \in ToSet(t.offered)
  /\ t.ctrl = "clusters" => t.bar \in {"clusters", t.synced}

Worlds == [clusters : Clusters, page : ListPages \cup FormPages, tabs : TabStates,
           locked : BOOLEAN, connErr : BOOLEAN, client : Cluster \cup {NoCluster},
           jobs : Seq(Jobs), timer : BOOLEAN,
           crashed : BOOLEAN, awaits : BOOLEAN, after : Afters]

(* A command that has still to read the page finds the page it is for.     *)
Finder(j, p) ==
  j.held = <<>> => /\ j.kind \in ListCommands => p.kind = "list"
                   /\ j.kind = "register" => p.kind = "form"
Finders(js, p) == \A j \in ToSet(js) : Finder(j, p)

WorldOK(w) ==
  /\ w \in Worlds /\ TabsOK(w.tabs)
  /\ w.page.kind = "list" => ListOK(w.page)
  /\ Finders(w.jobs, w.page)

Kinds(js) == {j.kind : j \in ToSet(js)}

(* The deletions that have been confirmed and that nothing has happened to *)
(* since: the cluster the prompt named, and what the command will find.    *)
Duties(js) ==
  {<<j.of, j.held>> : j \in {x \in ToSet(js) : x.kind = "delete" /\ x.alone}}

(* What no command changes or takes back.                                  *)
Keeps(w, v) ==
  /\ v.clusters = w.clusters
  /\ v.tabs = w.tabs /\ v.locked = w.locked /\ v.client = w.client
  /\ v.connErr = w.connErr
  /\ Kinds(w.jobs) \subseteq Kinds(v.jobs)
  /\ w.awaits => v.awaits
  /\ w.crashed => v.crashed

LEMMA KeepsSelf == \A w : Keeps(w, w)
BY DEF Keeps

LEMMA KeepsOn ==
  ASSUME NEW u, NEW v, NEW w, Keeps(u, v), Keeps(v, w)
  PROVE  Keeps(u, w)
BY DEF Keeps

LEMMA PageKinds ==
  /\ \A p \in ListPages : p.kind = "list"
  /\ \A p \in FormPages : p.kind = "form" /\ p.form \in Forms
  /\ \A f \in Forms : FormPage(f) \in FormPages
BY DEF ListPages, FormPages, FormPage

LEMMA JobKinds ==
  /\ Checks \cap Commands = {} /\ Checks \cap Events = {} /\ Commands \cap Events = {}
  /\ Commands = ListCommands \cup {"register", "kcdelete"}
BY DEF Checks, Commands, Changes, Events, ListCommands

(* Adding to the jobs.                                                     *)
LEMMA JobsPosted ==
  ASSUME NEW js \in Seq(Jobs), NEW job \in Jobs
  PROVE  /\ <<job>> \o js \in Seq(Jobs) /\ Append(js, job) \in Seq(Jobs)
         /\ ToSet(<<job>> \o js) = ToSet(js) \cup {job}
         /\ ToSet(Append(js, job)) = ToSet(js) \cup {job}
<1> DEFINE one == <<job>>
           front == one \o js
           back == Append(js, job)
<1>1. one \in Seq(Jobs) /\ Len(one) = 1 /\ one[1] = job
  OBVIOUS
<1> HIDE DEF one
<1>2. /\ front \in Seq(Jobs) /\ Len(front) = Len(js) + 1
      /\ \A i \in 1..(Len(js) + 1) : front[i] = IF i <= 1 THEN job ELSE js[i - 1]
  <2>1. /\ front \in Seq(Jobs) /\ Len(front) = Len(one) + Len(js)
        /\ \A i \in 1..(Len(one) + Len(js)) :
             front[i] = IF i <= Len(one) THEN one[i] ELSE js[i - Len(one)]
    BY <1>1, ConcatProperties
  <2> QED
    BY <1>1, <2>1
<1>3. /\ back \in Seq(Jobs) /\ Len(back) = Len(js) + 1
      /\ \A i \in 1..(Len(js) + 1) : back[i] = IF i <= Len(js) THEN js[i] ELSE job
  BY AppendProperties
<1> HIDE DEF front, back
<1>4. ToSet(front) = ToSet(js) \cup {job}
  <2>1. \A i \in 1..Len(js) : i + 1 \in 1..(Len(js) + 1) /\ front[i + 1] = js[i]
    BY <1>2
  <2>2. 1 \in 1..(Len(js) + 1) /\ front[1] = job
    BY <1>2
  <2>3. \A i \in 1..(Len(js) + 1) : front[i] = job \/ (i - 1 \in 1..Len(js) /\ front[i] = js[i - 1])
    BY <1>2
  <2>4. DOMAIN front = 1..(Len(js) + 1) /\ DOMAIN js = 1..Len(js)
    BY <1>2
  <2>5. \A x \in ToSet(front) : x \in ToSet(js) \cup {job}
    BY <2>3, <2>4 DEF ToSet
  <2>6. \A x \in ToSet(js) : x \in ToSet(front)
    BY <2>1, <2>4 DEF ToSet
  <2>7. job \in ToSet(front)
    BY <2>2, <2>4 DEF ToSet
  <2> QED
    BY <2>5, <2>6, <2>7
<1>5. ToSet(back) = ToSet(js) \cup {job}
  <2>1. \A i \in 1..Len(js) : i \in 1..(Len(js) + 1) /\ back[i] = js[i]
    BY <1>3
  <2>2. Len(js) + 1 \in 1..(Len(js) + 1) /\ back[Len(js) + 1] = job
    BY <1>3
  <2>3. \A i \in 1..(Len(js) + 1) : back[i] = job \/ (i \in 1..Len(js) /\ back[i] = js[i])
    BY <1>3
  <2>4. DOMAIN back = 1..(Len(js) + 1) /\ DOMAIN js = 1..Len(js)
    BY <1>3
  <2> QED
    BY <2>1, <2>2, <2>3, <2>4 DEF ToSet
<1> QED
  BY <1>2, <1>3, <1>4, <1>5 DEF front, back, one

LEMMA PostKeeps ==
  ASSUME NEW w, WorldOK(w), NEW job \in Jobs, Finder(job, w.page)
  PROVE  LET v == Post(w, job)
         IN  /\ WorldOK(v) /\ Keeps(w, v) /\ v.page = w.page
             /\ job.kind \in Kinds(v.jobs)
             /\ v.crashed = w.crashed
             /\ \A d \in Duties(v.jobs) :
                  d \in Duties(w.jobs) \/ (/\ job.kind = "delete" /\ job.alone
                                           /\ d = <<job.of, job.held>>)
<1> DEFINE js == IF job.kind \in ToCheck THEN <<job>> \o w.jobs ELSE Append(w.jobs, job)
           v == [w EXCEPT !.jobs = js]
<1>1. w.jobs \in Seq(Jobs) /\ w \in Worlds
  BY DEF WorldOK, Worlds
<1>2. js \in Seq(Jobs) /\ ToSet(js) = ToSet(w.jobs) \cup {job}
  BY <1>1, JobsPosted
<1>3. Post(w, job) = v
  BY DEF Post
<1> HIDE DEF js
<1>4. /\ v \in Worlds /\ v.jobs = js /\ v.page = w.page /\ v.clusters = w.clusters
      /\ v.tabs = w.tabs /\ v.locked = w.locked /\ v.client = w.client
      /\ v.connErr = w.connErr /\ v.crashed = w.crashed
      /\ v.awaits = w.awaits
  BY <1>1, <1>2 DEF Worlds
<1> HIDE DEF v
<1>5. Kinds(js) = Kinds(w.jobs) \cup {job.kind}
  BY <1>2 DEF Kinds
<1>6. \A d \in Duties(js) :
        d \in Duties(w.jobs) \/ (/\ job.kind = "delete" /\ job.alone
                                 /\ d = <<job.of, job.held>>)
  BY <1>2 DEF Duties
<1>7. Finders(js, w.page)
  BY <1>2 DEF Finders, WorldOK
<1> QED
  BY <1>3, <1>4, <1>5, <1>6, <1>7 DEF WorldOK, Keeps

(* The jobs, each changed in one way.                                      *)
LEMMA JobsChanged ==
  ASSUME NEW js \in Seq(Jobs), NEW now, DOMAIN now = DOMAIN js,
         now = [i \in DOMAIN js |-> now[i]],
         \A i \in DOMAIN js : now[i] \in Jobs /\ now[i].kind = js[i].kind
  PROVE  now \in Seq(Jobs) /\ Kinds(now) = Kinds(js)
<1>1. DOMAIN js = 1..Len(js) /\ Len(js) \in Nat
  OBVIOUS
<1>2. now \in Seq(Jobs)
  BY <1>1
<1>3. Kinds(now) = {now[i].kind : i \in DOMAIN now} /\ Kinds(js) = {js[i].kind : i \in DOMAIN js}
  BY DEF Kinds, ToSet
<1> QED
  BY <1>2, <1>3

LEMMA JobAlone ==
  ASSUME NEW j \in Jobs, NEW a \in BOOLEAN
  PROVE  LET k == [j EXCEPT !.alone = a]
         IN  /\ k \in Jobs /\ k.kind = j.kind /\ k.of = j.of /\ k.held = j.held
             /\ k.at = j.at /\ k.alone = a
<1> DEFINE k == [j EXCEPT !.alone = a]
<1>1. j \in AnyJob
  BY DEF Jobs
<1>2. /\ k \in AnyJob /\ k.kind = j.kind /\ k.of = j.of /\ k.held = j.held
      /\ k.at = j.at /\ k.alone = a
  BY <1>1 DEF AnyJob
<1>3. j \in CheckJobs => k \in CheckJobs
  BY DEF CheckJobs
<1> HIDE DEF k
<1>4. k \in Jobs
  BY <1>2, <1>3 DEF Jobs
<1> QED
  BY <1>2, <1>4 DEF k

LEMMA DisturbedTyped ==
  ASSUME NEW js \in Seq(Jobs)
  PROVE  LET now == Disturbed(js)
         IN  /\ now \in Seq(Jobs) /\ Kinds(now) = Kinds(js)
             /\ DOMAIN now = DOMAIN js
             /\ \A i \in DOMAIN js : /\ now[i].held = js[i].held /\ ~now[i].alone
                                     /\ now[i].kind = js[i].kind
             /\ Duties(now) = {}
<1> DEFINE now == Disturbed(js)
<1>1. \A i \in DOMAIN js : now[i] = [js[i] EXCEPT !.alone = FALSE] /\ js[i] \in Jobs
  BY DEF Disturbed
<1>2. DOMAIN now = DOMAIN js /\ now = [i \in DOMAIN js |-> now[i]]
  BY DEF Disturbed
<1> HIDE DEF now
<1>3. \A i \in DOMAIN js : /\ now[i] \in Jobs /\ now[i].kind = js[i].kind
                           /\ now[i].held = js[i].held /\ ~now[i].alone
  <2> SUFFICES ASSUME NEW i \in DOMAIN js
               PROVE  /\ now[i] \in Jobs /\ now[i].kind = js[i].kind
                      /\ now[i].held = js[i].held /\ ~now[i].alone
    OBVIOUS
  <2>1. now[i] = [js[i] EXCEPT !.alone = FALSE] /\ js[i] \in Jobs
    BY <1>1
  <2>2. FALSE \in BOOLEAN
    OBVIOUS
  <2> DEFINE k == [js[i] EXCEPT !.alone = FALSE]
  <2>3. k \in Jobs /\ k.kind = js[i].kind /\ k.held = js[i].held /\ k.alone = FALSE
    BY <2>1, <2>2, JobAlone
  <2>4. now[i] = k
    BY <2>1
  <2> HIDE DEF k
  <2> QED
    BY <2>3, <2>4
<1>4. now \in Seq(Jobs) /\ Kinds(now) = Kinds(js)
  BY <1>2, <1>3, JobsChanged
<1>5. Duties(now) = {}
  BY <1>2, <1>3 DEF Duties, ToSet
<1> QED
  BY <1>2, <1>3, <1>4, <1>5 DEF now

(* A page that is left is read for the commands it asked for.              *)
LEMMA ReadOnTyped ==
  ASSUME NEW p \in ListPages \cup FormPages, p.kind = "list" => ListOK(p)
  PROVE  /\ p.kind = "list" => ReadOn(p) \in MaybeNames
         /\ p.kind = "form" => ReadOn(p) \in Registrations
<1>1. p.kind = "list" => p \in ListPages
  BY PageKinds
<1>2. p.kind = "form" => p.form \in Forms
  BY PageKinds
<1> QED
  BY <1>1, <1>2, SelectedTyped, RegistrationTyped DEF ReadOn, ListOK

LEMMA LeftTyped ==
  ASSUME NEW js \in Seq(Jobs), NEW p \in ListPages \cup FormPages,
         p.kind = "list" => ListOK(p), Finders(js, p)
  PROVE  LET now == Left(js, p)
         IN  /\ now \in Seq(Jobs) /\ Kinds(now) = Kinds(js)
             /\ DOMAIN now = DOMAIN js
             /\ \A i \in DOMAIN js : now[i].alone = js[i].alone
             /\ \A q : Finders(now, q)
<1> DEFINE now == Left(js, p)
           r == ReadOn(p)
           Reads(j) == j.kind \in Commands /\ j.held = <<>>
<1>1. ASSUME NEW j \in Jobs, Reads(j), Finder(j, p)
      PROVE  LET k == [j EXCEPT !.held = <<r>>]
             IN  k \in Jobs /\ k.kind = j.kind /\ k.alone = j.alone /\ k.held # <<>>
  <2> DEFINE k == [j EXCEPT !.held = <<r>>]
  <2>1. j \in AnyJob /\ j.kind # "kcdelete"
    BY <1>1 DEF Jobs
  <2>2. /\ j.kind \in ListCommands => r \in MaybeNames
        /\ j.kind = "register" => r \in Registrations
        /\ j.kind \in ListCommands \cup {"register"}
    BY <1>1, <2>1, ReadOnTyped, JobKinds DEF Finder
  <2> HIDE DEF r
  <2>3. r \in Readings
    BY <2>2 DEF Readings
  <2>4. /\ k \in AnyJob /\ k.kind = j.kind /\ k.held = <<r>> /\ k.alone = j.alone
    BY <2>1, <2>3 DEF AnyJob
  <2> HIDE DEF k
  <2>5. k.held # <<>> /\ k.held[1] = r
    BY <2>4
  <2>6. j.kind \notin Checks \cup Events /\ k.kind \notin Checks \cup Events
    BY <1>1, <2>4, JobKinds
  <2>7. k.kind \notin Checks \cup {"registered", "switched", "connectDeleted"}
    BY <2>6 DEF Events
  <2>8. k \in Jobs
    BY <2>2, <2>4, <2>5, <2>7 DEF Jobs
  <2> QED
    BY <2>4, <2>5, <2>8 DEF k
<1>2. \A i \in DOMAIN js : js[i] \in Jobs /\ Finder(js[i], p)
  BY DEF Finders, ToSet
<1>3. \A i \in DOMAIN js : now[i] = IF Reads(js[i]) THEN [js[i] EXCEPT !.held = <<r>>] ELSE js[i]
  BY DEF Left
<1>4. DOMAIN now = DOMAIN js /\ now = [i \in DOMAIN js |-> now[i]]
  BY DEF Left
<1> HIDE DEF now, r
<1>5. \A i \in DOMAIN js : /\ now[i] \in Jobs /\ now[i].kind = js[i].kind
                           /\ now[i].alone = js[i].alone
                           /\ ~Reads(now[i])
  BY <1>1, <1>2, <1>3
<1>6. now \in Seq(Jobs) /\ Kinds(now) = Kinds(js)
  BY <1>4, <1>5, JobsChanged
<1>7. \A q : Finders(now, q)
  BY <1>4, <1>5, JobKinds DEF Finders, Finder, ToSet
<1> QED
  BY <1>4, <1>5, <1>6, <1>7 DEF now

(* Another page is shown.                                                  *)
LEMMA ShowKeeps ==
  ASSUME NEW w, WorldOK(w), NEW p \in ListPages \cup FormPages,
         p.kind = "list" => ListOK(p)
  PROVE  LET v == Show(w, p)
         IN  /\ WorldOK(v) /\ Keeps(w, v) /\ v.page = p
             /\ v.crashed = w.crashed /\ v.awaits = w.awaits
             /\ Duties(v.jobs) = {}
<1> DEFINE timer1 == w.timer \/ (w.page.kind = "list" /\ w.page.bars.note.autoHide)
           calm == Disturbed(w.jobs)
           js == Left(calm, w.page)
           v == [w EXCEPT !.page = p, !.jobs = js, !.timer = timer1]
<1>1. /\ w.jobs \in Seq(Jobs) /\ w \in Worlds /\ w.page \in ListPages \cup FormPages
      /\ w.page.kind = "list" => ListOK(w.page)
      /\ Finders(w.jobs, w.page)
  BY DEF WorldOK, Worlds
<1>2. /\ calm \in Seq(Jobs) /\ Kinds(calm) = Kinds(w.jobs) /\ DOMAIN calm = DOMAIN w.jobs
      /\ \A i \in DOMAIN calm : /\ calm[i].held = w.jobs[i].held /\ ~calm[i].alone
                                /\ calm[i].kind = w.jobs[i].kind
  BY <1>1, DisturbedTyped
<1>3. Show(w, p) = v
  BY <1>1 DEF Show, Worlds
<1> HIDE DEF calm
<1>4. Finders(calm, w.page)
  <2>1. \A i \in DOMAIN calm : Finder(calm[i], w.page)
    BY <1>1, <1>2 DEF Finders, Finder, ToSet
  <2> QED
    BY <2>1 DEF Finders, ToSet
<1>5. /\ js \in Seq(Jobs) /\ Kinds(js) = Kinds(w.jobs) /\ DOMAIN js = DOMAIN calm
      /\ \A i \in DOMAIN calm : js[i].alone = calm[i].alone
      /\ Finders(js, p)
  BY <1>1, <1>2, <1>4, LeftTyped
<1>6. timer1 \in BOOLEAN
  OBVIOUS
<1> HIDE DEF js, timer1
<1>7. Duties(js) = {}
  BY <1>2, <1>5 DEF Duties, ToSet
<1>8. /\ v \in Worlds /\ v.jobs = js /\ v.page = p /\ v.clusters = w.clusters
      /\ v.tabs = w.tabs /\ v.locked = w.locked /\ v.client = w.client
      /\ v.connErr = w.connErr /\ v.crashed = w.crashed
      /\ v.awaits = w.awaits
  BY <1>1, <1>5, <1>6 DEF Worlds
<1> HIDE DEF v
<1> QED
  BY <1>3, <1>5, <1>7, <1>8 DEF WorldOK, Keeps

LEMMA CrashKeeps ==
  ASSUME NEW w, WorldOK(w)
  PROVE  LET v == Crash(w)
         IN  /\ WorldOK(v) /\ Keeps(w, v) /\ v.crashed /\ v.page = w.page
             /\ v.jobs = w.jobs
<1> DEFINE v == [w EXCEPT !.crashed = TRUE]
<1>1. w \in Worlds
  BY DEF WorldOK
<1>2. /\ v \in Worlds /\ v.jobs = w.jobs /\ v.page = w.page /\ v.clusters = w.clusters
      /\ v.tabs = w.tabs /\ v.locked = w.locked /\ v.client = w.client
      /\ v.connErr = w.connErr /\ v.crashed
      /\ v.awaits = w.awaits
  BY <1>1 DEF Worlds
<1>3. Crash(w) = v
  BY DEF Crash
<1> HIDE DEF v
<1> QED
  BY <1>2, <1>3 DEF WorldOK, Keeps

(* Another configuration.                                                  *)
LEMMA ClustersKeep ==
  ASSUME NEW w, WorldOK(w), NEW cs \in Clusters
  PROVE  LET v == [w EXCEPT !.clusters = cs]
         IN  /\ WorldOK(v) /\ v.page = w.page /\ v.clusters = cs /\ v.jobs = w.jobs
             /\ v.tabs = w.tabs /\ v.locked = w.locked
             /\ v.crashed = w.crashed
<1> DEFINE v == [w EXCEPT !.clusters = cs]
<1>1. w \in Worlds
  BY DEF WorldOK
<1>2. /\ v \in Worlds /\ v.jobs = w.jobs /\ v.page = w.page /\ v.clusters = cs
      /\ v.tabs = w.tabs /\ v.locked = w.locked
      /\ v.crashed = w.crashed
  BY <1>1 DEF Worlds
<1> HIDE DEF v
<1>3. WorldOK(v)
  BY <1>2 DEF WorldOK
<1> QED
  BY <1>2, <1>3 DEF v

(* The page after an update; it is of the same kind.                       *)
LEMMA PageKeeps ==
  ASSUME NEW w, WorldOK(w), NEW p \in ListPages \cup FormPages,
         p.kind = "list" => ListOK(p), p.kind = w.page.kind
  PROVE  LET v == [w EXCEPT !.page = p]
         IN  /\ WorldOK(v) /\ Keeps(w, v) /\ v.page = p /\ v.jobs = w.jobs
             /\ v.crashed = w.crashed /\ v.awaits = w.awaits
<1> DEFINE v == [w EXCEPT !.page = p]
<1>1. w \in Worlds
  BY DEF WorldOK
<1>2. /\ v \in Worlds /\ v.jobs = w.jobs /\ v.page = p /\ v.clusters = w.clusters
      /\ v.tabs = w.tabs /\ v.locked = w.locked /\ v.client = w.client
      /\ v.connErr = w.connErr /\ v.crashed = w.crashed
      /\ v.awaits = w.awaits
  BY <1>1 DEF Worlds
<1> HIDE DEF v
<1>3. Finders(v.jobs, v.page)
  BY <1>2 DEF WorldOK, Finders, Finder
<1>4. WorldOK(v) /\ Keeps(w, v)
  BY <1>2, <1>3 DEF WorldOK, Keeps
<1> QED
  BY <1>2, <1>4 DEF v

LEMMA AwaitsKeep ==
  ASSUME NEW w, WorldOK(w)
  PROVE  LET v == [w EXCEPT !.awaits = TRUE]
         IN  /\ WorldOK(v) /\ Keeps(w, v) /\ v.page = w.page
             /\ v.crashed = w.crashed /\ v.awaits /\ v.jobs = w.jobs
<1> DEFINE v == [w EXCEPT !.awaits = TRUE]
<1>1. w \in Worlds
  BY DEF WorldOK
<1>2. /\ v \in Worlds /\ v.jobs = w.jobs /\ v.page = w.page /\ v.clusters = w.clusters
      /\ v.tabs = w.tabs /\ v.locked = w.locked /\ v.client = w.client
      /\ v.connErr = w.connErr /\ v.crashed = w.crashed
      /\ v.awaits
  BY <1>1 DEF Worlds
<1> HIDE DEF v
<1>3. WorldOK(v) /\ Keeps(w, v)
  BY <1>2 DEF WorldOK, Keeps
<1> QED
  BY <1>2, <1>3 DEF v

-----------------------------------------------------------------------------
(* The commands.                                                           *)

LEMMA RunAllIsAll ==
  ASSUME NEW w, NEW o
  PROVE  RunAll(w, o) = AllRun([w EXCEPT !.page = o.next], o.cmds)
BY DEF RunAll, AllRun

LEMMA RunNone ==
  ASSUME NEW w
  PROVE  AllRun(w, <<>>) = w
<1> DEFINE cmds == <<>>
           m == 0
<1>1. DOMAIN cmds = 1..m /\ m \in Nat
  OBVIOUS
<1> HIDE DEF cmds, m
<1>2. PICK f : /\ f[0] = w
               /\ \A n \in Nat : n < m => f[n + 1] = Run(f[n], cmds[n + 1])
               /\ AllRun(w, cmds) = f[m]
  BY <1>1, RunTrace
<1> QED
  BY <1>2 DEF cmds, m

LEMMA RunOne ==
  ASSUME NEW w, NEW c
  PROVE  AllRun(w, <<c>>) = Run(w, c)
<1> DEFINE cmds == <<c>>
           m == 1
<1>1. DOMAIN cmds = 1..m /\ m \in Nat
  OBVIOUS
<1>0. cmds[1] = c
  OBVIOUS
<1> HIDE DEF cmds, m
<1>2. PICK f : /\ f[0] = w
               /\ \A n \in Nat : n < m => f[n + 1] = Run(f[n], cmds[n + 1])
               /\ AllRun(w, cmds) = f[m]
  BY <1>1, RunTrace
<1>3. f[0 + 1] = Run(f[0], cmds[0 + 1])
  BY <1>2 DEF m
<1>4. f[1] = Run(w, c)
  BY <1>0, <1>2, <1>3
<1> QED
  BY <1>2, <1>4 DEF cmds, m

LEMMA RunTwo ==
  ASSUME NEW w, NEW a, NEW c
  PROVE  AllRun(w, <<a, c>>) = Run(Run(w, a), c)
<1> DEFINE cmds == <<a, c>>
           m == 2
<1>1. DOMAIN cmds = 1..m /\ m \in Nat
  OBVIOUS
<1>0. cmds[1] = a /\ cmds[2] = c
  OBVIOUS
<1> HIDE DEF cmds, m
<1>2. PICK f : /\ f[0] = w
               /\ \A n \in Nat : n < m => f[n + 1] = Run(f[n], cmds[n + 1])
               /\ AllRun(w, cmds) = f[m]
  BY <1>1, RunTrace
<1>3. f[0 + 1] = Run(f[0], cmds[0 + 1]) /\ f[1 + 1] = Run(f[1], cmds[1 + 1])
  BY <1>2 DEF m
<1>4. f[1] = Run(w, a)
  BY <1>0, <1>2, <1>3
<1>5. f[2] = Run(f[1], c)
  BY <1>0, <1>3
<1> QED
  BY <1>2, <1>4, <1>5, Zenon DEF cmds, m

(* The jobs that are posted.                                               *)
LEMMA CheckTyped ==
  ASSUME NEW kind \in Checks, NEW by \in {"list", "form"}, NEW of \in Checkables,
         NEW alone \in BOOLEAN
  PROVE  LET j == Job(kind, by, of, alone)
         IN  /\ j \in Jobs /\ j.kind = kind /\ j.kind # "delete"
             /\ \A p : Finder(j, p)
<1> DEFINE j == Job(kind, by, of, alone)
<1>1. j \in CheckJobs /\ j \in AnyJob /\ j.kind = kind
  BY DEF Job, CheckJobs, AnyJob
<1>2. kind \notin Commands \cup Events
  BY JobKinds
<1> HIDE DEF j
<1> QED
  BY <1>1, <1>2 DEF Jobs, Finder, Commands, Changes, Events, ListCommands, j

LEMMA EventTyped ==
  ASSUME NEW kind \in Events, NEW of \in Cluster \cup ConnectNames \cup MaybeNames \cup {NoCluster},
         kind = "registered" => of \in Cluster,
         kind = "switched" => of \in Cluster \cup {NoCluster},
         kind = "connectDeleted" => of \in ConnectNames
  PROVE  /\ Event(kind, of) \in Jobs /\ Event(kind, of).kind = kind /\ kind # "delete"
         /\ \A n \in Nat :
              LET j == [Event(kind, of) EXCEPT !.held = <<n>>]
              IN  j \in Jobs /\ j.kind = kind
         /\ \A p : Finder(Event(kind, of), p)
<1> DEFINE j == Event(kind, of)
<1>0. kind \notin Checks \cup Commands
  BY JobKinds
<1>1. j \in AnyJob /\ j.kind = kind /\ j.of = of /\ j.held = <<>>
  BY DEF Event, Job, AnyJob, Checkables
<1>2. ASSUME NEW n \in Nat
      PROVE  LET k == [j EXCEPT !.held = <<n>>]
             IN  k \in AnyJob /\ k.kind = kind /\ k.of = of
  <2>1. n \in Readings
    BY DEF Readings
  <2> HIDE DEF j
  <2> QED
    BY <1>1, <2>1 DEF AnyJob
<1> HIDE DEF j
<1>3. ASSUME NEW k \in AnyJob, k.kind = kind, k.of = of PROVE k \in Jobs
  BY <1>0, <1>3 DEF Jobs, Commands, Changes, ListCommands
<1> QED
  BY <1>0, <1>1, <1>2, <1>3 DEF Finder, Commands, Changes, ListCommands, j

(* A command that has still to read the page.                              *)
LEMMA CommandTyped ==
  ASSUME NEW kind \in ListCommands \cup {"register"}, NEW of \in MaybeNames \cup Afters,
         NEW alone \in BOOLEAN
  PROVE  LET j == Job(kind, "command", of, alone)
         IN  /\ j \in Jobs /\ j.kind = kind /\ j.of = of /\ j.held = <<>> /\ j.alone = alone
             /\ \A p : p.kind = (IF kind = "register" THEN "form" ELSE "list") => Finder(j, p)
<1> DEFINE j == Job(kind, "command", of, alone)
<1>0. kind \notin Checks \cup Events /\ kind \in Commands
  BY JobKinds
<1>1. j \in AnyJob /\ j.kind = kind /\ j.of = of /\ j.held = <<>> /\ j.alone = alone
  BY <1>0 DEF Job, AnyJob
<1> HIDE DEF j
<1>2. j \in Jobs
  BY <1>0, <1>1 DEF Jobs, Events, ListCommands
<1>3. \A p : p.kind = (IF kind = "register" THEN "form" ELSE "list") => Finder(j, p)
  BY <1>1 DEF Finder, ListCommands
<1> QED
  BY <1>1, <1>2, <1>3 DEF j

(* The deletion of a Connect cluster.                                      *)
LEMMA KcCommandTyped ==
  ASSUME NEW f \in Forms
  PROVE  LET j == [Command("kcdelete", NoName) EXCEPT !.held = <<ConnectToDelete(f)>>]
         IN  /\ j \in Jobs /\ j.kind = "kcdelete"
             /\ \A p : Finder(j, p)
<1> DEFINE x == ConnectToDelete(f)
           c == Command("kcdelete", NoName)
           j == [c EXCEPT !.held = <<x>>]
<1>1. x \in Prompts
  <2>1. f.opened \in MaybeNames /\ f.kc.prompt.value \in ConnectNames \cup {NoItem}
    BY DEF Forms, KcForms, KcPrompts
  <2> QED
    BY <2>1 DEF ConnectToDelete, Prompts
<1> HIDE DEF x
<1>2. x \in Readings
  BY <1>1 DEF Readings
<1>3. c \in AnyJob /\ c.kind = "kcdelete"
  BY JobKinds DEF Command, Job, AnyJob, MaybeNames
<1> HIDE DEF c
<1>4. j \in AnyJob /\ j.kind = "kcdelete" /\ j.held = <<x>>
  BY <1>2, <1>3 DEF AnyJob
<1> HIDE DEF j
<1>5. j.held # <<>>
  BY <1>4
<1>6. j \in Jobs
  BY <1>4, <1>5 DEF Jobs, Checks, ListCommands
<1> QED
  BY <1>4, <1>5, <1>6 DEF Finder, j, c, x

(* What each command does: the page stays, unless it is left for the list, *)
(* and only the prompt's adds to the deletions.                            *)
CanRun(w, cmd) ==
  /\ w.page.kind = "list" => cmd \in ListWords
  /\ w.page.kind = "form" => cmd \in FormWords

Ran(w, cmd, v) ==
  /\ WorldOK(v) /\ Keeps(w, v)
  /\ IF cmd = "list" THEN v.page.kind = "list" /\ ~Prompting(v.page) ELSE v.page = w.page
  /\ cmd = "await" => v.crashed \/ v.awaits
  /\ cmd = "crash" => v.crashed
  /\ cmd \in {"kcheck", "srcheck"} =>
       v.crashed \/ Kinds(v.jobs) \cap {"k", "sr"} # {}
  /\ \A d \in Duties(v.jobs) :
       \/ d \in Duties(w.jobs)
       \/ /\ cmd = "delete" /\ ~Misnamed(w.page)
          /\ d = <<w.page.bars.del.value, <<>>>>

LEMMA RanPost ==
  ASSUME NEW w, WorldOK(w), NEW job \in Jobs, Finder(job, w.page), NEW cmd,
         cmd \notin {"list", "await", "crash"}, job.kind # "delete",
         cmd \in {"kcheck", "srcheck"} => job.kind \in {"k", "sr"}
  PROVE  Ran(w, cmd, Post(w, job))
BY PostKeeps DEF Ran

LEMMA RanCrash ==
  ASSUME NEW w, WorldOK(w), NEW cmd, cmd # "list"
  PROVE  Ran(w, cmd, Crash(w))
BY CrashKeeps DEF Ran

LEMMA PageTyped ==
  ASSUME NEW w, WorldOK(w)
  PROVE  /\ w.clusters \in Clusters
         /\ w.page.kind \in {"list", "form"}
         /\ w.page.kind = "list" => w.page \in ListPages /\ ListOK(w.page)
         /\ w.page.kind = "form" => w.page.form \in Forms
BY PageKinds DEF WorldOK, Worlds

LEMMA FollowRuns ==
  ASSUME NEW w, WorldOK(w), NEW cmd \in {"switch", "register"},
         w.page.kind = (IF cmd = "register" THEN "form" ELSE "list")
  PROVE  Ran(w, cmd, Follow(w, cmd))
<1> DEFINE alone == w.after # <<>> /\ w.after[1].alone
           j == Job(cmd, "command", w.after, alone)
<1>1. w.after \in Afters
  BY DEF WorldOK, Worlds
<1>2. alone \in BOOLEAN
  OBVIOUS
<1>3. Follow(w, cmd) = Post(w, j)
  BY DEF Follow, Command, Job
<1> HIDE DEF alone
<1>4. cmd \in ListCommands \cup {"register"}
  BY DEF ListCommands
<1>5. j \in Jobs /\ j.kind = cmd /\ Finder(j, w.page)
  BY <1>1, <1>2, <1>4, CommandTyped
<1> HIDE DEF j
<1> QED
  BY <1>3, <1>5, RanPost

LEMMA PromptRuns ==
  ASSUME NEW w, WorldOK(w), w.page.kind = "list"
  PROVE  Ran(w, "delete", Post(w, Job("delete", "command", w.page.bars.del.value,
                                      ~Misnamed(w.page))))
<1> DEFINE n == w.page.bars.del.value
           alone == ~Misnamed(w.page)
           j == Job("delete", "command", n, alone)
<1>1. n \in MaybeNames
  BY PageTyped, NamesAreItems DEF ListPages, Bars, MaybeNames
<1>2. alone \in BOOLEAN /\ (alone => ~Misnamed(w.page))
  OBVIOUS
<1> HIDE DEF alone, n
<1>3. /\ j \in Jobs /\ j.kind = "delete" /\ j.of = n /\ j.held = <<>> /\ j.alone = alone
      /\ Finder(j, w.page)
  BY <1>1, <1>2, CommandTyped DEF ListCommands
<1> HIDE DEF j
<1>4. Ran(w, "delete", Post(w, j))
  BY <1>2, <1>3, PostKeeps DEF Ran, n
<1> QED
  BY <1>4 DEF j, n, alone

LEMMA FormCommandsRun ==
  ASSUME NEW w, WorldOK(w), w.page.kind = "form"
  PROVE  /\ Ran(w, "kcheck", Post(w, Check("k", "form", RegistrationOf(w.page.form))))
         /\ Ran(w, "srcheck", Post(w, Check("sr", "form", RegistrationOf(w.page.form))))
         /\ Ran(w, "kccheck", Post(w, Check("kc", "form", w.page.form.kc.name)))
         /\ Ran(w, "kcdelete", Post(w, [Command("kcdelete", NoName) EXCEPT
                                          !.held = <<ConnectToDelete(w.page.form)>>]))
<1> DEFINE f == w.page.form
           r == RegistrationOf(f)
           k == f.kc.name
<1>1. f \in Forms
  BY PageTyped
<1>2. r \in Checkables /\ k \in Checkables
  BY <1>1, RegistrationTyped DEF Forms, KcForms, Checkables
<1>3. ASSUME NEW kind \in Checks, NEW x \in Checkables, NEW cmd,
             cmd \notin {"list", "await", "crash"},
             cmd \in {"kcheck", "srcheck"} => kind \in {"k", "sr"}
      PROVE  Ran(w, cmd, Post(w, Check(kind, "form", x)))
  <2> DEFINE j == Check(kind, "form", x)
  <2>1. j = Job(kind, "form", x, TRUE)
    BY DEF Check
  <2>2. j \in Jobs /\ j.kind = kind /\ j.kind # "delete" /\ Finder(j, w.page)
    <3> DEFINE y == Job(kind, "form", x, TRUE)
    <3>1. "form" \in {"list", "form"} /\ TRUE \in BOOLEAN
      OBVIOUS
    <3>2. y \in Jobs /\ y.kind = kind /\ y.kind # "delete" /\ \A p : Finder(y, p)
      BY <3>1, CheckTyped
    <3>3. j = y
      BY <2>1
    <3> HIDE DEF j, y
    <3> QED
      BY <3>2, <3>3
  <2> HIDE DEF j
  <2>3. Ran(w, cmd, Post(w, j))
    BY <1>3, <2>2, RanPost
  <2> QED
    BY <2>3 DEF j
<1>4. Ran(w, "kcdelete", Post(w, [Command("kcdelete", NoName) EXCEPT !.held = <<ConnectToDelete(f)>>]))
  <2> HIDE DEF f
  <2> DEFINE j == [Command("kcdelete", NoName) EXCEPT !.held = <<ConnectToDelete(f)>>]
  <2>1. j \in Jobs /\ j.kind = "kcdelete" /\ Finder(j, w.page)
    BY <1>1, KcCommandTyped
  <2> HIDE DEF j
  <2>2. Ran(w, "kcdelete", Post(w, j))
    BY <2>1, RanPost
  <2> QED
    BY <2>2 DEF j
<1> HIDE DEF r, k
<1>5. /\ Ran(w, "kcheck", Post(w, Check("k", "form", r)))
      /\ Ran(w, "srcheck", Post(w, Check("sr", "form", r)))
      /\ Ran(w, "kccheck", Post(w, Check("kc", "form", k)))
  BY <1>2, <1>3 DEF Checks
<1> QED
  BY <1>4, <1>5 DEF r, k

LEMMA RunKeeps ==
  ASSUME NEW w, WorldOK(w), NEW cmd, CanRun(w, cmd), ~w.crashed
  PROVE  Ran(w, cmd, Run(w, cmd))
<1>1. w.page.kind \in {"list", "form"}
  BY PageTyped
<1>2. CASE cmd = "await"
  <2> DEFINE v == [w EXCEPT !.awaits = TRUE]
  <2>1. /\ WorldOK(v) /\ Keeps(w, v) /\ v.page = w.page /\ v.awaits /\ v.jobs = w.jobs
    BY AwaitsKeep
  <2>2. Run(w, cmd) = v
    BY <1>2 DEF Run
  <2> HIDE DEF v
  <2> QED
    BY <1>2, <2>1, <2>2 DEF Ran
<1>3. CASE cmd = "list"
  <2> DEFINE p == ListPage(w.clusters)
             v == Show(w, p)
  <2>1. ListOK(p) /\ p \in ListPages /\ ~Prompting(p)
    BY PageTyped, NewListPageOK DEF ListOK
  <2>2. p.kind = "list"
    BY <2>1, PageKinds
  <2>3. Run(w, cmd) = v
    BY <1>3 DEF Run
  <2> HIDE DEF p
  <2>4. WorldOK(v) /\ Keeps(w, v) /\ v.page = p /\ Duties(v.jobs) = {}
    BY <2>1, ShowKeeps
  <2> HIDE DEF v
  <2> QED
    BY <1>3, <2>1, <2>2, <2>3, <2>4 DEF Ran
<1>4. CASE w.page.kind = "list" /\ cmd \in {"check", "refuse"}
  <2>1. NoName \in MaybeNames
    BY DEF MaybeNames
  <2>2. Ran(w, "refuse", Post(w, Event("refused", NoName)))
    <3>1. /\ Event("refused", NoName) \in Jobs /\ Finder(Event("refused", NoName), w.page)
          /\ Event("refused", NoName).kind # "delete"
      BY <2>1, EventTyped DEF Events
    <3> QED
      BY <3>1, RanPost
  <2>3. Ran(w, "check", Post(w, Command("find", NoName)))
    <3> DEFINE j == Command("find", NoName)
               found == Job("find", "command", NoName, TRUE)
    <3>1. j = found
      BY DEF Command
    <3>0. ASSUME NEW kind \in ListCommands, NEW alone \in BOOLEAN
          PROVE  LET k == Job(kind, "command", NoName, alone)
                 IN  k \in Jobs /\ k.kind = kind /\ Finder(k, w.page)
      BY <1>4, <2>1, <3>0, CommandTyped DEF ListCommands
    <3>4. found \in Jobs /\ found.kind = "find" /\ Finder(found, w.page)
      BY <3>0 DEF ListCommands
    <3> HIDE DEF found
    <3>2. j \in Jobs /\ j.kind = "find" /\ Finder(j, w.page)
      BY <3>1, <3>4
    <3> HIDE DEF j
    <3>3. Ran(w, "check", Post(w, j))
      BY <3>2, RanPost
    <3> QED
      BY <3>3 DEF j
  <2> QED
    BY <1>4, <2>2, <2>3 DEF Run
<1>5. CASE w.page.kind = "list" /\ cmd = "delete"
  BY <1>5, PromptRuns DEF Run
<1>6. CASE (w.page.kind = "list" /\ cmd = "switch") \/ (w.page.kind = "form" /\ cmd = "register")
  BY <1>6, FollowRuns DEF Run
<1>7. CASE w.page.kind = "form" /\ cmd \in {"kcheck", "srcheck", "kccheck", "kcdelete"}
  BY <1>7, FormCommandsRun DEF Run
<1>8. CASE cmd = "crash"
  BY <1>8, RanCrash DEF Run
<1> QED
  BY <1>1, <1>2, <1>3, <1>4, <1>5, <1>6, <1>7, <1>8 DEF CanRun, ListWords, FormWords

-----------------------------------------------------------------------------
(* The clusters page gets a message.                                       *)

(* The deletion confirmed is of the cluster selected, which is not the     *)
(* active one and stays selected.                                          *)
Ready(w, n) ==
  /\ w.page.kind = "list" /\ Held(w.page.bars) /\ Fresh(w.clusters, w.page)
  /\ Selected(w.page) = n /\ n \in Deletable(w.clusters)
Duty(w) == \A d \in Duties(w.jobs) : d[2] = <<>> /\ Ready(w, d[1])

DutyGoes(w, msg, v) ==
  /\ \A d \in Duties(v.jobs) : d \in Duties(w.jobs) \/ IsKey(msg, "enter")
  /\ Duty(w) /\ (Calm(msg) \/ Duties(w.jobs) = {}) => Duty(v)

(* A prompt is for the row selected, as long as the rows stay.             *)
PromptGoes(w, v) ==
  v.page.kind = "list" /\ Prompting(v.page) =>
    /\ w.page.kind = "list"
    /\ Fresh(w.clusters, w.page) =>
         v.page.rows = w.page.rows \/ ~Misnamed(v.page)
    /\ v.page.rows = w.page.rows /\ ~Misnamed(w.page) => ~Misnamed(v.page)

ListStepped(w, msg, v) ==
  /\ WorldOK(v) /\ Keeps(w, v) /\ v.page.kind = "list" /\ Fresh(v.clusters, v.page)
  /\ DutyGoes(w, msg, v) /\ PromptGoes(w, v)
  /\ msg.type = "kStarted" => v.crashed \/ v.awaits

LEMMA ListToPage ==
  ASSUME NEW w, WorldOK(w), ~w.crashed, w.page.kind = "list",
         NEW msg, MsgOK(msg), NEW row
  PROVE  ListStepped(w, msg, ToPage(w, msg, row))
<1> DEFINE cs == w.clusters
           p == w.page
           o == ListUpdate(cs, p, msg)
           base == [w EXCEPT !.page = o.next]
           v == ToPage(w, msg, row)
<1>1. cs \in Clusters /\ ListOK(p) /\ p.kind = "list" /\ IsMessage(msg)
  BY PageTyped DEF MsgOK, IsMessage
<1>2. v = AllRun(base, o.cmds)
  BY RunAllIsAll DEF ToPage, PageUpdate
<1>3. p \in ListPages /\ p.bars \in Bars /\ IsOpen(p.bars)
  BY <1>1 DEF ListOK, ListPages
<1> HIDE DEF cs, p
<1>4. ListKept(cs, p, msg, o)
  BY <1>1, ListUpdateKeeps
<1> HIDE DEF o
<1>5. o.next \in ListPages /\ o.next.kind = "list" /\ ListOK(o.next)
  BY <1>4, PageKinds DEF ListOK, ListKept
<1>6. /\ WorldOK(base) /\ Keeps(w, base) /\ base.page = o.next /\ base.jobs = w.jobs
      /\ base.crashed = w.crashed
  BY <1>1, <1>5, PageKeeps DEF p
<1> HIDE DEF base, v
<1>7. base.clusters = cs
  BY <1>6 DEF Keeps, cs
<1>8. \A n : Ready(w, n) /\ Calm(msg) => Ready(base, n)
  BY <1>4, <1>5, <1>6, <1>7 DEF Ready, ListKept, p, cs
<1>9. ASSUME NEW x, WorldOK(x), Keeps(base, x), x.page = o.next,
             msg.type = "kStarted" => x.crashed \/ x.awaits,
             \A d \in Duties(x.jobs) :
               \/ d \in Duties(w.jobs)
               \/ IsKey(msg, "enter") /\ d[2] = <<>> /\ Ready(x, d[1])
      PROVE  ListStepped(w, msg, x)
  <2>1. Keeps(w, x)
    BY <1>6, <1>9, KeepsOn
  <2>2. x.clusters = cs
    BY <1>7, <1>9 DEF Keeps
  <2>3. Fresh(x.clusters, x.page)
    BY <1>4, <1>9, <2>2 DEF ListKept
  <2>4. PromptGoes(w, x)
    BY <1>1, <1>4, <1>9, <2>2 DEF PromptGoes, ListKept, p, cs
  <2>5. ASSUME Duty(w), Calm(msg) \/ Duties(w.jobs) = {}, NEW d \in Duties(x.jobs)
        PROVE  d[2] = <<>> /\ Ready(x, d[1])
    <3>1. CASE d \in Duties(w.jobs)
      <4>1. Ready(base, d[1]) /\ d[2] = <<>>
        BY <1>8, <2>5, <3>1 DEF Duty
      <4> QED
        BY <1>6, <1>7, <1>9, <2>2, <4>1 DEF Ready
    <3>2. CASE d \notin Duties(w.jobs)
      BY <1>9, <3>2
    <3> QED
      BY <3>1, <3>2
  <2>6. DutyGoes(w, msg, x)
    BY <1>9, <2>5 DEF DutyGoes, Duty
  <2> QED
    BY <1>5, <1>9, <2>1, <2>3, <2>4, <2>6 DEF ListStepped
<1>10. CASE o.cmds = <<>>
  <2>1. v = base
    BY <1>2, <1>10, RunNone
  <2>2. msg.type # "kStarted"
    BY <1>4, <1>10 DEF ListKept, OneWord
  <2>3. ListStepped(w, msg, base)
    BY <1>6, <1>9, <2>2, KeepsSelf
  <2> QED
    BY <2>1, <2>3 DEF v
<1>11. ASSUME NEW c \in ListWords, o.cmds = <<c>> PROVE ListStepped(w, msg, v)
  <2>1. v = Run(base, c)
    BY <1>2, <1>11, RunOne
  <2>2. CanRun(base, c)
    BY <1>5, <1>6 DEF CanRun
  <2>3. Ran(base, c, v)
    BY <1>6, <2>1, <2>2, RunKeeps
  <2>4. /\ WorldOK(v) /\ Keeps(base, v)
        /\ v.page = o.next
        /\ c = "await" => v.crashed \/ v.awaits
        /\ \A d \in Duties(v.jobs) :
             \/ d \in Duties(w.jobs)
             \/ c = "delete" /\ ~Misnamed(o.next) /\ d = <<o.next.bars.del.value, <<>>>>
    BY <1>6, <2>3 DEF Ran, ListWords
  <2>5. \A d \in {"await", "delete"} : o.cmds = <<d>> => c = d
    BY <1>11
  <2>6. msg.type = "kStarted" => c = "await"
    BY <1>4, <2>5 DEF ListKept, OneWord
  <2>7. ASSUME c = "delete", ~Misnamed(o.next)
        PROVE  IsKey(msg, "enter") /\ Ready(v, o.next.bars.del.value)
    <3>1. o.cmds = <<"delete">>
      BY <1>11, <2>7
    <3>2. /\ IsKey(msg, "enter") /\ Prompting(p) /\ Prompting(o.next)
          /\ p.bars.del.value \in Deletable(cs)
      BY <1>4, <3>1 DEF ListKept, OneWord, Prompting
    <3>3. o.next.bars.del.value = p.bars.del.value /\ Fresh(cs, o.next)
      BY <1>4, <3>2 DEF ListKept
    <3>4. Selected(o.next) = o.next.bars.del.value
      BY <1>5, <2>7, <3>2 DEF Misnamed, Prompting
    <3>5. v.clusters = cs
      BY <1>7, <2>4 DEF Keeps
    <3> QED
      BY <1>5, <2>4, <3>2, <3>3, <3>4, <3>5 DEF Ready, Held, Prompting
  <2>8. \A d \in Duties(v.jobs) :
          \/ d \in Duties(w.jobs)
          \/ IsKey(msg, "enter") /\ d[2] = <<>> /\ Ready(v, d[1])
    BY <2>4, <2>7
  <2> QED
    BY <1>9, <2>4, <2>6, <2>8
<1> QED
  BY <1>4, <1>10, <1>11 DEF v, ListKept, OneWord

-----------------------------------------------------------------------------
(* The form gets a message: what becomes of the submission it waits for,   *)
(* of its tab, and of the fields it asks for.                              *)

SameDuty(f, g) == g.loading = f.loading /\ g.tab = f.tab

LEMMA RecreateSteps ==
  ASSUME NEW f \in Forms
  PROVE  /\ SameDuty(f, RecreateC(f)) /\ SameDuty(f, RecreateSr(f))
         /\ InStep(f) => InStep(RecreateC(f)) /\ InStep(RecreateSr(f))
         /\ /\ f.sasl = f.values.sasl
            /\ f.tls = "tls" <=> f.values.tls = "tls"
            /\ f.ver = "broker" <=> f.values.ver = "broker"
            => InStep(RecreateC(f))
<1>1. /\ RecreateC(f).c = HuhForm(CFields(f.values)) /\ RecreateC(f).values = f.values
      /\ RecreateC(f).sasl = f.sasl /\ RecreateC(f).tls = f.tls /\ RecreateC(f).ver = f.ver
      /\ RecreateC(f).loading = f.loading /\ RecreateC(f).tab = f.tab
  BY DEF RecreateC, Forms
<1>2. /\ RecreateSr(f).c = f.c /\ RecreateSr(f).values = f.values
      /\ RecreateSr(f).sasl = f.sasl /\ RecreateSr(f).tls = f.tls /\ RecreateSr(f).ver = f.ver
      /\ RecreateSr(f).loading = f.loading /\ RecreateSr(f).tab = f.tab
  BY DEF RecreateSr, Forms
<1>3. \A s : HuhForm(s).own = <<>> /\ HuhForm(s).fields = s
  BY DEF HuhForm
<1> QED
  BY <1>1, <1>2, <1>3 DEF SameDuty, InStep

LEMMA WithDoneSteps ==
  ASSUME NEW f \in Forms, NEW done \in BOOLEAN
  PROVE  LET g == [f EXCEPT ![f.shown].done = done]
         IN  SameDuty(f, g) /\ (InStep(f) => InStep(g))
<1> DEFINE g == [f EXCEPT ![f.shown].done = done]
<1>1. CASE f.shown = "c"
  <2> DEFINE h == [f.c EXCEPT !.done = done]
  <2>1. g = [f EXCEPT !.c = h]
    BY <1>1
  <2>2. h.own = f.c.own /\ h.fields = f.c.fields
    BY DEF Forms, HuhForms
  <2> HIDE DEF h
  <2>3. /\ g.c = h /\ g.values = f.values /\ g.sasl = f.sasl /\ g.tls = f.tls
        /\ g.ver = f.ver /\ g.loading = f.loading /\ g.tab = f.tab
    BY <2>1 DEF Forms
  <2> HIDE DEF g
  <2>4. SameDuty(f, g) /\ (InStep(f) => InStep(g))
    BY <2>2, <2>3 DEF SameDuty, InStep
  <2> QED
    BY <2>4 DEF g
<1>2. CASE f.shown = "sr"
  <2> DEFINE h == [f.sr EXCEPT !.done = done]
  <2>1. g = [f EXCEPT !.sr = h]
    BY <1>2
  <2> HIDE DEF h
  <2>3. /\ g.c = f.c /\ g.values = f.values /\ g.sasl = f.sasl /\ g.tls = f.tls
        /\ g.ver = f.ver /\ g.loading = f.loading /\ g.tab = f.tab
    BY <2>1 DEF Forms
  <2> HIDE DEF g
  <2>4. SameDuty(f, g) /\ (InStep(f) => InStep(g))
    BY <2>3 DEF SameDuty, InStep
  <2> QED
    BY <2>4 DEF g
<1> QED
  BY <1>1, <1>2 DEF Forms

(* A value other than the choices a form remembers does not count.         *)
ChoiceFields == {"tls", "ver", "sasl"}

LEMMA EditedSteps ==
  ASSUME NEW f \in Forms, NEW msg, MsgOK(msg), msg.type = "edit", Has(f, msg.field)
  PROVE  LET g == Edited(f, msg)
         IN  /\ SameDuty(f, g)
             /\ InStep(f) /\ msg.field \notin ChoiceFields => InStep(g)
             /\ InStep(f) /\ msg.field \in ChoiceFields =>
                  g = [f EXCEPT !.values = [f.values EXCEPT ![msg.field] = msg.value]]
<1> DEFINE g == Edited(f, msg)
           v == [Written(f, Shown(f)) EXCEPT ![msg.field] = msg.value]
<1>1. v \in Values
  <2> DEFINE u == Written(f, Shown(f))
  <2>1. u \in Values
    BY ShownTyped
  <2> HIDE DEF u
  <2>2. msg.field \in DOMAIN Blank /\ [Blank EXCEPT ![msg.field] = msg.value] \in Values
    BY DEF MsgOK
  <2>3. [u EXCEPT ![msg.field] = msg.value] \in Values
    BY <2>1, <2>2, ValueEdited
  <2> QED
    BY <2>3 DEF u
<1>2. CASE Shown(f).own = <<>>
  <2>1. g = [f EXCEPT !.values = v]
    BY <1>2 DEF Edited
  <2>2. v = [f.values EXCEPT ![msg.field] = msg.value]
    BY <1>2 DEF Written
  <2>3. msg.field \notin ChoiceFields =>
          /\ v.tls = f.values.tls /\ v.ver = f.values.ver /\ v.sasl = f.values.sasl
    BY <1>1, <2>2 DEF Values, ChoiceFields, Forms
  <2> HIDE DEF v
  <2>4. /\ g.c = f.c /\ g.values = v /\ g.sasl = f.sasl /\ g.tls = f.tls
        /\ g.ver = f.ver /\ g.loading = f.loading /\ g.tab = f.tab
    BY <2>1 DEF Forms
  <2> HIDE DEF g
  <2>5. SameDuty(f, g)
    BY <2>4 DEF SameDuty
  <2>6. InStep(f) /\ msg.field \notin ChoiceFields => InStep(g)
    BY <2>3, <2>4 DEF InStep, CFields
  <2> QED
    BY <2>1, <2>2, <2>5, <2>6 DEF g
<1>3. CASE Shown(f).own # <<>>
  <2>1. CASE f.shown = "c"
    <3> DEFINE h == [f.c EXCEPT !.own = <<v>>]
    <3>1. g = [f EXCEPT !.c = h]
      BY <1>3, <2>1 DEF Edited
    <3>2. ~InStep(f)
      BY <1>3, <2>1 DEF InStep, Shown
    <3> HIDE DEF h
    <3>3. g.loading = f.loading /\ g.tab = f.tab
      BY <3>1 DEF Forms
    <3> HIDE DEF g
    <3>4. SameDuty(f, g)
      BY <3>3 DEF SameDuty
    <3> QED
      BY <3>2, <3>4 DEF g
  <2>2. CASE f.shown = "sr"
    <3> DEFINE h == [f.sr EXCEPT !.own = <<v>>]
    <3>1. g = [f EXCEPT !.sr = h]
      BY <1>3, <2>2 DEF Edited
    <3>2. msg.field \notin ChoiceFields
      BY <2>2 DEF Has, ChoiceFields
    <3> HIDE DEF h
    <3>3. /\ g.c = f.c /\ g.values = f.values /\ g.sasl = f.sasl /\ g.tls = f.tls
          /\ g.ver = f.ver /\ g.loading = f.loading /\ g.tab = f.tab
      BY <3>1 DEF Forms
    <3> HIDE DEF g
    <3>4. SameDuty(f, g) /\ (InStep(f) => InStep(g))
      BY <3>3 DEF SameDuty, InStep
    <3> QED
      BY <3>2, <3>4 DEF g
  <2> QED
    BY <2>1, <2>2 DEF Forms
<1> QED
  BY <1>2, <1>3

LEMMA HuhUpdateSteps ==
  ASSUME NEW f \in Forms, NEW msg, MsgOK(msg), NEW cs
  PROVE  LET g == HuhUpdate(cs, f, msg)
         IN  /\ SameDuty(f, g)
             /\ InStep(f) =>
                  \/ InStep(g)
                  \/ /\ msg.type = "edit" /\ msg.field \in ChoiceFields
                     /\ g = [f EXCEPT !.values = [f.values EXCEPT ![msg.field] = msg.value]]
<1>1. SameDuty(f, f)
  BY DEF SameDuty
<1>2. LET g == [f EXCEPT ![f.shown].done = TRUE]
      IN  SameDuty(f, g) /\ (InStep(f) => InStep(g))
  BY WithDoneSteps
<1> QED
  BY <1>1, <1>2, EditedSteps DEF HuhUpdate

LEMMA CEdited ==
  ASSUME NEW f \in Forms, InStep(f), NEW g \in Forms, NEW field \in ChoiceFields, NEW value,
         field \in {"tls", "ver"} => value # "none", [Blank EXCEPT ![field] = value] \in Values,
         g = [f EXCEPT !.values = [f.values EXCEPT ![field] = value]]
  PROVE  InStep(AfterAuth(AfterVerification(AfterTransport(g))))
<1> DEFINE v == [f.values EXCEPT ![field] = value]
<1>1. /\ g.c = f.c /\ g.values = v /\ g.sasl = f.sasl /\ g.tls = f.tls
      /\ g.ver = f.ver /\ v \in Values
  BY DEF Forms
<1>2. /\ f.c.own = <<>> /\ f.c.fields = CFields(f.values) /\ f.sasl = f.values.sasl
      /\ f.tls = "tls" <=> f.values.tls = "tls"
      /\ f.ver = "broker" <=> f.values.ver = "broker"
  BY DEF InStep
<1>3. ASSUME NEW h, InStep(h)
      PROVE  AfterVerification(h) = h /\ AfterAuth(h) = h
  BY <1>3 DEF InStep, AfterVerification, AfterAuth
<1>4. ASSUME NEW h, h.tls = "tls" <=> h.values.tls = "tls"
      PROVE  AfterTransport(h) = h
  BY <1>4 DEF AfterTransport
<1>5. CASE field = "tls"
  <2>1. v.tls = value /\ v.ver = f.values.ver /\ v.sasl = f.values.sasl
    BY <1>5 DEF Forms, Values
  <2>2. value \in {"plain", "tls"}
    BY <1>1, <1>5, <2>1 DEF Values, Transports
  <2> HIDE DEF v
  <2>3. InStep(AfterTransport(g))
    <3>1. CASE value = "tls" /\ g.tls # "tls"
      <4> DEFINE r == RecreateC(g)
                 h == [r EXCEPT !.tls = "tls"]
      <4>1. AfterTransport(g) = h
        BY <1>1, <2>1, <3>1 DEF AfterTransport
      <4>2. /\ r.c = HuhForm(CFields(v)) /\ r.values = v /\ r.sasl = g.sasl
            /\ r.ver = g.ver /\ r \in Forms
        BY <1>1, RecreateTyped DEF RecreateC, Forms
      <4> HIDE DEF r
      <4>3. /\ h.c = HuhForm(CFields(v)) /\ h.values = v /\ h.sasl = g.sasl
            /\ h.ver = g.ver /\ h.tls = "tls"
        BY <4>2 DEF Forms
      <4> HIDE DEF h
      <4> QED
        BY <1>1, <1>2, <2>1, <3>1, <4>1, <4>3 DEF InStep, HuhForm
    <3>2. CASE value = "plain" /\ g.tls = "tls"
      <4> DEFINE u == [v EXCEPT !.ver = "none"]
                 q == [g EXCEPT !.tls = "plain", !.ver = "none", !.values = u]
      <4>1. AfterTransport(g) = RecreateC(q)
        <5>1. [g EXCEPT !.tls = "plain", !.ver = "none", !.values.ver = "none"] = q
          BY <1>1 DEF Forms
        <5> QED
          BY <1>1, <2>1, <3>2, <5>1 DEF AfterTransport
      <4>2. u \in Values /\ u.tls = v.tls /\ u.sasl = v.sasl /\ u.ver = "none"
        BY <1>1 DEF Values, Verifications
      <4> HIDE DEF u
      <4>3. /\ q.values = u /\ q.sasl = g.sasl /\ q.ver = "none" /\ q.tls = "plain"
            /\ q \in Forms
        <5>1. "plain" \in Transports /\ "none" \in Verifications
          BY DEF Transports, Verifications
        <5> QED
          BY <4>2, <5>1 DEF Forms
      <4> HIDE DEF q
      <4>4. /\ q.sasl = q.values.sasl
            /\ q.tls = "tls" <=> q.values.tls = "tls"
            /\ q.ver = "broker" <=> q.values.ver = "broker"
        BY <1>1, <1>2, <2>1, <3>2, <4>2, <4>3
      <4> QED
        BY <4>1, <4>3, <4>4, RecreateSteps
    <3>3. CASE ~(value = "tls" /\ g.tls # "tls") /\ ~(value = "plain" /\ g.tls = "tls")
      <4>1. AfterTransport(g) = g
        BY <1>1, <2>1, <3>3 DEF AfterTransport
      <4>2. CFields(v) = CFields(f.values)
        BY <1>1, <1>2, <2>1, <2>2, <3>3 DEF CFields
      <4> QED
        <5>1. InStep(g)
          BY <1>1, <1>2, <2>1, <2>2, <3>3, <4>2 DEF InStep
        <5> QED
          BY <4>1, <5>1
    <3> QED
      BY <2>2, <3>1, <3>2, <3>3
  <2> QED
    BY <1>3, <2>3
<1>6. CASE field = "ver"
  <2>1. v.ver = value /\ v.tls = f.values.tls /\ v.sasl = f.values.sasl
    BY <1>6 DEF Forms, Values
  <2> HIDE DEF v
  <2>2. AfterTransport(g) = g
    BY <1>1, <1>2, <1>4, <2>1
  <2>3. InStep(AfterVerification(g))
    <3>1. CASE (value = "broker") # (g.ver = "broker")
      <4> DEFINE r == RecreateC(g)
                 h == [r EXCEPT !.ver = value]
      <4>1. AfterVerification(g) = h
        BY <1>1, <2>1, <3>1 DEF AfterVerification
      <4>2. /\ r.c = HuhForm(CFields(v)) /\ r.values = v /\ r.sasl = g.sasl
            /\ r.tls = g.tls /\ r \in Forms
        BY <1>1, RecreateTyped DEF RecreateC, Forms
      <4> HIDE DEF r
      <4>3. /\ h.c = HuhForm(CFields(v)) /\ h.values = v /\ h.sasl = g.sasl
            /\ h.tls = g.tls /\ h.ver = value
        BY <4>2 DEF Forms
      <4> HIDE DEF h
      <4> QED
        BY <1>1, <1>2, <2>1, <4>1, <4>3 DEF InStep, HuhForm
    <3>2. CASE ~((value = "broker") # (g.ver = "broker"))
      <4>1. AfterVerification(g) = g
        BY <1>1, <2>1, <3>2 DEF AfterVerification
      <4>2. value = "broker" <=> g.ver = "broker"
        BY <3>2
      <4>3. CFields(v) = CFields(f.values)
        BY <1>1, <1>2, <2>1, <4>2 DEF CFields
      <4> QED
        <5>1. InStep(g)
          BY <1>1, <1>2, <2>1, <4>2, <4>3 DEF InStep
        <5> QED
          BY <4>1, <5>1
    <3> QED
      BY <3>1, <3>2
  <2> QED
    BY <1>3, <2>2, <2>3
<1>7. CASE field = "sasl"
  <2>1. v.sasl = value /\ v.tls = f.values.tls /\ v.ver = f.values.ver
    BY <1>7 DEF Forms, Values
  <2>0. value \in BOOLEAN
    BY <1>1, <2>1 DEF Values
  <2> HIDE DEF v
  <2>2. AfterTransport(g) = g
    BY <1>1, <1>2, <1>4, <2>1
  <2>3. AfterVerification(g) = g
    BY <1>1, <1>2, <2>1 DEF AfterVerification
  <2>4. InStep(AfterAuth(g))
    <3>1. CASE value # g.sasl
      <4> DEFINE r == RecreateC(g)
                 h == [r EXCEPT !.sasl = value]
      <4>1. AfterAuth(g) = h
        BY <1>1, <2>1, <3>1 DEF AfterAuth
      <4>2. /\ r.c = HuhForm(CFields(v)) /\ r.values = v /\ r.ver = g.ver
            /\ r.tls = g.tls /\ r \in Forms
        BY <1>1, RecreateTyped DEF RecreateC, Forms
      <4> HIDE DEF r
      <4>3. /\ h.c = HuhForm(CFields(v)) /\ h.values = v /\ h.sasl = value
            /\ h.tls = g.tls /\ h.ver = g.ver
        BY <4>2 DEF Forms
      <4> HIDE DEF h
      <4> QED
        BY <1>1, <1>2, <2>1, <4>1, <4>3 DEF InStep, HuhForm
    <3>2. CASE value = g.sasl
      <4>1. AfterAuth(g) = g
        BY <1>1, <2>1, <3>2 DEF AfterAuth
      <4>2. CFields(v) = CFields(f.values)
        BY <1>1, <1>2, <2>1, <3>2 DEF CFields
      <4> QED
        <5>1. InStep(g)
          BY <1>1, <1>2, <2>1, <3>2, <4>2 DEF InStep
        <5> QED
          BY <4>1, <5>1
    <3> QED
      BY <3>1, <3>2
  <2> QED
    BY <2>2, <2>3, <2>4
<1> QED
  BY <1>5, <1>6, <1>7 DEF ChoiceFields

(* What a form keeps when its choices are acted on.                        *)
Choosing == {"transport", "verification", "auth", "srTransport", "srVerification"}

LEMMA RemadeSteps ==
  ASSUME NEW f \in Forms, NEW t \in Transports, NEW v \in Verifications, NEW s \in BOOLEAN
  PROVE  LET r == RecreateC(f)
             q == RecreateSr(f)
         IN  /\ SameDuty(f, [r EXCEPT !.tls = t]) /\ SameDuty(f, [r EXCEPT !.ver = v])
             /\ SameDuty(f, [r EXCEPT !.sasl = s]) /\ SameDuty(f, [q EXCEPT !.ver = v])
             /\ SameDuty(f, [q EXCEPT !.tls = t]) /\ SameDuty(f, [f EXCEPT !.tls = t])
<1> DEFINE r == RecreateC(f)
           q == RecreateSr(f)
<1>1. r \in Forms /\ q \in Forms /\ SameDuty(f, r) /\ SameDuty(f, q)
  BY RecreateTyped, RecreateSteps
<1> HIDE DEF r, q
<1>2. /\ SameDuty(f, [r EXCEPT !.tls = t]) /\ SameDuty(f, [r EXCEPT !.ver = v])
      /\ SameDuty(f, [r EXCEPT !.sasl = s])
  BY <1>1 DEF SameDuty, Forms
<1>3. /\ SameDuty(f, [q EXCEPT !.ver = v]) /\ SameDuty(f, [q EXCEPT !.tls = t])
      /\ SameDuty(f, [f EXCEPT !.tls = t])
  BY <1>1 DEF SameDuty, Forms
<1> QED
  BY <1>2, <1>3 DEF r, q

(* One operation of those that act on a choice.                            *)
Acts(op, f) ==
  CASE op = "transport" -> AfterTransport(f)
    [] op = "verification" -> AfterVerification(f)
    [] op = "auth" -> AfterAuth(f)
    [] op = "srTransport" -> AfterSrTransport(f)
    [] op = "srVerification" -> AfterSrVerification(f)

LEMMA ActsSteps ==
  ASSUME NEW f \in Forms, NEW op \in Choosing
  PROVE  Acts(op, f) \in Forms /\ SameDuty(f, Acts(op, f))
<1>1. /\ f.values.ver \in Verifications /\ f.values.sasl \in BOOLEAN
      /\ f.values.srTls \in Transports /\ f.values.srVer \in Verifications
      /\ "tls" \in Transports
  BY DEF Forms, Values, Transports
<1>2. SameDuty(f, f)
  BY DEF SameDuty
<1>3. AfterTransport(f) \in Forms /\ SameDuty(f, AfterTransport(f))
  <2> DEFINE v == [f.values EXCEPT !.ver = "none"]
             h == [[[f EXCEPT !.tls = "plain"] EXCEPT !.ver = "none"] EXCEPT !.values = v]
  <2>1. v \in Values
    BY DEF Forms, Values, Verifications
  <2>2. h \in Forms
    BY <2>1 DEF Forms, Transports, Verifications
  <2>3. SameDuty(f, h)
    BY DEF SameDuty, Forms
  <2>4. [f EXCEPT !.tls = "plain", !.ver = "none", !.values.ver = "none"] = h
    BY DEF Forms
  <2>5. [RecreateC(f) EXCEPT !.tls = "tls"] \in Forms
    BY RecreateTyped DEF Forms, Transports
  <2> HIDE DEF h
  <2>6. RecreateC(h) \in Forms /\ SameDuty(h, RecreateC(h))
    BY <2>2, RecreateTyped, RecreateSteps
  <2>7. SameDuty(f, RecreateC(h))
    BY <2>3, <2>6 DEF SameDuty
  <2>8. SameDuty(f, [RecreateC(f) EXCEPT !.tls = "tls"])
    BY <1>1, RemadeSteps DEF Forms
  <2> QED
    BY <1>2, <2>4, <2>5, <2>6, <2>7, <2>8 DEF AfterTransport
<1>4. AfterVerification(f) \in Forms /\ SameDuty(f, AfterVerification(f))
  <2> DEFINE r == RecreateC(f)
             v == f.values.ver
  <2>1. r \in Forms
    BY RecreateTyped
  <2>2. AfterVerification(f) \in {f, [r EXCEPT !.ver = v]}
    BY DEF AfterVerification
  <2>3. SameDuty(f, [r EXCEPT !.ver = v])
    BY <1>1, RemadeSteps DEF Forms
  <2> HIDE DEF r, v
  <2>4. [r EXCEPT !.ver = v] \in Forms
    BY <1>1, <2>1 DEF Forms, v
  <2> QED
    BY <1>2, <2>2, <2>3, <2>4
<1>5. AfterAuth(f) \in Forms /\ SameDuty(f, AfterAuth(f))
  <2> DEFINE r == RecreateC(f)
             v == f.values.sasl
  <2>1. r \in Forms
    BY RecreateTyped
  <2>2. AfterAuth(f) \in {f, [r EXCEPT !.sasl = v]}
    BY DEF AfterAuth
  <2>3. SameDuty(f, [r EXCEPT !.sasl = v])
    BY <1>1, RemadeSteps DEF Forms
  <2> HIDE DEF r, v
  <2>4. [r EXCEPT !.sasl = v] \in Forms
    BY <1>1, <2>1 DEF Forms, v
  <2> QED
    BY <1>2, <2>2, <2>3, <2>4
<1>6. AfterSrTransport(f) \in Forms /\ SameDuty(f, AfterSrTransport(f))
  <2> DEFINE r == RecreateSr(f)
             v == f.values.srTls
  <2>1. r \in Forms
    BY RecreateTyped
  <2>2. AfterSrTransport(f) \in {[f EXCEPT !.tls = v], [r EXCEPT !.tls = v]}
    BY DEF AfterSrTransport
  <2>3. SameDuty(f, [r EXCEPT !.tls = v]) /\ SameDuty(f, [f EXCEPT !.tls = v])
    BY <1>1, RemadeSteps DEF Forms
  <2> HIDE DEF r, v
  <2>4. [r EXCEPT !.tls = v] \in Forms /\ [f EXCEPT !.tls = v] \in Forms
    BY <1>1, <2>1 DEF Forms, v
  <2> QED
    BY <2>2, <2>3, <2>4
<1>7. AfterSrVerification(f) \in Forms /\ SameDuty(f, AfterSrVerification(f))
  <2> DEFINE r == RecreateSr(f)
             v == f.values.srVer
  <2>1. r \in Forms
    BY RecreateTyped
  <2>2. AfterSrVerification(f) \in {f, [r EXCEPT !.ver = v]}
    BY DEF AfterSrVerification
  <2>3. SameDuty(f, [r EXCEPT !.ver = v])
    BY <1>1, RemadeSteps DEF Forms
  <2> HIDE DEF r, v
  <2>4. [r EXCEPT !.ver = v] \in Forms
    BY <1>1, <2>1 DEF Forms, v
  <2> QED
    BY <1>2, <2>2, <2>3, <2>4
<1> QED
  BY <1>3, <1>4, <1>5, <1>6, <1>7 DEF Acts, Choosing

LEMMA ChosenSteps ==
  ASSUME NEW f \in Forms
  PROVE  /\ SameDuty(f, Chosen(f))
         /\ f.tab = "c" /\ InStep(f) => Chosen(f) = f
<1> DEFINE f1 == Acts("transport", f)
           f2 == Acts("verification", f1)
           f3 == Acts("auth", f2)
           g1 == Acts("srTransport", f)
           g2 == Acts("srVerification", g1)
<1>0. {"transport", "verification", "auth", "srTransport", "srVerification"} \subseteq Choosing
  BY DEF Choosing
<1>1. Chosen(f) = IF f.tab = "c" THEN f3 ELSE g2
  BY DEF Chosen, Acts
<1>2. f1 \in Forms /\ SameDuty(f, f1) /\ g1 \in Forms /\ SameDuty(f, g1)
  BY <1>0, ActsSteps
<1> HIDE DEF f1, g1
<1>3. f2 \in Forms /\ SameDuty(f1, f2) /\ g2 \in Forms /\ SameDuty(g1, g2)
  BY <1>0, <1>2, ActsSteps
<1> HIDE DEF f2, g2
<1>4. f3 \in Forms /\ SameDuty(f2, f3)
  BY <1>0, <1>3, ActsSteps
<1> HIDE DEF f3
<1>5. SameDuty(f, Chosen(f))
  BY <1>1, <1>2, <1>3, <1>4 DEF SameDuty
<1>6. InStep(f) => AfterTransport(f) = f /\ AfterVerification(f) = f /\ AfterAuth(f) = f
  <2>1. InStep(f) => AfterTransport(f) = f
    BY DEF InStep, AfterTransport
  <2>2. InStep(f) => AfterVerification(f) = f
    BY DEF InStep, AfterVerification
  <2>3. InStep(f) => AfterAuth(f) = f
    BY DEF InStep, AfterAuth
  <2> QED
    BY <2>1, <2>2, <2>3
<1> QED
  BY <1>5, <1>6 DEF Chosen

LEMMA AfterFormSteps ==
  ASSUME NEW f \in Forms, NEW msg, MsgOK(msg), NEW cs
  PROVE  LET o == AfterForm(cs, f, msg)
         IN  /\ o.next.tab = f.tab
             /\ o.next.loading =>
                  f.loading \/ o.cmds \in {<<"kcheck">>, <<"srcheck">>, <<"crash">>}
             /\ f.tab = "c" /\ InStep(f) => InStep(o.next)
<1> DEFINE g == HuhUpdate(cs, f, msg)
           h == Chosen(g)
           check == IF f.tab = "c" THEN "kcheck" ELSE "srcheck"
           o == AfterForm(cs, f, msg)
<1>1. g \in Forms /\ SameDuty(f, g)
  BY HuhUpdateTyped, HuhUpdateSteps
<1>2. InStep(f) =>
        \/ InStep(g)
        \/ /\ msg.type = "edit" /\ msg.field \in ChoiceFields
           /\ g = [f EXCEPT !.values = [f.values EXCEPT ![msg.field] = msg.value]]
  BY HuhUpdateSteps
<1>3. o = Submitted(h, check)
  BY DEF AfterForm
<1> HIDE DEF g
<1>4. h \in Forms /\ SameDuty(g, h)
  BY <1>1, ChosenTyped, ChosenSteps
<1>5. f.tab = "c" /\ InStep(f) => InStep(h)
  <2> SUFFICES ASSUME f.tab = "c", InStep(f) PROVE InStep(h)
    OBVIOUS
  <2>1. g.tab = "c"
    BY <1>1 DEF SameDuty
  <2>2. CASE InStep(g)
    BY <1>1, <2>1, <2>2, ChosenSteps
  <2>3. CASE ~InStep(g)
    <3> DEFINE field == msg.field
               value == msg.value
    <3>1. /\ field \in ChoiceFields
          /\ g = [f EXCEPT !.values = [f.values EXCEPT ![field] = value]]
          /\ msg.type = "edit"
      BY <1>2, <2>3
    <3>2. /\ field \in {"tls", "ver"} => value # "none"
          /\ [Blank EXCEPT ![field] = value] \in Values
      BY <3>1 DEF MsgOK
    <3> HIDE DEF field, value
    <3>3. InStep(AfterAuth(AfterVerification(AfterTransport(g))))
      BY <1>1, <3>1, <3>2, CEdited
    <3> QED
      BY <2>1, <3>3 DEF Chosen
  <2> QED
    BY <2>2, <2>3
<1> HIDE DEF h
<1>6. h.tab = f.tab /\ h.loading = f.loading
  BY <1>1, <1>4 DEF SameDuty
<1>7. CASE Shown(h).done /\ ~h.loading
  <2> DEFINE q == [h EXCEPT !.loading = TRUE]
             c == IF check = "srcheck" /\ ~h.values.url THEN "crash" ELSE check
  <2>1. o.next = q /\ o.cmds = <<c>>
    BY <1>3, <1>7 DEF Submitted, Does
  <2>2. c \in {"kcheck", "srcheck", "crash"}
    OBVIOUS
  <2>3. q.tab = h.tab /\ (InStep(h) => InStep(q))
    BY <1>4 DEF Forms, InStep
  <2> HIDE DEF q, c, o
  <2>4. /\ o.next.tab = f.tab
        /\ o.cmds \in {<<"kcheck">>, <<"srcheck">>, <<"crash">>}
        /\ f.tab = "c" /\ InStep(f) => InStep(o.next)
    BY <1>5, <1>6, <2>1, <2>2, <2>3
  <2> QED
    BY <2>4 DEF o
<1>8. CASE ~(Shown(h).done /\ ~h.loading)
  <2>1. o.next = h
    BY <1>3, <1>8 DEF Submitted, Does
  <2> QED
    BY <1>5, <1>6, <2>1
<1> QED
  BY <1>7, <1>8

LEMMA ResetSteps ==
  ASSUME NEW f \in Forms
  PROVE  SameDuty(f, Reset(f)) /\ (f.tab = "c" => InStep(Reset(f)))
<1> DEFINE c == Detached(f.c, f.values)
           sr == Detached(f.sr, f.values)
           blank == [[[f EXCEPT !.values = Blank] EXCEPT !.c = c] EXCEPT !.sr = sr]
           cleared == [[[blank EXCEPT !.tls = "none"] EXCEPT !.ver = "none"] EXCEPT !.sasl = FALSE]
<1>1. c \in HuhForms /\ sr \in HuhForms
  BY DetachedTyped DEF Forms
<1>2. Reset(f) = IF f.tab = "c" THEN RecreateC(cleared) ELSE RecreateSr(blank)
  BY DEF Reset
<1> HIDE DEF c, sr
<1>3. blank \in Forms /\ SameDuty(f, blank) /\ blank.values = Blank
  BY <1>1, BlankTyped DEF Forms, SameDuty
<1> HIDE DEF blank
<1>4. /\ cleared \in Forms /\ SameDuty(blank, cleared) /\ cleared.values = Blank
      /\ cleared.tls = "none" /\ cleared.ver = "none" /\ cleared.sasl = FALSE
  BY <1>3 DEF Forms, Transports, Verifications, SameDuty
<1> HIDE DEF cleared
<1>5. /\ cleared.sasl = cleared.values.sasl
      /\ cleared.tls = "tls" <=> cleared.values.tls = "tls"
      /\ cleared.ver = "broker" <=> cleared.values.ver = "broker"
  <2>1. Blank.sasl = FALSE /\ Blank.tls = "none" /\ Blank.ver = "none"
    BY DEF Blank
  <2> QED
    BY <1>4, <2>1
<1>6. SameDuty(cleared, RecreateC(cleared)) /\ InStep(RecreateC(cleared))
  BY <1>4, <1>5, RecreateSteps
<1>7. SameDuty(blank, RecreateSr(blank))
  BY <1>3, RecreateSteps
<1> QED
  BY <1>2, <1>3, <1>4, <1>6, <1>7 DEF SameDuty

LEMMA HeardSteps ==
  ASSUME NEW f \in Forms, NEW msg, MsgOK(msg)
  PROVE  LET h == Heard(f, msg)
         IN  /\ h.tab = f.tab
             /\ h.loading => f.loading \/ msg.type \in {"kStarted", "srStarted"}
             /\ msg.type = "srStarted" => h.loading
             /\ msg.type = "kOk" => ~h.loading
             /\ f.tab = "c" /\ InStep(f) => InStep(h)
<1> DEFINE h == Heard(f, msg)
<1>1. ASSUME NEW b \in BOOLEAN, h = [f EXCEPT !.loading = b]
      PROVE  h.tab = f.tab /\ h.loading = b /\ (InStep(f) => InStep(h))
  <2> HIDE DEF h
  <2> QED
    BY <1>1 DEF Forms, InStep
<1>4. CASE msg.type \in {"kStarted", "srStarted"}
  <2>1. h = [f EXCEPT !.loading = TRUE]
    BY <1>4 DEF Heard
  <2> QED
    BY <1>1, <1>4, <2>1
<1>5. CASE msg.type = "kOk"
  <2>1. h = [f EXCEPT !.loading = FALSE]
    BY <1>5 DEF Heard
  <2> QED
    BY <1>1, <1>5, <2>1
<1>2. CASE msg.type = "registered"
  <2> DEFINE n == msg.cluster.name
  <2>1. h = [f EXCEPT !.pre = n, !.loading = FALSE, !.saved = TRUE]
    BY <1>2 DEF Heard
  <2> HIDE DEF h, n
  <2>2. h.tab = f.tab /\ h.loading = FALSE /\ (InStep(f) => InStep(h))
    BY <2>1 DEF Forms, InStep
  <2> QED
    BY <1>2, <2>2 DEF h
<1>3. CASE msg.type \notin {"kStarted", "srStarted", "kOk", "registered"}
  <2>1. h \in {f, Reset(f)}
    BY <1>3 DEF Heard
  <2> QED
    BY <1>3, <2>1, ResetSteps DEF SameDuty
<1> QED
  BY <1>2, <1>3, <1>4, <1>5

LEMMA RenewedSteps ==
  ASSUME NEW f \in Forms, NEW msg
  PROVE  LET r == Renewed(f, msg)
         IN  /\ r.tab = f.tab
             /\ r.loading => f.loading
             /\ msg.type \in {"kErr", "srErr"} => ~r.loading
             /\ f.tab = "c" /\ InStep(f) => InStep(r)
<1>1. ASSUME NEW g \in {RecreateC(f), RecreateSr(f)}
      PROVE  LET r == [g EXCEPT !.loading = FALSE]
             IN  /\ r.tab = f.tab /\ r.loading = FALSE
                 /\ InStep(f) => InStep(r)
  <2> DEFINE r == [g EXCEPT !.loading = FALSE]
  <2>1. g \in Forms /\ SameDuty(f, g) /\ (InStep(f) => InStep(g))
    BY RecreateTyped, RecreateSteps
  <2>2. r.tab = g.tab /\ r.loading = FALSE /\ (InStep(g) => InStep(r))
    BY <2>1 DEF Forms, InStep
  <2> HIDE DEF r
  <2>3. r.tab = f.tab /\ r.loading = FALSE /\ (InStep(f) => InStep(r))
    BY <2>1, <2>2 DEF SameDuty
  <2> QED
    BY <2>3 DEF r
<1>2. CASE msg.type = "kErr"
  BY <1>1, <1>2 DEF Renewed
<1>3. CASE msg.type = "srErr"
  BY <1>1, <1>3 DEF Renewed
<1>4. CASE msg.type = "kcErr"
  <2> DEFINE k == KcFailed(f.kc)
             r == [f EXCEPT !.kc = k]
  <2>1. Renewed(f, msg) = r
    BY <1>4 DEF Renewed
  <2> HIDE DEF k
  <2>2. r.tab = f.tab /\ r.loading = f.loading /\ (InStep(f) => InStep(r))
    BY DEF Forms, InStep
  <2> HIDE DEF r
  <2> QED
    BY <1>4, <2>1, <2>2
<1>5. CASE msg.type \notin {"kErr", "srErr", "kcErr"}
  <2>1. Renewed(f, msg) \in {f, RecreateC(f), RecreateSr(f)}
    BY <1>5 DEF Renewed
  <2> QED
    BY <1>5, <2>1, RecreateSteps DEF SameDuty
<1> QED
  BY <1>2, <1>3, <1>4, <1>5

LEMMA OnwardSteps ==
  ASSUME NEW f \in Forms, NEW msg, MsgOK(msg), NEW row \in ConnectNames \cup {NoItem}, NEW cs
  PROVE  LET o == Onward(cs, f, msg, row)
         IN  /\ o.next.tab = f.tab
             /\ o.next.loading =>
                  f.loading \/ o.cmds \in {<<"kcheck">>, <<"srcheck">>, <<"crash">>}
             /\ msg.type \in KcOnly => o.next.loading = f.loading
             /\ f.tab = "c" /\ InStep(f) => InStep(o.next)
<1> DEFINE o == Onward(cs, f, msg, row)
<1>1. CASE f.tab = "kc"
  <2> DEFINE k == KcUpdate(f.kc, msg, row)
             kc == Drawn(k.next)
             r == [f EXCEPT !.kc = kc]
  <2>1. o.next = r
    BY <1>1 DEF Onward, KcStep, KcShown, Does
  <2> HIDE DEF kc, o
  <2>2. r.tab = f.tab /\ r.loading = f.loading
    BY DEF Forms
  <2> HIDE DEF r
  <2> QED
    BY <1>1, <2>1, <2>2 DEF o
<1>2. CASE f.tab # "kc" /\ msg.type \in KcOnly
  <2>1. o.next = f
    BY <1>2 DEF Onward, Does
  <2> QED
    BY <1>2, <2>1
<1>3. CASE f.tab # "kc" /\ msg.type \notin KcOnly
  <2>1. o = AfterForm(cs, f, msg)
    BY <1>3 DEF Onward
  <2> QED
    BY <1>3, <2>1, AfterFormSteps
<1> QED
  BY <1>1, <1>2, <1>3

(* What a message makes of a form.                                         *)
FormStepped(f, msg, o) ==
  /\ o.next \in Forms /\ o.cmds \in FormCmds
  /\ o.next.loading => \/ f.loading \/ msg.type \in {"kStarted", "srStarted"}
                       \/ o.cmds \in {<<"kcheck">>, <<"srcheck">>, <<"crash">>}
  /\ msg.type \in {"kStarted", "srStarted"} =>
       o.cmds = <<"await">> \/ \E c \in FormWords \ {"list"} : o.cmds = <<"await", c>>
  /\ msg.type \in {"kOk", "kErr", "srOk", "srErr"} => ~o.next.loading
  /\ f.tab = "c" /\ InStep(f) /\ o.next.tab = "c" => InStep(o.next)
  /\ msg.type # "key" => o.next.tab = f.tab /\ o.cmds # <<"list">>

LEMMA TabKeySteps ==
  ASSUME NEW f \in Forms, NEW g \in {ToClusterTab(f), ToRegistryTab(f), ToConnectTab(f)}
  PROVE  g.loading = f.loading /\ (f.tab = "c" /\ InStep(f) /\ g.tab = "c" => InStep(g))
<1>1. CASE g = ToClusterTab(f)
  BY <1>1 DEF ToClusterTab, Forms, InStep
<1>2. CASE g = ToRegistryTab(f)
  <2> DEFINE s == [f.sr EXCEPT !.done = FALSE]
             h == [[[f EXCEPT !.shown = "sr"] EXCEPT !.sr = s] EXCEPT !.tab = "sr"]
  <2>1. g = IF f.saved THEN h ELSE f
    BY <1>2 DEF ToRegistryTab, Forms
  <2> HIDE DEF s
  <2>2. h.loading = f.loading /\ h.tab = "sr"
    BY DEF Forms
  <2> HIDE DEF h
  <2> QED
    BY <2>1, <2>2
<1>3. CASE g = ToConnectTab(f)
  <2> DEFINE p == [f EXCEPT ![f.shown].done = FALSE]
             kc == Drawn(f.kc)
             h == [[p EXCEPT !.tab = "kc"] EXCEPT !.kc = kc]
  <2>1. g = IF f.editing THEN h ELSE f
    <3>1. [f EXCEPT ![f.shown].done = FALSE, !.tab = "kc", !.kc = kc] = h
      BY DEF Forms
    <3>2. ToConnectTab(f) = IF f.editing
            THEN [f EXCEPT ![f.shown].done = FALSE, !.tab = "kc", !.kc = kc] ELSE f
      BY DEF ToConnectTab, Forms
    <3> QED
      BY <1>3, <3>1, <3>2
  <2>2. p \in Forms /\ SameDuty(f, p)
    BY WithDone, WithDoneSteps
  <2> HIDE DEF p, kc
  <2>3. h.loading = f.loading /\ h.tab = "kc"
    BY <2>2 DEF Forms, SameDuty
  <2> HIDE DEF h
  <2> QED
    BY <2>1, <2>3
<1> QED
  BY <1>1, <1>2, <1>3

LEMMA FormUpdateSteps ==
  ASSUME NEW f \in Forms, NEW msg, MsgOK(msg), NEW row \in ConnectNames \cup {NoItem}, NEW cs
  PROVE  FormStepped(f, msg, FormUpdate(cs, f, msg, row))
<1> DEFINE o == FormUpdate(cs, f, msg, row)
           Plain == /\ ~(IsKey(msg, "esc") /\ f.tab # "kc")
                    /\ ~IsKey(msg, "f4") /\ ~IsKey(msg, "f5") /\ ~IsKey(msg, "f6")
                    /\ msg.type # "srOk"
<1>1. o.next \in Forms /\ o.cmds \in FormCmds
  BY FormUpdateTyped
<1>2. CASE msg.type = "key" /\ ~Plain
  <2>1. o.next \in {f, ToClusterTab(f), ToRegistryTab(f), ToConnectTab(f)}
    BY <1>2 DEF FormUpdate, Does, IsKey
  <2>2. /\ o.next.loading = f.loading
        /\ f.tab = "c" /\ InStep(f) /\ o.next.tab = "c" => InStep(o.next)
    BY <2>1, TabKeySteps
  <2> HIDE DEF o
  <2>3. FormStepped(f, msg, o)
    BY <1>1, <1>2, <2>2 DEF FormStepped
  <2> QED
    BY <2>3 DEF o
<1>3. CASE msg.type = "srOk"
  <2> DEFINE g == [f EXCEPT !.loading = FALSE]
  <2>1. o.next = g /\ o.cmds = <<"register">>
    BY <1>3 DEF FormUpdate, Does, IsKey
  <2>2. g.loading = FALSE /\ g.tab = f.tab /\ (InStep(f) => InStep(g))
    BY DEF Forms, InStep
  <2>3. <<"register">> # <<"list">>
    OBVIOUS
  <2> HIDE DEF g, o
  <2>4. FormStepped(f, msg, o)
    BY <1>1, <1>3, <2>1, <2>2, <2>3 DEF FormStepped
  <2> QED
    BY <2>4 DEF o
<1>4. CASE Plain
  <2> DEFINE h == Heard(f, msg)
             on == Onward(cs, h, msg, row)
  <2>0. o.next = Renewed(on.next, msg) /\ o.cmds = Asked(msg) \o on.cmds
    BY <1>4 DEF FormUpdate, Completed, Does
  <2>1. /\ h \in Forms /\ h.tab = f.tab
        /\ h.loading => f.loading \/ msg.type \in {"kStarted", "srStarted"}
        /\ msg.type = "srStarted" => h.loading
        /\ msg.type = "kOk" => ~h.loading
        /\ f.tab = "c" /\ InStep(f) => InStep(h)
    BY HeardTyped, HeardSteps
  <2> HIDE DEF h
  <2>2. /\ on.next \in Forms
        /\ on.cmds \in {<<>>} \cup {<<c>> : c \in FormWords}
        /\ ~IsKey(msg, "esc") => on.cmds # <<"list">>
        /\ on.next.tab = h.tab
        /\ on.next.loading =>
             h.loading \/ on.cmds \in {<<"kcheck">>, <<"srcheck">>, <<"crash">>}
        /\ msg.type \in KcOnly => on.next.loading = h.loading
        /\ h.tab = "c" /\ InStep(h) => InStep(on.next)
    BY <2>1, OnwardTyped, OnwardSteps
  <2> HIDE DEF on, o
  <2>3. /\ o.next.tab = on.next.tab
        /\ o.next.loading => on.next.loading
        /\ msg.type \in {"kErr", "srErr"} => ~o.next.loading
        /\ on.next.tab = "c" /\ InStep(on.next) => InStep(o.next)
    <3> DEFINE g == on.next
               r == Renewed(g, msg)
    <3>1. g \in Forms /\ o.next = r
      BY <2>0, <2>2
    <3> HIDE DEF g
    <3>2. /\ r.tab = g.tab
          /\ r.loading => g.loading
          /\ msg.type \in {"kErr", "srErr"} => ~r.loading
          /\ g.tab = "c" /\ InStep(g) => InStep(r)
      BY <3>1, RenewedSteps
    <3> HIDE DEF r
    <3> QED
      BY <3>1, <3>2 DEF g
  <2>4. o.next.loading => \/ f.loading \/ msg.type \in {"kStarted", "srStarted"}
                          \/ o.cmds \in {<<"kcheck">>, <<"srcheck">>, <<"crash">>}
    <3>1. CASE msg.type \in {"kStarted", "srStarted"} \/ f.loading \/ ~o.next.loading
      BY <3>1
    <3>2. CASE msg.type \notin {"kStarted", "srStarted"} /\ ~f.loading /\ o.next.loading
      <4>1. ~h.loading /\ on.next.loading
        BY <2>1, <2>3, <3>2
      <4>2. msg.type \notin KcOnly /\ on.cmds \in {<<"kcheck">>, <<"srcheck">>, <<"crash">>}
        BY <2>2, <4>1
      <4>3. Asked(msg) = <<>>
        BY <3>2, <4>2 DEF Asked, KcOnly
      <4>4. o.cmds = on.cmds
        BY <2>0, <2>2, <4>3
      <4> QED
        BY <4>2, <4>4
    <3> QED
      BY <3>1, <3>2
  <2>5. msg.type \in {"kStarted", "srStarted"} =>
          o.cmds = <<"await">> \/ \E c \in FormWords \ {"list"} : o.cmds = <<"await", c>>
    <3> SUFFICES ASSUME msg.type \in {"kStarted", "srStarted"}
                 PROVE  o.cmds = <<"await">> \/ \E c \in FormWords \ {"list"} : o.cmds = <<"await", c>>
      OBVIOUS
    <3>1. Asked(msg) = <<"await">> /\ ~IsKey(msg, "esc")
      BY DEF Asked, IsKey
    <3>2. CASE on.cmds = <<>>
      <4>1. o.cmds = <<"await">>
        BY <2>0, <3>1, <3>2
      <4> QED
        BY <4>1
    <3>3. CASE on.cmds # <<>>
      <4>1. PICK c \in FormWords : on.cmds = <<c>>
        BY <2>2, <3>3
      <4>2. c # "list"
        BY <2>2, <3>1, <4>1
      <4>3. o.cmds = <<"await", c>>
        BY <2>0, <3>1, <4>1, TwoTogether, Zenon
      <4> QED
        BY <4>2, <4>3
    <3> QED
      BY <3>2, <3>3
  <2>6. msg.type \in {"kOk", "kErr", "srOk", "srErr"} => ~o.next.loading
    BY <1>4, <2>1, <2>2, <2>3 DEF KcOnly
  <2>7. msg.type # "key" => o.next.tab = f.tab /\ o.cmds # <<"list">>
    <3> SUFFICES ASSUME msg.type # "key" PROVE o.cmds # <<"list">>
      BY <2>1, <2>2, <2>3
    <3>1. ~IsKey(msg, "esc")
      BY DEF IsKey
    <3>2. CASE Asked(msg) = <<>>
      BY <2>0, <2>2, <3>1, <3>2
    <3>3. CASE Asked(msg) # <<>>
      <4>1. PICK a \in {"await", "register"} : Asked(msg) = <<a>>
        BY <3>3 DEF Asked
      <4>2. CASE on.cmds = <<>>
        <5>1. o.cmds = <<a>>
          BY <2>0, <4>1, <4>2
        <5> QED
          BY <5>1
      <4>3. CASE on.cmds # <<>>
        <5>1. PICK c \in FormWords : on.cmds = <<c>>
          BY <2>2, <4>3
        <5>2. o.cmds = <<a, c>>
          BY <2>0, <4>1, <5>1, TwoTogether, Zenon
        <5> QED
          BY <5>2
      <4> QED
        BY <4>2, <4>3
    <3> QED
      BY <3>2, <3>3
  <2>8. f.tab = "c" /\ InStep(f) /\ o.next.tab = "c" => InStep(o.next)
    BY <2>1, <2>2, <2>3
  <2>9. FormStepped(f, msg, o)
    BY <1>1, <2>4, <2>5, <2>6, <2>7, <2>8 DEF FormStepped
  <2> QED
    BY <2>9 DEF o
<1> QED
  BY <1>2, <1>3, <1>4 DEF IsKey

-----------------------------------------------------------------------------
(* A page gets a message: what the properties need of it.                  *)

StartMsgs  == {"kStarted", "srStarted"}
AnswerMsgs == {"kOk", "kErr", "srOk", "srErr"}
ClusterChecks == {"k", "sr"}

Loading(w)   == w.page.kind = "form" /\ w.page.form.loading
CFormOnly(w) == w.page.kind = "form" => w.page.form.tab = "c" /\ InStep(w.page.form)
CFormOK(w)   == w.page.kind = "form" /\ w.page.form.tab = "c" => InStep(w.page.form)

Stepped(w, msg, v) ==
  /\ WorldOK(v) /\ Keeps(w, v)
  /\ DutyGoes(w, msg, v) /\ PromptGoes(w, v)
  /\ Loading(v) => \/ v.crashed \/ Loading(w) \/ msg.type \in StartMsgs
                   \/ Kinds(v.jobs) \cap ClusterChecks # {}
  /\ msg.type = "kStarted" => v.crashed \/ v.awaits
  /\ msg.type = "srStarted" => v.crashed \/ v.awaits \/ v.page.kind = "list"
  /\ msg.type \in AnswerMsgs => v.crashed \/ ~Loading(v)
  /\ CFormOnly(w) => CFormOK(v)

(* A message no page has a handler for leaves the page and its tab.        *)
SamePage(w, v) ==
  /\ v.page.kind = w.page.kind
  /\ w.page.kind = "form" => v.page.form.tab = w.page.form.tab
  /\ w.page.kind = "list" => Fresh(v.clusters, v.page) \/ v.page = w.page

(* A command of a form, run in a world whose form may be new.              *)
FormRan(w, v) ==
  /\ WorldOK(v) /\ Keeps(w, v) /\ v.page = w.page
  /\ Duties(v.jobs) \subseteq Duties(w.jobs)

(* Nothing is to be deleted where a form is shown.                         *)
LEMMA FormDuty ==
  ASSUME NEW w, w.page.kind = "form", NEW msg, NEW v, v.page.kind = "list" => ~Prompting(v.page),
         Duties(v.jobs) \subseteq Duties(w.jobs)
  PROVE  DutyGoes(w, msg, v) /\ PromptGoes(w, v)
<1>1. Duty(w) => Duties(w.jobs) = {}
  BY DEF Duty, Ready
<1>2. Duties(v.jobs) = {} => Duty(v)
  BY DEF Duty
<1> QED
  BY <1>1, <1>2 DEF DutyGoes, PromptGoes

LEMMA FormRuns ==
  ASSUME NEW w, WorldOK(w), w.page.kind = "form", NEW c \in FormWords \ {"list"}
  PROVE  LET v == Run(w, c)
         IN  /\ FormRan(w, v)
             /\ c = "await" => v.crashed \/ v.awaits
             /\ c \in {"kcheck", "srcheck"} =>
                  v.crashed \/ Kinds(v.jobs) \cap ClusterChecks # {}
             /\ c = "crash" => v.crashed
<1>1. CASE w.crashed
  <2>1. Run(w, c) = w
    BY <1>1 DEF Run
  <2> QED
    BY <1>1, <2>1, KeepsSelf DEF FormRan
<1>2. CASE ~w.crashed
  <2> DEFINE v == Run(w, c)
  <2>1. CanRun(w, c)
    BY DEF CanRun
  <2>2. Ran(w, c, v)
    BY <1>2, <2>1, RunKeeps
  <2> HIDE DEF v
  <2>3. /\ FormRan(w, v)
        /\ c = "await" => v.crashed \/ v.awaits
        /\ c \in {"kcheck", "srcheck"} =>
             v.crashed \/ Kinds(v.jobs) \cap ClusterChecks # {}
        /\ c = "crash" => v.crashed
    <3>1. c # "delete" /\ c # "list"
      BY DEF FormWords
    <3> QED
      BY <2>2, <3>1 DEF Ran, FormRan, ClusterChecks
  <2> QED
    BY <2>3 DEF v
<1> QED
  BY <1>1, <1>2

LEMMA FormToPage ==
  ASSUME NEW w, WorldOK(w), ~w.crashed, w.page.kind = "form",
         NEW msg, MsgOK(msg), NEW row \in ConnectNames \cup {NoItem}
  PROVE  /\ Stepped(w, msg, ToPage(w, msg, row))
         /\ msg.type = "other" => SamePage(w, ToPage(w, msg, row))
<1> DEFINE f == w.page.form
           o == FormUpdate(w.clusters, f, msg, row)
           g == o.next
           base == [w EXCEPT !.page = FormPage(g)]
           v == ToPage(w, msg, row)
<1>1. f \in Forms
  <2>1. w.page \in FormPages
    BY PageKinds DEF WorldOK, Worlds
  <2> QED
    BY <2>1, PageKinds
<1>2. FormStepped(f, msg, o)
  BY <1>1, FormUpdateSteps
<1>3. v = AllRun(base, o.cmds)
  <2> DEFINE u == [o EXCEPT !.next = FormPage(g)]
  <2>1. PageUpdate(w, msg, row) = u
    BY DEF PageUpdate
  <2>2. u.next = FormPage(g) /\ u.cmds = o.cmds
    BY DEF FormUpdate, Completed, Does
  <2>3. v = RunAll(w, u)
    BY <2>1 DEF ToPage
  <2> HIDE DEF o, u
  <2> QED
    BY <2>2, <2>3, RunAllIsAll
<1> HIDE DEF o, v
<1>4. /\ g \in Forms /\ o.cmds \in FormCmds
      /\ g.loading => \/ f.loading \/ msg.type \in StartMsgs
                      \/ o.cmds \in {<<"kcheck">>, <<"srcheck">>, <<"crash">>}
      /\ msg.type \in StartMsgs =>
           o.cmds = <<"await">> \/ \E c \in FormWords \ {"list"} : o.cmds = <<"await", c>>
      /\ msg.type \in AnswerMsgs => ~g.loading
      /\ f.tab = "c" /\ InStep(f) /\ g.tab = "c" => InStep(g)
      /\ msg.type # "key" => g.tab = f.tab /\ o.cmds # <<"list">>
  BY <1>2 DEF FormStepped, StartMsgs, AnswerMsgs
<1> HIDE DEF g
<1>5. FormPage(g) \in FormPages /\ FormPage(g).kind = "form" /\ FormPage(g).form = g
  BY <1>4, PageKinds DEF FormPage
<1>6. /\ WorldOK(base) /\ Keeps(w, base) /\ base.page = FormPage(g) /\ base.jobs = w.jobs
      /\ base.crashed = w.crashed /\ base.awaits = w.awaits
  BY <1>5, PageKeeps
<1> HIDE DEF base
<1>7. base.page.kind = "form" /\ base.page.form = g
  BY <1>5, <1>6
<1>8. CASE o.cmds = <<"list">>
  <2>1. v = Run(base, "list")
    BY <1>3, <1>8, RunOne
  <2>2. CanRun(base, "list")
    BY <1>7 DEF CanRun, FormWords
  <2>3. Ran(base, "list", v)
    BY <1>6, <2>1, <2>2, RunKeeps
  <2>4. /\ WorldOK(v) /\ Keeps(base, v) /\ v.page.kind = "list" /\ ~Prompting(v.page)
        /\ Duties(v.jobs) \subseteq Duties(w.jobs)
    BY <1>6, <2>3 DEF Ran
  <2>5. Keeps(w, v)
    BY <1>6, <2>4, KeepsOn
  <2>6. msg.type = "key"
    BY <1>4, <1>8
  <2>8. DutyGoes(w, msg, v) /\ PromptGoes(w, v)
    BY <2>4, FormDuty
  <2>7. Stepped(w, msg, v)
    BY <2>4, <2>5, <2>6, <2>8 DEF Stepped, Loading, CFormOK, StartMsgs, AnswerMsgs
  <2> QED
    BY <2>6, <2>7 DEF v
<1>9. ASSUME FormRan(base, v),
             msg.type \in StartMsgs => v.crashed \/ v.awaits,
             o.cmds \in {<<"kcheck">>, <<"srcheck">>, <<"crash">>} =>
               v.crashed \/ Kinds(v.jobs) \cap ClusterChecks # {}
      PROVE  Stepped(w, msg, v) /\ (msg.type # "key" => SamePage(w, v))
  <2>1. /\ WorldOK(v) /\ Keeps(base, v) /\ v.page.kind = "form" /\ v.page.form = g
        /\ Duties(v.jobs) \subseteq Duties(w.jobs)
    BY <1>6, <1>7, <1>9 DEF FormRan
  <2>2. Keeps(w, v)
    BY <1>6, <2>1, KeepsOn
  <2>3. DutyGoes(w, msg, v) /\ PromptGoes(w, v)
    BY <2>1, FormDuty
  <2>4. Loading(v) => \/ v.crashed \/ Loading(w) \/ msg.type \in StartMsgs
                      \/ Kinds(v.jobs) \cap ClusterChecks # {}
    BY <1>4, <1>9, <2>1 DEF Loading, f
  <2>5. CFormOnly(w) => CFormOK(v)
    BY <1>4, <2>1 DEF CFormOnly, CFormOK, f
  <2>6. msg.type \in AnswerMsgs => ~Loading(v)
    BY <1>4, <2>1 DEF Loading
  <2>7. msg.type # "key" => SamePage(w, v)
    BY <1>4, <2>1 DEF SamePage, f
  <2> QED
    BY <1>9, <2>1, <2>2, <2>3, <2>4, <2>5, <2>6, <2>7 DEF Stepped, StartMsgs
<1>10. CASE o.cmds = <<>>
  <2>1. v = base
    BY <1>3, <1>10, RunNone
  <2>2. FormRan(base, v)
    BY <1>6, <2>1, KeepsSelf DEF FormRan
  <2>3. msg.type \notin StartMsgs /\ o.cmds \notin {<<"kcheck">>, <<"srcheck">>, <<"crash">>}
    BY <1>4, <1>10
  <2> QED
    BY <1>9, <2>2, <2>3 DEF v
<1>11. CASE \E c \in FormWords \ {"list"} : o.cmds = <<c>>
  <2>1. PICK c \in FormWords \ {"list"} : o.cmds = <<c>>
    BY <1>11
  <2>2. v = Run(base, c)
    BY <1>3, <2>1, RunOne
  <2>3. /\ FormRan(base, v)
        /\ c = "await" => v.crashed \/ v.awaits
        /\ c \in {"kcheck", "srcheck"} => v.crashed \/ Kinds(v.jobs) \cap ClusterChecks # {}
        /\ c = "crash" => v.crashed
    BY <1>6, <1>7, <2>2, FormRuns
  <2>4. \A d \in FormWords : o.cmds = <<d>> => c = d
    BY <2>1
  <2>5. /\ msg.type \in StartMsgs => c = "await"
        /\ o.cmds \in {<<"kcheck">>, <<"srcheck">>, <<"crash">>} =>
             c \in {"kcheck", "srcheck", "crash"}
    BY <1>4, <2>1, <2>4 DEF FormWords
  <2> QED
    BY <1>9, <2>3, <2>5 DEF v
<1>12. CASE \E a \in {"await", "register"}, c \in FormWords \ {"list"} : o.cmds = <<a, c>>
  <2>1. PICK a \in {"await", "register"}, c \in FormWords \ {"list"} : o.cmds = <<a, c>>
    BY <1>12
  <2> DEFINE u == Run(base, a)
  <2>2. v = Run(u, c)
    BY <1>3, <2>1, RunTwo
  <2>3. a \in FormWords \ {"list"}
    BY DEF FormWords
  <2>4. FormRan(base, u) /\ (a = "await" => u.crashed \/ u.awaits)
    BY <1>6, <1>7, <2>3, FormRuns
  <2> HIDE DEF u
  <2>5. WorldOK(u) /\ u.page.kind = "form"
    BY <1>7, <2>4 DEF FormRan
  <2>6. FormRan(u, v)
    BY <2>2, <2>5, FormRuns
  <2>7. FormRan(base, v)
    <3>1. Keeps(base, v)
      BY <2>4, <2>6, KeepsOn DEF FormRan
    <3> QED
      BY <2>4, <2>6, <3>1 DEF FormRan
  <2>8. msg.type \in StartMsgs => v.crashed \/ v.awaits
    <3>1. msg.type \in StartMsgs => a = "await"
      BY <1>4, <2>1
    <3>2. /\ u.crashed => v.crashed
          /\ u.awaits => v.awaits
      BY <2>6 DEF FormRan, Keeps
    <3> QED
      BY <2>4, <3>1, <3>2
  <2>9. o.cmds \notin {<<"kcheck">>, <<"srcheck">>, <<"crash">>}
    BY <2>1
  <2> QED
    BY <1>9, <2>7, <2>8, <2>9 DEF v
<1>13. \/ o.cmds = <<>> \/ o.cmds = <<"list">>
       \/ \E c \in FormWords \ {"list"} : o.cmds = <<c>>
       \/ \E a \in {"await", "register"}, c \in FormWords \ {"list"} : o.cmds = <<a, c>>
  BY <1>4 DEF FormCmds
<1> QED
  BY <1>8, <1>10, <1>11, <1>12, <1>13

LEMMA ToPageSteps ==
  ASSUME NEW w, WorldOK(w), ~w.crashed, NEW msg, MsgOK(msg),
         NEW row \in ConnectNames \cup {NoItem}
  PROVE  /\ Stepped(w, msg, ToPage(w, msg, row))
         /\ msg.type = "other" => SamePage(w, ToPage(w, msg, row))
<1> DEFINE v == ToPage(w, msg, row)
<1>1. CASE w.page.kind = "form"
  BY <1>1, FormToPage
<1>2. CASE w.page.kind = "list"
  <2>1. ListStepped(w, msg, v)
    BY <1>2, ListToPage
  <2> HIDE DEF v
  <2>2. Stepped(w, msg, v) /\ (msg.type = "other" => SamePage(w, v))
    BY <1>2, <2>1 DEF ListStepped, Stepped, SamePage, Loading, CFormOK, StartMsgs, AnswerMsgs
  <2> QED
    BY <2>2 DEF v
<1>3. w.page.kind \in {"list", "form"}
  BY PageKinds DEF WorldOK, Worlds
<1> QED
  BY <1>1, <1>2, <1>3

-----------------------------------------------------------------------------
(* The clusters tab gets a message.                                        *)

LEMMA NewFormsInStep ==
  /\ CreatePage.tab = "c" /\ InStep(CreatePage) /\ ~CreatePage.loading
  /\ \A c \in Cluster : /\ EditPage(c).tab = "c" /\ InStep(EditPage(c))
                        /\ ~EditPage(c).loading
<1>1. ASSUME NEW e \in BOOLEAN, NEW v \in Values, NEW n, NEW known
      PROVE  LET f == NewPage(e, v, n, known)
             IN  f.tab = "c" /\ InStep(f) /\ ~f.loading
  BY DEF NewPage, InStep, HuhForm
<1>2. ASSUME NEW f, f = [x \in DOMAIN f |-> f[x]], NEW n,
             f.tab = "c" /\ InStep(f) /\ ~f.loading
      PROVE  LET g == [f EXCEPT !.pre = n]
             IN  g.tab = "c" /\ InStep(g) /\ ~g.loading
  <2> DEFINE g == [f EXCEPT !.pre = n]
  <2>1. /\ g.c = f.c /\ g.values = f.values /\ g.sasl = f.sasl /\ g.tls = f.tls
        /\ g.ver = f.ver /\ g.tab = f.tab /\ g.loading = f.loading
    BY <1>2
  <2> HIDE DEF g
  <2>2. g.tab = "c" /\ InStep(g) /\ ~g.loading
    BY <1>2, <2>1 DEF InStep
  <2> QED
    BY <2>2 DEF g
<1>3. ASSUME NEW c \in Cluster
      PROVE  EditPage(c).tab = "c" /\ InStep(EditPage(c)) /\ ~EditPage(c).loading
  <2> DEFINE f == NewPage(TRUE, ValuesOf(c), c.name, c.connect)
  <2>1. f.tab = "c" /\ InStep(f) /\ ~f.loading
    BY <1>1, ValuesTyped
  <2>2. f = [x \in DOMAIN f |-> f[x]]
    BY DEF NewPage
  <2> HIDE DEF f
  <2>3. \A n : LET g == [f EXCEPT !.pre = n]
               IN  g.tab = "c" /\ InStep(g) /\ ~g.loading
    BY <1>2, <2>1, <2>2
  <2>4. PICK n : EditPage(c) = [f EXCEPT !.pre = n]
    BY DEF EditPage, f
  <2> QED
    BY <2>3, <2>4
<1> QED
  BY <1>1, <1>3, BlankTyped DEF CreatePage

OpenedOK(w, msg, u) ==
  /\ CFormOnly(w) => CFormOnly(u)
  /\ Loading(u) => Loading(w)
  /\ \/ u = w
     \/ /\ msg.type = "key"
        /\ \/ u.page.kind = "form" /\ Duties(u.jobs) = {}
           \/ u.crashed /\ u.page = w.page /\ u.jobs = w.jobs

LEMMA OpenedSteps ==
  ASSUME NEW w, WorldOK(w), NEW msg
  PROVE  LET u == Opened(w, msg)
         IN  /\ WorldOK(u) /\ Keeps(w, u) /\ OpenedOK(w, msg, u)
<1> DEFINE u == Opened(w, msg)
           c == ToEdit(w)
<1>1. ASSUME NEW f \in Forms, f.tab = "c", InStep(f), ~f.loading, msg.type = "key",
             u = Show(w, FormPage(f))
      PROVE  /\ WorldOK(u) /\ Keeps(w, u) /\ OpenedOK(w, msg, u)
  <2> DEFINE p == FormPage(f)
  <2>1. p \in FormPages /\ p.kind = "form" /\ p.form = f
    BY PageKinds DEF FormPage
  <2>2. u = Show(w, p)
    BY <1>1
  <2> HIDE DEF p, u
  <2>3. WorldOK(u) /\ Keeps(w, u) /\ u.page = p /\ Duties(u.jobs) = {}
    BY <2>1, <2>2, ShowKeeps
  <2>4. CFormOnly(u) /\ ~Loading(u) /\ u.page.kind = "form"
    BY <1>1, <2>1, <2>3 DEF CFormOnly, Loading
  <2> QED
    BY <1>1, <2>3, <2>4 DEF OpenedOK
<1>2. c \in Cluster \cup {NoCluster}
  BY PageTyped, FoundTyped DEF ToEdit
<1>3. u = Crash(w) => WorldOK(u) /\ Keeps(w, u) /\ u.crashed /\ u.page = w.page /\ u.jobs = w.jobs
  BY CrashKeeps
<1>4. CASE w.page.kind = "list" /\ IsKey(msg, "ctrl+n")
  <2>1. u = Show(w, FormPage(CreatePage)) /\ msg.type = "key"
    BY <1>4 DEF Opened, IsKey
  <2> QED
    BY <1>1, <2>1, CreatePageTyped, NewFormsInStep
<1>5. CASE w.page.kind = "list" /\ IsKey(msg, "ctrl+e") /\ ~IsKey(msg, "ctrl+n")
  <2>1. msg.type = "key"
    BY <1>5 DEF IsKey
  <2>2. CASE c = NoCluster
    <3>1. u = Crash(w)
      BY <1>5, <2>2 DEF Opened
    <3> QED
      BY <1>3, <2>1, <3>1 DEF CFormOnly, Loading, OpenedOK
  <2>3. CASE c # NoCluster
    <3>1. u = Show(w, FormPage(EditPage(c)))
      BY <1>5, <2>3 DEF Opened
    <3> HIDE DEF c
    <3> QED
      BY <1>1, <1>2, <2>1, <2>3, <3>1, EditPageTyped, NewFormsInStep
  <2> QED
    BY <2>2, <2>3
<1>6. CASE ~(w.page.kind = "list" /\ (IsKey(msg, "ctrl+n") \/ IsKey(msg, "ctrl+e")))
  <2>1. u = w
    BY <1>6 DEF Opened
  <2> QED
    BY <2>1, KeepsSelf DEF OpenedOK
<1> QED
  BY <1>4, <1>5, <1>6

LEMMA NothingStepped ==
  ASSUME NEW w, WorldOK(w), NEW msg, NEW v, WorldOK(v), Keeps(w, v),
         v.page = w.page, v.jobs = w.jobs,
         v.crashed \/ msg.type \notin StartMsgs \cup AnswerMsgs
  PROVE  Stepped(w, msg, v) /\ SamePage(w, v)
<1>1. v.clusters = w.clusters
  BY DEF Keeps
<1>2. DutyGoes(w, msg, v) /\ PromptGoes(w, v)
  BY <1>1 DEF DutyGoes, PromptGoes, Duty, Ready
<1> QED
  BY <1>2 DEF Stepped, SamePage, Loading, CFormOnly, CFormOK, StartMsgs

LEMMA ToClustersTabSteps ==
  ASSUME NEW w, WorldOK(w), NEW msg, MsgOK(msg), NEW row \in ConnectNames \cup {NoItem}
  PROVE  /\ Stepped(w, msg, ToClustersTab(w, msg, row))
         /\ msg.type = "other" => SamePage(w, ToClustersTab(w, msg, row))
<1> DEFINE u == Opened(w, msg)
           v == ToClustersTab(w, msg, row)
<1>1. CASE w.crashed \/ (IsKey(msg, "esc") /\ ~w.tabs.back)
  <2>1. v = w
    BY <1>1 DEF ToClustersTab
  <2>2. w.crashed \/ msg.type \notin StartMsgs \cup AnswerMsgs
    BY <1>1 DEF IsKey, StartMsgs, AnswerMsgs
  <2> QED
    BY <2>1, <2>2, KeepsSelf, NothingStepped
<1>2. CASE ~(w.crashed \/ (IsKey(msg, "esc") /\ ~w.tabs.back))
  <2>1. v = ToPage(u, msg, row)
    BY <1>2 DEF ToClustersTab
  <2>2. /\ WorldOK(u) /\ Keeps(w, u) /\ OpenedOK(w, msg, u)
    BY OpenedSteps
  <2> HIDE DEF u, v
  <2>3. CASE u = w
    BY <1>2, <2>1, <2>3, ToPageSteps DEF v
  <2>4. CASE u # w /\ u.crashed /\ u.page = w.page /\ u.jobs = w.jobs
    <3>1. v = u
      BY <2>1, <2>4 DEF ToPage
    <3> QED
      BY <2>2, <2>4, <3>1, NothingStepped DEF v
  <2>5. CASE u # w /\ u.crashed /\ ~(u.page = w.page /\ u.jobs = w.jobs)
    <3>1. v = u
      BY <2>1, <2>5 DEF ToPage
    <3>2. msg.type = "key" /\ u.page.kind = "form" /\ Duties(u.jobs) = {}
      BY <2>2, <2>5 DEF OpenedOK
    <3>3. DutyGoes(w, msg, u) /\ PromptGoes(w, u)
      BY <3>2 DEF DutyGoes, PromptGoes, Duty
    <3>4. Stepped(w, msg, v)
      BY <2>2, <2>5, <3>1, <3>2, <3>3 DEF Stepped, OpenedOK, CFormOnly, CFormOK,
         StartMsgs, AnswerMsgs
    <3> QED
      BY <3>2, <3>4 DEF v
  <2>6. CASE u # w /\ ~u.crashed
    <3>1. Stepped(u, msg, v)
      BY <2>1, <2>2, <2>6, ToPageSteps
    <3>2. Keeps(w, v)
      BY <2>2, <3>1, KeepsOn DEF Stepped
    <3>3. msg.type = "key" /\ u.page.kind = "form" /\ Duties(u.jobs) = {}
      BY <2>2, <2>6 DEF OpenedOK
    <3>4. Duty(u)
      BY <3>3 DEF Duty
    <3>5. DutyGoes(w, msg, v) /\ PromptGoes(w, v)
      BY <3>1, <3>3, <3>4 DEF Stepped, DutyGoes, PromptGoes
    <3>6. Stepped(w, msg, v)
      BY <2>2, <3>1, <3>2, <3>3, <3>5 DEF Stepped, OpenedOK, StartMsgs, AnswerMsgs
    <3> QED
      BY <3>3, <3>6 DEF v
  <2> QED
    BY <2>3, <2>4, <2>5, <2>6
<1> QED
  BY <1>1, <1>2

(* A tab that gets the focus is told so first.                             *)
LEMMA OtherIsMessage == MsgOK(Message("other")) /\ Message("other").type = "other"
BY DEF MsgOK, Message

LEMMA TwoStepped ==
  ASSUME NEW w, WorldOK(w), NEW other, other.type = "other", NEW u, Stepped(w, other, u),
         SamePage(w, u), NEW msg, NEW v, Stepped(u, msg, v)
  PROVE  Stepped(w, msg, v)
<1>1. Keeps(w, u) /\ Keeps(u, v) /\ WorldOK(u) /\ WorldOK(v)
  BY DEF Stepped
<1>2. Keeps(w, v)
  BY <1>1, KeepsOn
<1>3. w.clusters = u.clusters /\ u.clusters = v.clusters
  BY <1>1 DEF Keeps
<1>4. DutyGoes(w, msg, v)
  <2>1. Calm(other) /\ ~IsKey(other, "enter")
    BY DEF Calm, CalmTypes, IsKey
  <2>2. Duties(u.jobs) \subseteq Duties(w.jobs) /\ (Duty(w) => Duty(u))
    BY <2>1 DEF Stepped, DutyGoes
  <2> QED
    BY <2>2 DEF Stepped, DutyGoes
<1>5. PromptGoes(w, v)
  <2> SUFFICES ASSUME v.page.kind = "list", Prompting(v.page)
               PROVE  /\ w.page.kind = "list"
                      /\ Fresh(w.clusters, w.page) =>
                           v.page.rows = w.page.rows \/ ~Misnamed(v.page)
                      /\ v.page.rows = w.page.rows /\ ~Misnamed(w.page) => ~Misnamed(v.page)
    BY DEF PromptGoes
  <2>1. /\ u.page.kind = "list"
        /\ Fresh(u.clusters, u.page) => v.page.rows = u.page.rows \/ ~Misnamed(v.page)
        /\ v.page.rows = u.page.rows /\ ~Misnamed(u.page) => ~Misnamed(v.page)
    BY DEF Stepped, PromptGoes
  <2>2. w.page.kind = "list" /\ (Fresh(u.clusters, u.page) \/ u.page = w.page)
    BY <2>1 DEF SamePage
  <2>3. CASE u.page = w.page
    BY <1>3, <2>1, <2>2, <2>3
  <2>4. CASE Fresh(u.clusters, u.page)
    <3>1. /\ Fresh(w.clusters, w.page) => u.page.rows = w.page.rows \/ ~Misnamed(u.page)
          /\ u.page.rows = w.page.rows /\ ~Misnamed(w.page) => ~Misnamed(u.page)
      BY <2>1 DEF Stepped, PromptGoes, Misnamed, Prompting
    <3> QED
      BY <2>1, <2>2, <2>4, <3>1
  <2> QED
    BY <2>2, <2>3, <2>4
<1>6. u.crashed => v.crashed
  BY <1>1 DEF Keeps
<1>7. Loading(v) => \/ v.crashed \/ Loading(w) \/ msg.type \in StartMsgs
                    \/ Kinds(v.jobs) \cap ClusterChecks # {}
  <2>1. Kinds(u.jobs) \subseteq Kinds(v.jobs)
    BY <1>1 DEF Keeps
  <2>2. Loading(v) => \/ v.crashed \/ Loading(u) \/ msg.type \in StartMsgs
                      \/ Kinds(v.jobs) \cap ClusterChecks # {}
    BY DEF Stepped
  <2>3. Loading(u) => u.crashed \/ Loading(w) \/ Kinds(u.jobs) \cap ClusterChecks # {}
    BY DEF Stepped, StartMsgs
  <2>4. Kinds(u.jobs) \cap ClusterChecks # {} => Kinds(v.jobs) \cap ClusterChecks # {}
    BY <2>1
  <2> QED
    BY <1>6, <2>2, <2>3, <2>4
<1>8. CFormOnly(w) => CFormOK(v)
  BY DEF Stepped, SamePage, CFormOnly, CFormOK
<1> QED
  BY <1>1, <1>2, <1>4, <1>5, <1>7, <1>8 DEF Stepped

LEMMA ToShownSteps ==
  ASSUME NEW w, WorldOK(w), NEW synced, NEW msg, MsgOK(msg),
         NEW row \in ConnectNames \cup {NoItem}
  PROVE  LET v == ToShown(w, synced, msg, row)
         IN  /\ w.tabs.ctrl = "clusters" => Stepped(w, msg, v)
             /\ w.tabs.ctrl # "clusters" =>
                  /\ WorldOK(v) /\ Keeps(w, v) /\ v.page = w.page /\ v.jobs = w.jobs
<1> DEFINE other == Message("other")
           u == Told(w, synced, row)
           v == ToShown(w, synced, msg, row)
<1>1. CASE w.tabs.ctrl = "clusters"
  <2>1. v = ToClustersTab(u, msg, row)
    BY <1>1 DEF ToShown
  <2>2. u = w \/ u = ToClustersTab(w, other, row)
    BY DEF Told
  <2>3. CASE u = w
    BY <1>1, <2>1, <2>3, ToClustersTabSteps
  <2>4. CASE u = ToClustersTab(w, other, row)
    <3>1. MsgOK(other) /\ other.type = "other"
      BY OtherIsMessage
    <3> HIDE DEF u, v, other
    <3>2. Stepped(w, other, u) /\ SamePage(w, u)
      BY <2>4, <3>1, ToClustersTabSteps
    <3>3. WorldOK(u)
      BY <3>2 DEF Stepped
    <3>4. Stepped(u, msg, v)
      BY <2>1, <3>3, ToClustersTabSteps
    <3>5. Stepped(w, msg, v)
      BY <3>1, <3>2, <3>4, TwoStepped
    <3> QED
      BY <1>1, <3>5 DEF v
  <2> QED
    BY <2>2, <2>3, <2>4
<1>2. CASE w.tabs.ctrl # "clusters"
  <2>1. v \in {w, Crash(w)}
    BY <1>2 DEF ToShown
  <2> QED
    BY <1>2, <2>1, CrashKeeps, KeepsSelf
<1> QED
  BY <1>1, <1>2

-----------------------------------------------------------------------------
(* The tabs under the root model.                                          *)

LEMMA JoinedSets ==
  ASSUME NEW S, NEW s \in Seq(S), NEW t \in Seq(S)
  PROVE  s \o t \in Seq(S) /\ ToSet(s \o t) = ToSet(s) \cup ToSet(t)
<1> DEFINE st == s \o t
<1>1. /\ st \in Seq(S) /\ Len(st) = Len(s) + Len(t)
      /\ \A i \in 1 .. Len(s) + Len(t) :
           st[i] = IF i <= Len(s) THEN s[i] ELSE t[i - Len(s)]
  BY ConcatProperties
<1> HIDE DEF st
<1>2. /\ DOMAIN st = 1 .. Len(s) + Len(t) /\ DOMAIN s = 1 .. Len(s) /\ DOMAIN t = 1 .. Len(t)
      /\ Len(s) \in Nat /\ Len(t) \in Nat
  BY <1>1
<1>3. ASSUME NEW i \in DOMAIN st PROVE st[i] \in ToSet(s) \cup ToSet(t)
  <2>1. CASE i <= Len(s)
    <3>1. i \in DOMAIN s /\ st[i] = s[i]
      BY <1>1, <1>2, <2>1
    <3> QED
      BY <3>1 DEF ToSet
  <2>2. CASE ~(i <= Len(s))
    <3>1. i - Len(s) \in DOMAIN t /\ st[i] = t[i - Len(s)]
      BY <1>1, <1>2, <2>2
    <3> QED
      BY <3>1 DEF ToSet
  <2> QED
    BY <2>1, <2>2
<1>4. ASSUME NEW i \in DOMAIN s PROVE s[i] \in ToSet(st)
  <2>1. i \in DOMAIN st /\ st[i] = s[i]
    BY <1>1, <1>2
  <2> QED
    BY <2>1 DEF ToSet
<1>5. ASSUME NEW i \in DOMAIN t PROVE t[i] \in ToSet(st)
  <2>1. i + Len(s) \in DOMAIN st /\ st[i + Len(s)] = t[i]
    BY <1>1, <1>2
  <2> QED
    BY <2>1 DEF ToSet
<1>6. ToSet(st) \subseteq ToSet(s) \cup ToSet(t)
  <2> SUFFICES ASSUME NEW x \in ToSet(st) PROVE x \in ToSet(s) \cup ToSet(t)
    OBVIOUS
  <2>1. PICK i \in DOMAIN st : x = st[i]
    BY DEF ToSet
  <2> QED
    BY <1>3, <2>1
<1>7. ToSet(s) \cup ToSet(t) \subseteq ToSet(st)
  <2> SUFFICES ASSUME NEW x \in ToSet(s) \cup ToSet(t) PROVE x \in ToSet(st)
    OBVIOUS
  <2>1. CASE x \in ToSet(s)
    <3>1. PICK i \in DOMAIN s : x = s[i]
      BY <2>1 DEF ToSet
    <3> QED
      BY <1>4, <3>1
  <2>2. CASE x \in ToSet(t)
    <3>1. PICK i \in DOMAIN t : x = t[i]
      BY <2>2 DEF ToSet
    <3> QED
      BY <1>5, <3>1
  <2> QED
    BY <2>1, <2>2
<1> QED
  BY <1>1, <1>6, <1>7 DEF st

LEMMA OfferedTyped ==
  ASSUME NEW c
  PROVE  Offered(c) \in Seq(Labels) /\ {"topics", "clusters"} \subseteq ToSet(Offered(c))
<1> DEFINE first == <<"topics", "cgroups">>
           last == <<"clusters">>
           sr == IF c.details.registry # "none" THEN <<"schemaReg">> ELSE <<>>
           kc == IF c.connect # <<>> THEN <<"kconnect">> ELSE <<>>
<1>1. /\ first \in Seq(Labels) /\ last \in Seq(Labels) /\ sr \in Seq(Labels) /\ kc \in Seq(Labels)
      /\ "topics" \in ToSet(first) /\ "clusters" \in ToSet(last)
  <2>1. first \in Seq(Labels) /\ first[1] = "topics" /\ 1 \in DOMAIN first
    BY DEF Labels
  <2>2. last \in Seq(Labels) /\ last[1] = "clusters" /\ 1 \in DOMAIN last
    BY DEF Labels
  <2>3. sr \in Seq(Labels) /\ kc \in Seq(Labels)
    <3>1. /\ <<"schemaReg">> \in Seq(Labels) /\ <<"kconnect">> \in Seq(Labels)
          /\ <<>> \in Seq(Labels)
      BY DEF Labels
    <3>2. sr \in {<<>>, <<"schemaReg">>} /\ kc \in {<<>>, <<"kconnect">>}
      OBVIOUS
    <3> HIDE DEF sr, kc
    <3> QED
      BY <3>1, <3>2
  <2> HIDE DEF first, last
  <2>4. "topics" \in ToSet(first)
    BY <2>1 DEF ToSet
  <2>5. "clusters" \in ToSet(last)
    BY <2>2 DEF ToSet
  <2> QED
    BY <2>1, <2>2, <2>3, <2>4, <2>5
<1>2. Offered(c) = ((first \o sr) \o kc) \o last
  BY DEF Offered
<1> HIDE DEF first, last, sr, kc
<1> DEFINE a == first \o sr
           b == a \o kc
           d == b \o last
<1>3. a \in Seq(Labels) /\ ToSet(a) = ToSet(first) \cup ToSet(sr)
  BY <1>1, JoinedSets
<1> HIDE DEF a
<1>4. b \in Seq(Labels) /\ ToSet(b) = ToSet(a) \cup ToSet(kc)
  BY <1>1, <1>3, JoinedSets
<1> HIDE DEF b
<1>5. d \in Seq(Labels) /\ ToSet(d) = ToSet(b) \cup ToSet(last)
  BY <1>1, <1>4, JoinedSets
<1>6. Offered(c) = d
  BY <1>2 DEF a, b
<1> HIDE DEF d
<1> QED
  BY <1>1, <1>3, <1>4, <1>5, <1>6

LEMMA TabKeyOffered ==
  ASSUME NEW t, TabsOK(t), NEW msg
  PROVE  /\ TabKey(t, msg) \in ToSet(t.offered)
         /\ msg.type # "key" => TabKey(t, msg) = t.bar
<1> DEFINE at == CHOOSE i \in DOMAIN t.offered : t.offered[i] = t.bar
           n == Len(t.offered)
           up == Min({at + 1, n})
           down == Max({at - 1, 1})
<1>1. t.offered \in Seq(Labels) /\ DOMAIN t.offered = 1..n /\ n \in Nat
  BY DEF TabsOK, TabStates
<1>2. at \in 1..n
  <2>1. \E i \in DOMAIN t.offered : t.offered[i] = t.bar
    BY DEF TabsOK, ToSet
  <2> QED
    BY <1>1, <2>1
<1> HIDE DEF at
<1>3. up \in 1..n /\ down \in 1..n
  BY <1>1, <1>2, MinOfTwo, MaxOfTwo
<1>4. \A i \in 1..n : t.offered[i] \in ToSet(t.offered)
  BY <1>1 DEF ToSet
<1>5. TabKey(t, msg) = IF IsKey(msg, "ctrl+right") THEN t.offered[up]
                       ELSE IF IsKey(msg, "ctrl+left") THEN t.offered[down]
                       ELSE t.bar
  BY DEF TabKey, at, up, down, n
<1> HIDE DEF up, down
<1>6. t.bar \in ToSet(t.offered)
  BY DEF TabsOK
<1> QED
  BY <1>3, <1>4, <1>5, <1>6 DEF IsKey

LEMMA InOffered ==
  ASSUME NEW t, TabsOK(t)
  PROVE  ToSet(t.offered) \subseteq Labels
<1>1. t.offered \in Seq(Labels)
  BY DEF TabsOK, TabStates
<1> QED
  BY <1>1 DEF ToSet

(* The tabs are replaced, nothing else.                                    *)
Retabbed(w, v) ==
  /\ WorldOK(v) /\ v.clusters = w.clusters /\ v.page = w.page /\ v.locked = w.locked
  /\ v.connErr = w.connErr /\ v.client = w.client /\ v.after = w.after
  /\ v.jobs = w.jobs /\ v.timer = w.timer /\ v.crashed = w.crashed /\ v.awaits = w.awaits

LEMMA TabsReplaced ==
  ASSUME NEW w, WorldOK(w), NEW t, TabsOK(t)
  PROVE  LET v == [w EXCEPT !.tabs = t]
         IN  Retabbed(w, v) /\ v.tabs = t
<1> DEFINE v == [w EXCEPT !.tabs = t]
<1>1. w \in Worlds /\ t \in TabStates
  BY DEF WorldOK, TabsOK
<1>2. /\ v \in Worlds /\ v.clusters = w.clusters /\ v.page = w.page /\ v.locked = w.locked
      /\ v.connErr = w.connErr /\ v.client = w.client /\ v.after = w.after
      /\ v.jobs = w.jobs /\ v.timer = w.timer /\ v.crashed = w.crashed
      /\ v.awaits = w.awaits /\ v.tabs = t
  BY <1>1 DEF Worlds
<1> HIDE DEF v
<1>3. Retabbed(w, v) /\ v.tabs = t
  BY <1>2 DEF Retabbed, WorldOK
<1> QED
  BY <1>3 DEF v

(* To follow the bar can panic, which leaves the rest.                     *)
BarFollowed(w, msg, v) ==
  /\ WorldOK(v) /\ v.clusters = w.clusters /\ v.page = w.page /\ v.locked = w.locked
  /\ v.jobs = w.jobs /\ v.awaits = w.awaits
  /\ w.crashed => v.crashed
  /\ msg.type # "key" /\ w.tabs.ctrl = "clusters" => v.tabs.ctrl = "clusters"

LEMMA FollowBarSteps ==
  ASSUME NEW w, WorldOK(w), NEW msg
  PROVE  BarFollowed(w, msg, FollowBar(w, msg))
<1> DEFINE t == w.tabs
           bar == TabKey(t, msg)
           v == FollowBar(w, msg)
           same == [t EXCEPT !.bar = bar]
           other == [t EXCEPT !.bar = bar, !.synced = bar, !.ctrl = ShownBy(w, bar)]
<1>1. TabsOK(t) /\ t \in TabStates
  BY DEF WorldOK, TabsOK
<1>2. bar \in ToSet(t.offered) /\ bar \in Labels /\ (msg.type # "key" => bar = t.bar)
  BY <1>1, TabKeyOffered, InOffered
<1>3. CASE w.locked
  <2>1. v = w
    BY <1>3 DEF FollowBar
  <2> QED
    BY <2>1 DEF BarFollowed
<1>4. CASE ~w.locked /\ bar = t.synced
  <2>1. v = [w EXCEPT !.tabs = same]
    BY <1>4 DEF FollowBar, WithBar
  <2> HIDE DEF bar
  <2>2. TabsOK(same) /\ same.ctrl = t.ctrl
    BY <1>1, <1>2, <1>4 DEF TabsOK, TabStates
  <2> HIDE DEF same, v
  <2>3. Retabbed(w, v) /\ v.tabs = same
    BY <2>1, <2>2, TabsReplaced
  <2> QED
    BY <2>2, <2>3 DEF v, Retabbed, BarFollowed
<1>5. CASE ~w.locked /\ bar # t.synced /\ bar = "schemaReg" /\ w.clusters = <<>>
  <2>1. v = [w EXCEPT !.crashed = TRUE]
    BY <1>5 DEF FollowBar, WithBar, Crash
  <2>2. /\ v.clusters = w.clusters /\ v.page = w.page /\ v.locked = w.locked
        /\ v.jobs = w.jobs /\ v.awaits = w.awaits /\ v.tabs = w.tabs /\ v.crashed
    BY <2>1 DEF WorldOK, Worlds
  <2>3. WorldOK(v)
    BY <2>1, CrashKeeps DEF Crash
  <2> QED
    BY <2>2, <2>3 DEF BarFollowed
<1>6. CASE ~w.locked /\ bar # t.synced /\ ~(bar = "schemaReg" /\ w.clusters = <<>>)
  <2> DEFINE shown == ShownBy(w, bar)
  <2>1. v = [w EXCEPT !.tabs = other]
    <3>1. /\ w \in Worlds
          /\ v = [w EXCEPT !.tabs.bar = bar, !.tabs.synced = bar, !.tabs.ctrl = shown]
      BY <1>6 DEF FollowBar, WithBar, WorldOK
    <3> HIDE DEF bar, shown, v
    <3> QED
      BY <3>1 DEF Worlds, shown
  <2>2. shown \in Labels /\ (bar = "clusters" => shown = "clusters")
    BY <1>2 DEF ShownBy, Labels
  <2>3. msg.type # "key" /\ t.ctrl = "clusters" => bar = "clusters"
    BY <1>1, <1>2, <1>6 DEF TabsOK
  <2> HIDE DEF bar, shown
  <2>4. TabsOK(other) /\ other.ctrl = shown
    BY <1>1, <1>2, <2>2 DEF TabsOK, TabStates, shown
  <2> HIDE DEF other, v
  <2>5. Retabbed(w, v) /\ v.tabs = other
    BY <2>1, <2>4, TabsReplaced
  <2> QED
    BY <2>2, <2>3, <2>4, <2>5 DEF v, Retabbed, BarFollowed
<1> QED
  BY <1>3, <1>4, <1>5, <1>6

-----------------------------------------------------------------------------
(* The root model.                                                         *)

(* The page has been replaced by one where nothing is prompted for.        *)
Anew(v) ==
  /\ Duties(v.jobs) = {} /\ ~Loading(v) /\ CFormOnly(v)
  /\ v.page.kind = "list" => ~Prompting(v.page) /\ Fresh(v.clusters, v.page)

(* What boostrapUI leaves: everything but the page, the tabs and the       *)
(* client, with a message if the cluster is out of reach.                  *)
Booted(w, v) ==
  /\ WorldOK(v) /\ v.clusters = w.clusters /\ v.locked = w.locked
  /\ Kinds(w.jobs) \subseteq Kinds(v.jobs)
  /\ Duties(v.jobs) \subseteq Duties(w.jobs)
  /\ w.crashed => v.crashed
  /\ w.awaits => v.awaits
  /\ v.page = w.page \/ Anew(v)

(* The root model's switch acts on the page and the tabs only when a       *)
(* cluster has been registered or switched to.                             *)
Rooted(w, msg, u) ==
  /\ WorldOK(u) /\ u.clusters = w.clusters
  /\ Kinds(w.jobs) \subseteq Kinds(u.jobs)
  /\ Duties(u.jobs) \subseteq Duties(w.jobs)
  /\ w.crashed => u.crashed
  /\ w.awaits => u.awaits
  /\ u.locked => w.locked \/ msg.type = "kStarted"
  /\ msg.type \in {"kErr", "kOk"} => ~u.locked
  /\ u.page = w.page \/ Anew(u)
  /\ msg.type \notin {"registered", "switched"} => u.page = w.page /\ u.tabs = w.tabs

(* Showing the first page, or the list, with other tabs.                   *)
LEMMA PageShown ==
  ASSUME NEW w, WorldOK(w), NEW p \in {ListPage(w.clusters), FirstPage(w.clusters)}
  PROVE  LET v == Show(w, p)
         IN  /\ WorldOK(v) /\ Keeps(w, v) /\ v.crashed = w.crashed
             /\ Anew(v)
<1> DEFINE v == Show(w, p)
           list == ListPage(w.clusters)
           form == FormPage(CreatePage)
<1>1. w.clusters \in Clusters
  BY PageTyped
<1>2. /\ list \in ListPages /\ ListOK(list) /\ list.kind = "list"
      /\ ~Prompting(list) /\ Fresh(w.clusters, list)
  <2>1. Fresh(w.clusters, list)
    BY DEF Fresh, ListPage, NewBars
  <2> HIDE DEF list
  <2>2. ListOK(list) /\ ~Prompting(list)
    BY <1>1, NewListPageOK DEF list
  <2> QED
    BY <2>1, <2>2, PageKinds DEF ListOK
<1>3. /\ form \in FormPages /\ form.kind = "form" /\ form.form = CreatePage
      /\ form.form.tab = "c" /\ InStep(form.form) /\ ~form.form.loading
  BY CreatePageTyped, NewFormsInStep, PageKinds DEF FormPage, FormPages
<1>4. p \in {list, form}
  BY DEF FirstPage
<1> HIDE DEF list, form
<1>5. p \in ListPages \cup FormPages /\ (p.kind = "list" => ListOK(p))
  BY <1>2, <1>3, <1>4
<1>6. /\ WorldOK(v) /\ Keeps(w, v) /\ v.page = p /\ v.crashed = w.crashed
      /\ Duties(v.jobs) = {}
  BY <1>5, ShowKeeps
<1> HIDE DEF v
<1>7. v.clusters = w.clusters
  BY <1>6 DEF Keeps
<1>8. Anew(v)
  BY <1>2, <1>3, <1>4, <1>6, <1>7 DEF Anew, Loading, CFormOnly
<1> QED
  BY <1>6, <1>8 DEF v

LEMMA BootedOn ==
  ASSUME NEW u, NEW v, NEW w, Booted(u, v), Booted(v, w)
  PROVE  Booted(u, w)
<1>1. w.page = v.page => w.page = u.page \/ Anew(w)
  BY DEF Booted, Anew, Loading, CFormOnly
<1> QED
  BY <1>1 DEF Booted

LEMMA BootedSelf ==
  ASSUME NEW w, WorldOK(w)
  PROVE  Booted(w, w)
BY DEF Booted

LEMMA RetabbedBooted ==
  ASSUME NEW w, NEW v, Retabbed(w, v)
  PROVE  Booted(w, v)
BY DEF Booted, Retabbed

LEMMA CrashBooted ==
  ASSUME NEW w, WorldOK(w)
  PROVE  Booted(w, Crash(w))
BY CrashKeeps DEF Booted, Keeps

LEMMA AllTabsBoot ==
  ASSUME NEW w, WorldOK(w), NEW c \in Cluster
  PROVE  Booted(w, AllTabs(w, c))
<1> DEFINE s == Show(w, ListPage(w.clusters))
           t == [s.tabs EXCEPT !.offered = Offered(c), !.bar = "topics", !.ctrl = "topics",
                               !.back = TRUE]
           v == [[s EXCEPT !.tabs = t] EXCEPT !.client = c]
<1>1. WorldOK(s) /\ Keeps(w, s) /\ Anew(s) /\ s.crashed = w.crashed
  BY PageShown
<1>2. AllTabs(w, c) = v
  <2>1. /\ s \in Worlds
        /\ AllTabs(w, c) =
             [s EXCEPT !.tabs.offered = Offered(c), !.tabs.bar = "topics",
                       !.tabs.ctrl = "topics", !.tabs.back = TRUE, !.client = c]
    BY <1>1 DEF AllTabs, WorldOK
  <2> HIDE DEF s
  <2> QED
    BY <2>1 DEF Worlds, TabStates
<1> HIDE DEF s
<1>3. TabsOK(t)
  <2>1. s.tabs \in TabStates
    BY <1>1 DEF WorldOK, TabsOK
  <2>2. /\ t \in TabStates /\ t.bar = "topics" /\ t.ctrl = "topics" /\ t.offered = Offered(c)
    BY <2>1, OfferedTyped DEF TabStates, Labels
  <2> HIDE DEF t
  <2> QED
    BY <2>2, OfferedTyped DEF TabsOK
<1> HIDE DEF t
<1>4. /\ v \in Worlds /\ v.tabs = t
      /\ v.clusters = s.clusters /\ v.page = s.page /\ v.locked = s.locked
      /\ v.jobs = s.jobs /\ v.crashed = s.crashed /\ v.awaits = s.awaits
  BY <1>1, <1>3 DEF WorldOK, Worlds, TabsOK
<1> HIDE DEF v
<1>5. WorldOK(v) /\ Anew(v)
  BY <1>1, <1>3, <1>4 DEF WorldOK, Anew, Loading, CFormOnly
<1>6. Booted(w, v)
  BY <1>1, <1>4, <1>5 DEF Booted, Keeps, Anew
<1> QED
  BY <1>2, <1>6

LEMMA ClustersOnlyBoot ==
  ASSUME NEW w, WorldOK(w)
  PROVE  Booted(w, ClustersOnly(w))
<1> DEFINE s == Show(w, FirstPage(w.clusters))
           back == w.clusters # <<>>
           t == [s.tabs EXCEPT !.offered = <<"clusters">>, !.bar = "clusters",
                               !.ctrl = "clusters", !.back = back]
           u == [[s EXCEPT !.tabs = t] EXCEPT !.connErr = TRUE]
           job == Event("connErr", NoName)
<1>1. WorldOK(s) /\ Keeps(w, s) /\ Anew(s) /\ s.crashed = w.crashed
  BY PageShown
<1>2. back \in BOOLEAN
  OBVIOUS
<1>3. ClustersOnly(w) = Post(u, job)
  <2>1. /\ s \in Worlds
        /\ ClustersOnly(w) =
             Post([s EXCEPT !.tabs.offered = <<"clusters">>, !.tabs.bar = "clusters",
                            !.tabs.ctrl = "clusters", !.tabs.back = back, !.connErr = TRUE],
                  job)
    BY <1>1 DEF ClustersOnly, WorldOK
  <2> HIDE DEF s, job, back
  <2>2. [s EXCEPT !.tabs.offered = <<"clusters">>, !.tabs.bar = "clusters",
                  !.tabs.ctrl = "clusters", !.tabs.back = back, !.connErr = TRUE] = u
    BY <2>1 DEF Worlds, TabStates
  <2> HIDE DEF u
  <2> QED
    BY <2>1, <2>2
<1> HIDE DEF s, back
<1>4. TabsOK(t)
  <2>1. s.tabs \in TabStates
    BY <1>1 DEF WorldOK, TabsOK
  <2>2. <<"clusters">> \in Seq(Labels) /\ "clusters" \in ToSet(<<"clusters">>)
    <3> DEFINE o == <<"clusters">>
    <3>1. o \in Seq(Labels) /\ 1 \in DOMAIN o /\ o[1] = "clusters"
      BY DEF Labels
    <3> HIDE DEF o
    <3>2. o \in Seq(Labels) /\ "clusters" \in ToSet(o)
      BY <3>1 DEF ToSet
    <3> QED
      BY <3>2 DEF o
  <2>3. /\ t \in TabStates /\ t.bar = "clusters" /\ t.ctrl = "clusters"
        /\ t.offered = <<"clusters">>
    BY <1>2, <2>1, <2>2 DEF TabStates, Labels
  <2> HIDE DEF t
  <2> QED
    BY <2>2, <2>3 DEF TabsOK
<1> HIDE DEF t
<1>5. /\ u \in Worlds /\ u.tabs = t
      /\ u.clusters = s.clusters /\ u.page = s.page /\ u.locked = s.locked
      /\ u.jobs = s.jobs /\ u.crashed = s.crashed /\ u.awaits = s.awaits
  BY <1>1, <1>4 DEF WorldOK, Worlds, TabsOK
<1> HIDE DEF u
<1>6. WorldOK(u) /\ Anew(u)
  BY <1>1, <1>4, <1>5 DEF WorldOK, Anew, Loading, CFormOnly
<1>7. Booted(w, u)
  BY <1>1, <1>5, <1>6 DEF Booted, Keeps, Anew
<1>8. job \in Jobs /\ job.kind # "delete" /\ Finder(job, u.page)
  BY EventTyped DEF MaybeNames, Events
<1> HIDE DEF job
<1> DEFINE v == Post(u, job)
<1>9. /\ WorldOK(v) /\ Keeps(u, v) /\ v.page = u.page /\ v.crashed = u.crashed
      /\ Duties(v.jobs) \subseteq Duties(u.jobs)
  BY <1>6, <1>8, PostKeeps
<1> HIDE DEF v
<1>10. Booted(u, v)
  BY <1>9 DEF Booted, Keeps
<1>11. Booted(w, v)
  BY <1>7, <1>10, BootedOn
<1> QED
  BY <1>3, <1>11 DEF v

LEMMA BootstrapSteps ==
  ASSUME NEW w, WorldOK(w), NEW c \in Cluster \cup {NoCluster}, NEW reached
  PROVE  Booted(w, BootstrapUI(w, c, reached))
<1>1. c # NoCluster => c \in Cluster
  OBVIOUS
<1> QED
  BY <1>1, CrashBooted, AllTabsBoot, ClustersOnlyBoot DEF BootstrapUI

LEMMA ShowTabSteps ==
  ASSUME NEW w, WorldOK(w), NEW label \in {"clusters", "topics"}
  PROVE  Booted(w, ShowTab(w, label))
<1> DEFINE g == GoToTab(w.tabs, label)
           t == [g EXCEPT !.ctrl = label]
<1>1. TabsOK(w.tabs) /\ w.tabs \in TabStates
  BY DEF WorldOK, TabsOK
<1>2. /\ g \in TabStates /\ g.offered = w.tabs.offered /\ g.bar \in ToSet(g.offered)
      /\ label \in ToSet(w.tabs.offered) => g.bar = label
  BY <1>1 DEF GoToTab, TabStates, TabsOK, Labels
<1> HIDE DEF g
<1>3. /\ t \in TabStates /\ t.offered = w.tabs.offered /\ t.bar = g.bar /\ t.ctrl = label
  BY <1>2 DEF TabStates, Labels
<1>4. ShowTab(w, label) = [w EXCEPT !.tabs = t]
  BY DEF ShowTab, g
<1> HIDE DEF t
<1>5. TabsOK(t)
  BY <1>1, <1>2, <1>3 DEF TabsOK
<1>6. Retabbed(w, [w EXCEPT !.tabs = t])
  BY <1>5, TabsReplaced
<1> QED
  BY <1>4, <1>6, RetabbedBooted

LEMMA AfterSwitchSteps ==
  ASSUME NEW w, WorldOK(w)
  PROVE  Booted(w, AfterSwitch(w))
<1> DEFINE u == [w EXCEPT !.connErr = FALSE]
           label == IF w.connErr THEN "topics" ELSE "clusters"
<1>1. /\ u \in Worlds /\ u.tabs = w.tabs
      /\ u.clusters = w.clusters /\ u.page = w.page /\ u.locked = w.locked
      /\ u.jobs = w.jobs /\ u.crashed = w.crashed /\ u.awaits = w.awaits
  BY DEF WorldOK, Worlds
<1>2. AfterSwitch(w) = ShowTab(u, label)
  BY DEF AfterSwitch
<1> HIDE DEF u
<1>3. WorldOK(u) /\ Booted(w, u)
  BY <1>1 DEF WorldOK, Booted
<1>4. label \in {"clusters", "topics"}
  OBVIOUS
<1> HIDE DEF label
<1>5. Booted(u, ShowTab(u, label))
  BY <1>3, <1>4, ShowTabSteps
<1> QED
  BY <1>2, <1>3, <1>5, BootedOn

LEMMA Locking ==
  ASSUME NEW w, WorldOK(w), NEW b \in BOOLEAN
  PROVE  LET u == [w EXCEPT !.locked = b]
         IN  /\ WorldOK(u) /\ u.tabs = w.tabs
             /\ u.clusters = w.clusters /\ u.page = w.page /\ u.locked = b
             /\ u.jobs = w.jobs /\ u.crashed = w.crashed /\ u.awaits = w.awaits
<1> DEFINE u == [w EXCEPT !.locked = b]
<1>1. /\ u \in Worlds /\ u.tabs = w.tabs
      /\ u.clusters = w.clusters /\ u.page = w.page /\ u.locked = b
      /\ u.jobs = w.jobs /\ u.crashed = w.crashed /\ u.awaits = w.awaits
  BY DEF WorldOK, Worlds
<1> HIDE DEF u
<1>2. WorldOK(u)
  BY <1>1 DEF WorldOK
<1> QED
  BY <1>1, <1>2 DEF u

LEMMA RootSwitchSteps ==
  ASSUME NEW w, WorldOK(w), NEW msg, MsgOK(msg), NEW reached
  PROVE  Rooted(w, msg, RootSwitch(w, msg, reached))
<1> DEFINE u == RootSwitch(w, msg, reached)
<1>1. CASE msg.type = "kStarted"
  <2>1. u = [w EXCEPT !.locked = TRUE]
    BY <1>1 DEF RootSwitch
  <2> HIDE DEF u
  <2>2. /\ WorldOK(u) /\ u.tabs = w.tabs
        /\ u.clusters = w.clusters /\ u.page = w.page
        /\ u.jobs = w.jobs /\ u.crashed = w.crashed /\ u.awaits = w.awaits
    BY <2>1, Locking
  <2>3. Rooted(w, msg, u)
    BY <1>1, <2>2 DEF Rooted
  <2> QED
    BY <2>3 DEF u
<1>2. CASE msg.type \in {"kErr", "kOk"}
  <2>1. u = [w EXCEPT !.locked = FALSE]
    BY <1>2 DEF RootSwitch
  <2> HIDE DEF u
  <2>2. /\ WorldOK(u) /\ u.tabs = w.tabs
        /\ u.clusters = w.clusters /\ u.page = w.page /\ u.locked = FALSE
        /\ u.jobs = w.jobs /\ u.crashed = w.crashed /\ u.awaits = w.awaits
    BY <2>1, Locking
  <2>3. Rooted(w, msg, u)
    BY <1>2, <2>2 DEF Rooted
  <2> QED
    BY <2>3 DEF u
<1>3. CASE msg.type \in {"registered", "switched"}
  <2> DEFINE b == BootstrapUI(w, msg.cluster, reached)
  <2>1. msg.cluster \in Cluster \cup {NoCluster}
    BY <1>3 DEF MsgOK
  <2>2. Booted(w, b)
    BY <2>1, BootstrapSteps
  <2>3. u \in {w, ShowTab(b, "clusters"), AfterSwitch(b)}
    BY <1>3 DEF RootSwitch
  <2> HIDE DEF b
  <2>4. WorldOK(b)
    BY <2>2 DEF Booted
  <2>5. Booted(b, ShowTab(b, "clusters")) /\ Booted(b, AfterSwitch(b))
    BY <2>4, ShowTabSteps, AfterSwitchSteps
  <2>6. Booted(w, w)
    BY BootedSelf
  <2> HIDE DEF u
  <2>7. Booted(w, u)
    BY <2>2, <2>3, <2>5, <2>6, BootedOn
  <2>8. Rooted(w, msg, u)
    BY <1>3, <2>7 DEF Booted, Rooted
  <2> QED
    BY <2>8 DEF u
<1>4. CASE msg.type \notin {"kStarted", "kErr", "kOk", "registered", "switched"}
  <2>1. u = w
    BY <1>4 DEF RootSwitch
  <2> QED
    BY <1>4, <2>1 DEF Rooted
<1> QED
  BY <1>1, <1>2, <1>3, <1>4

-----------------------------------------------------------------------------
(* A message is handled.                                                   *)

(* Nothing but other rows makes an open prompt name another row.           *)
NameGoes(w, v) ==
  w.page.kind = "list" /\ ~Misnamed(w.page) /\ Misnamed(v.page) =>
    v.page.rows # w.page.rows

Handled(w, msg, v) ==
  /\ WorldOK(v) /\ Kinds(w.jobs) \subseteq Kinds(v.jobs)
  /\ Duty(w) /\ (Calm(msg) \/ Duties(w.jobs) = {}) => Duty(v)
  /\ NameGoes(w, v)
  /\ Loading(v) => \/ v.crashed \/ Loading(w) \/ msg.type \in StartMsgs
                   \/ Kinds(v.jobs) \cap ClusterChecks # {}
  /\ v.locked => w.locked \/ msg.type = "kStarted"
  /\ msg.type \in {"kErr", "kOk"} => ~v.locked
  /\ CFormOnly(w) => CFormOK(v)
  /\ w.tabs.ctrl = "clusters" =>
       /\ msg.type = "kStarted" => v.crashed \/ v.awaits
       /\ msg.type = "srStarted" => v.crashed \/ v.awaits \/ v.page.kind = "list"
       /\ msg.type \in AnswerMsgs => v.crashed \/ ~Loading(v)

(* What the root model and the bar leave to the tab shown.                 *)
Passed(w, msg, x) ==
  /\ WorldOK(x) /\ x.clusters = w.clusters /\ Kinds(w.jobs) \subseteq Kinds(x.jobs)
  /\ Duties(x.jobs) \subseteq Duties(w.jobs)
  /\ x.page = w.page \/ Anew(x)
  /\ x.locked => w.locked \/ msg.type = "kStarted"
  /\ msg.type \in {"kErr", "kOk"} => ~x.locked
  /\ w.tabs.ctrl = "clusters" /\ msg.type \in StartMsgs \cup AnswerMsgs =>
       x.crashed \/ x.tabs.ctrl = "clusters"

LEMMA PassedDuty ==
  ASSUME NEW w, NEW msg, NEW x, Passed(w, msg, x)
  PROVE  /\ Duty(w) => Duty(x)
         /\ Loading(x) => Loading(w)
         /\ CFormOnly(w) => CFormOnly(x)
<1>1. CASE x.page = w.page
  BY <1>1 DEF Passed, Duty, Ready, Loading, CFormOnly
<1>2. CASE Anew(x)
  BY <1>2 DEF Anew, Duty
<1> QED
  BY <1>1, <1>2 DEF Passed

(* No prompt is open after a step that begins on a new list.               *)
LEMMA NamesPassed ==
  ASSUME NEW w, NEW msg, NEW x, Passed(w, msg, x), NEW v, PromptGoes(x, v)
  PROVE  NameGoes(w, v)
<1> SUFFICES ASSUME w.page.kind = "list", ~Misnamed(w.page), Misnamed(v.page)
             PROVE  v.page.rows # w.page.rows
  BY DEF NameGoes
<1>1. v.page.kind = "list" /\ Prompting(v.page)
  BY DEF Misnamed, Prompting
<1>2. /\ x.page.kind = "list"
      /\ Fresh(x.clusters, x.page) => v.page.rows = x.page.rows
      /\ v.page.rows = x.page.rows => Misnamed(x.page)
  BY <1>1 DEF PromptGoes
<1>3. CASE x.page = w.page
  BY <1>2, <1>3
<1>4. CASE Anew(x)
  BY <1>2, <1>4 DEF Anew, Misnamed, Prompting
<1> QED
  BY <1>3, <1>4 DEF Passed

LEMMA PassedBy ==
  ASSUME NEW w, NEW msg, NEW u, Rooted(w, msg, u), NEW x, BarFollowed(u, msg, x)
  PROVE  Passed(w, msg, x)
<1>1. Anew(u) => Anew(x)
  BY DEF BarFollowed, Anew, Loading, CFormOnly
<1>2. w.tabs.ctrl = "clusters" /\ msg.type \in StartMsgs \cup AnswerMsgs =>
        x.tabs.ctrl = "clusters"
  BY DEF Rooted, BarFollowed, StartMsgs, AnswerMsgs
<1> QED
  BY <1>1, <1>2 DEF Rooted, BarFollowed, Passed

LEMMA RootCrashed ==
  ASSUME NEW w, NEW msg, NEW u, Rooted(w, msg, u), u.crashed
  PROVE  Passed(w, msg, u)
BY DEF Rooted, Passed

LEMMA PassedHandled ==
  ASSUME NEW w, NEW msg, NEW x, Passed(w, msg, x), NEW v, WorldOK(v), Keeps(x, v),
         \/ x.tabs.ctrl = "clusters" /\ Stepped(x, msg, v)
         \/ (x.tabs.ctrl # "clusters" \/ x.crashed) /\ v.page = x.page /\ v.jobs = x.jobs
  PROVE  Handled(w, msg, v)
<1>1. Kinds(w.jobs) \subseteq Kinds(v.jobs)
  BY DEF Passed, Keeps
<1>2. /\ Duty(w) => Duty(x)
      /\ Loading(x) => Loading(w)
      /\ CFormOnly(w) => CFormOnly(x)
  BY PassedDuty
<1>3. v.clusters = x.clusters /\ v.locked = x.locked /\ (x.crashed => v.crashed)
  BY DEF Keeps
<1>4. /\ v.locked => w.locked \/ msg.type = "kStarted"
      /\ msg.type \in {"kErr", "kOk"} => ~v.locked
  BY <1>3 DEF Passed
<1>5. CASE x.tabs.ctrl = "clusters" /\ Stepped(x, msg, v)
  <2>1. Duty(w) /\ (Calm(msg) \/ Duties(w.jobs) = {}) => Duty(v)
    <3>1. Duties(w.jobs) = {} => Duties(x.jobs) = {}
      BY DEF Passed
    <3>2. Duty(x) /\ (Calm(msg) \/ Duties(x.jobs) = {}) => Duty(v)
      BY <1>5 DEF Stepped, DutyGoes
    <3> QED
      BY <1>2, <3>1, <3>2
  <2>2. NameGoes(w, v)
    BY <1>5, NamesPassed DEF Stepped
  <2>3. /\ Loading(v) => \/ v.crashed \/ Loading(w) \/ msg.type \in StartMsgs
                         \/ Kinds(v.jobs) \cap ClusterChecks # {}
        /\ CFormOnly(w) => CFormOK(v)
    BY <1>2, <1>5 DEF Stepped
  <2>4. /\ msg.type = "kStarted" => v.crashed \/ v.awaits
        /\ msg.type = "srStarted" => v.crashed \/ v.awaits \/ v.page.kind = "list"
        /\ msg.type \in AnswerMsgs => v.crashed \/ ~Loading(v)
    BY <1>5 DEF Stepped
  <2> QED
    BY <1>1, <1>4, <2>1, <2>2, <2>3, <2>4 DEF Handled
<1>6. CASE (x.tabs.ctrl # "clusters" \/ x.crashed) /\ v.page = x.page /\ v.jobs = x.jobs
  <2>1. Duty(w) => Duty(v)
    BY <1>2, <1>3, <1>6 DEF Duty, Ready
  <2>2. NameGoes(w, v)
    <3>1. CASE x.page = w.page
      BY <1>6, <3>1 DEF NameGoes
    <3>2. CASE Anew(x)
      BY <1>6, <3>2 DEF NameGoes, Anew, Misnamed, Prompting
    <3> QED
      BY <3>1, <3>2 DEF Passed
  <2>3. /\ Loading(v) => Loading(w)
        /\ CFormOnly(w) => CFormOK(v)
    BY <1>2, <1>6 DEF Loading, CFormOnly, CFormOK
  <2>4. w.tabs.ctrl = "clusters" /\ msg.type \in StartMsgs \cup AnswerMsgs => v.crashed
    BY <1>3, <1>6 DEF Passed
  <2> QED
    BY <1>1, <1>4, <2>1, <2>2, <2>3, <2>4 DEF Handled, StartMsgs
<1> QED
  BY <1>5, <1>6

LEMMA HandleSteps ==
  ASSUME NEW w, WorldOK(w), NEW msg, MsgOK(msg), NEW reached,
         NEW row \in ConnectNames \cup {NoItem}
  PROVE  Handled(w, msg, Handle(w, msg, reached, row))
<1> DEFINE u == RootSwitch(w, msg, reached)
           x == FollowBar(u, msg)
           v == Handle(w, msg, reached, row)
<1>1. Rooted(w, msg, u)
  BY RootSwitchSteps
<1>2. v = IF u.crashed THEN u ELSE ToShown(x, u.tabs.synced, msg, row)
  BY DEF Handle, ToTabs
<1> HIDE DEF u, v
<1>3. WorldOK(u)
  BY <1>1 DEF Rooted
<1>4. CASE u.crashed
  <2>1. v = u /\ Passed(w, msg, u) /\ Keeps(u, u)
    BY <1>1, <1>2, <1>4, RootCrashed, KeepsSelf
  <2> QED
    BY <1>3, <1>4, <2>1, PassedHandled DEF v
<1>5. CASE ~u.crashed
  <2>1. BarFollowed(u, msg, x)
    BY <1>3, FollowBarSteps
  <2>2. v = ToShown(x, u.tabs.synced, msg, row)
    BY <1>2, <1>5
  <2> HIDE DEF x
  <2>3. WorldOK(x)
    BY <2>1 DEF BarFollowed
  <2>4. /\ x.tabs.ctrl = "clusters" => Stepped(x, msg, v)
        /\ x.tabs.ctrl # "clusters" =>
             /\ WorldOK(v) /\ Keeps(x, v) /\ v.page = x.page /\ v.jobs = x.jobs
    BY <2>2, <2>3, ToShownSteps
  <2>5. Passed(w, msg, x)
    BY <1>1, <2>1, PassedBy
  <2>6. WorldOK(v) /\ Keeps(x, v)
    BY <2>4 DEF Stepped
  <2>7. Handled(w, msg, v)
    BY <2>4, <2>5, <2>6, PassedHandled
  <2> QED
    BY <2>7 DEF v
<1> QED
  BY <1>4, <1>5

-----------------------------------------------------------------------------
(* Jobs are taken, and stirred.                                            *)

LEMMA JobRemoved ==
  ASSUME NEW js \in Seq(Jobs), NEW i \in DOMAIN js
  PROVE  /\ RemoveAt(js, i) \in Seq(Jobs)
         /\ ToSet(RemoveAt(js, i)) \subseteq ToSet(js)
         /\ Kinds(js) \subseteq Kinds(RemoveAt(js, i)) \cup {js[i].kind}
<1> DEFINE n == Len(js)
           before == SubSeq(js, 1, i - 1)
           after == SubSeq(js, i + 1, n)
           rest == before \o after
<1>1. n \in Nat /\ DOMAIN js = 1..n /\ i \in 1..n /\ \A j \in 1..n : js[j] \in Jobs
  OBVIOUS
<1> HIDE DEF n
<1>2. /\ before \in Seq(Jobs) /\ Len(before) = IF 1 <= i - 1 THEN (i - 1) - 1 + 1 ELSE 0
      /\ \A j \in 1 .. (i - 1) - 1 + 1 : before[j] = js[1 + j - 1]
  <2>1. 1 \in Int /\ i - 1 \in Int /\ \A j \in 1 .. i - 1 : js[j] \in Jobs
    BY <1>1
  <2> QED
    BY <2>1, SubSeqProperties
<1>3. /\ after \in Seq(Jobs) /\ Len(after) = IF i + 1 <= n THEN n - (i + 1) + 1 ELSE 0
      /\ \A j \in 1 .. n - (i + 1) + 1 : after[j] = js[(i + 1) + j - 1]
  <2>1. i + 1 \in Int /\ n \in Int /\ \A j \in i + 1 .. n : js[j] \in Jobs
    BY <1>1
  <2> QED
    BY <2>1, SubSeqProperties
<1> HIDE DEF before, after
<1>4. Len(before) = i - 1 /\ Len(after) = n - i
  BY <1>1, <1>2, <1>3
<1>5. /\ rest \in Seq(Jobs) /\ Len(rest) = Len(before) + Len(after)
      /\ \A j \in 1 .. Len(before) + Len(after) :
           rest[j] = IF j <= Len(before) THEN before[j] ELSE after[j - Len(before)]
  BY <1>2, <1>3, ConcatProperties
<1>6. RemoveAt(js, i) = rest
  BY DEF RemoveAt, before, after, n
<1> HIDE DEF rest
<1>7. DOMAIN rest = 1 .. n - 1
  BY <1>1, <1>4, <1>5
<1>8. ASSUME NEW j \in 1..n, j # i PROVE \E m \in DOMAIN rest : rest[m] = js[j]
  <2>1. CASE j < i
    <3>1. j \in DOMAIN rest /\ j <= Len(before) /\ j \in 1 .. Len(before) + Len(after)
      BY <1>1, <1>4, <1>7, <2>1
    <3>2. rest[j] = before[j]
      BY <1>5, <3>1
    <3>3. before[j] = js[j]
      <4>1. j \in 1 .. (i - 1) - 1 + 1 /\ 1 + j - 1 = j
        BY <1>1, <2>1
      <4> QED
        BY <1>2, <4>1
    <3> QED
      BY <3>1, <3>2, <3>3
  <2>2. CASE j > i
    <3>1. j - 1 \in DOMAIN rest /\ rest[j - 1] = after[j - i] /\ j - i \in 1 .. n - (i + 1) + 1
      <4>1. /\ j - 1 \in 1 .. n - 1 /\ j - 1 \in 1 .. (i - 1) + (n - i) /\ ~(j - 1 <= i - 1)
            /\ (j - 1) - (i - 1) = j - i /\ j - i \in 1 .. n - (i + 1) + 1
        BY <1>1, <2>2
      <4>2. rest[j - 1] = after[(j - 1) - (i - 1)]
        BY <1>4, <1>5, <4>1
      <4> QED
        BY <1>7, <4>1, <4>2
    <3>2. after[j - i] = js[(i + 1) + (j - i) - 1]
      BY <1>3, <3>1
    <3>3. (i + 1) + (j - i) - 1 = j
      BY <1>1
    <3> QED
      BY <3>1, <3>2, <3>3
  <2> QED
    BY <1>1, <1>8, <2>1, <2>2
<1>9. Kinds(js) \subseteq Kinds(rest) \cup {js[i].kind}
  <2> SUFFICES ASSUME NEW j \in 1..n PROVE js[j].kind \in Kinds(rest) \cup {js[i].kind}
    BY <1>1 DEF Kinds, ToSet
  <2>1. CASE j = i
    BY <2>1
  <2>2. CASE j # i
    <3>1. PICK m \in DOMAIN rest : rest[m] = js[j]
      BY <1>8, <2>2
    <3> QED
      BY <3>1 DEF Kinds, ToSet
  <2> QED
    BY <2>1, <2>2
<1>10. ASSUME NEW j \in DOMAIN rest PROVE rest[j] \in ToSet(js)
  <2>1. CASE j <= i - 1
    <3>1. /\ j \in DOMAIN js /\ j <= Len(before)
          /\ j \in 1 .. Len(before) + Len(after)
      BY <1>1, <1>4, <1>7, <2>1
    <3>2. rest[j] = before[j]
      BY <1>5, <3>1
    <3>3. before[j] = js[j]
      <4>1. j \in 1 .. (i - 1) - 1 + 1 /\ 1 + j - 1 = j
        BY <1>1, <1>4, <3>1
      <4> QED
        BY <1>2, <4>1
    <3> QED
      BY <3>1, <3>2, <3>3 DEF ToSet
  <2>2. CASE ~(j <= i - 1)
    <3>1. /\ j \in 1 .. (i - 1) + (n - i) /\ j - (i - 1) \in 1 .. n - (i + 1) + 1
          /\ (i + 1) + (j - (i - 1)) - 1 = j + 1 /\ j + 1 \in 1..n
      BY <1>1, <1>7, <2>2
    <3>2. rest[j] = after[j - (i - 1)]
      BY <1>4, <1>5, <2>2, <3>1
    <3>3. after[j - (i - 1)] = js[j + 1]
      BY <1>3, <3>1
    <3> QED
      BY <1>1, <3>1, <3>2, <3>3 DEF ToSet
  <2> QED
    BY <2>1, <2>2
<1>11. ToSet(rest) \subseteq ToSet(js)
  BY <1>10 DEF ToSet
<1> QED
  BY <1>5, <1>6, <1>9, <1>11

(* A key that may close the prompt leaves no deletion as it was.           *)
LEMMA StirredTyped ==
  ASSUME NEW js \in Seq(Jobs), NEW msg, NEW p, Finders(js, p)
  PROVE  LET now == Stirred(js, msg)
         IN  /\ now \in Seq(Jobs) /\ Kinds(now) = Kinds(js) /\ Finders(now, p)
             /\ Duties(now) \subseteq Duties(js)
             /\ msg.type = "key" /\ msg.key \in Closing => Duties(now) = {}
<1> DEFINE now == Stirred(js, msg)
<1>1. ASSUME NEW i \in DOMAIN js
      PROVE  /\ now[i] \in Jobs /\ now[i].kind = js[i].kind /\ now[i].of = js[i].of
             /\ now[i].held = js[i].held /\ (now[i].alone => js[i].alone)
             /\ msg.type = "key" /\ msg.key \in Closing /\ js[i].kind = "delete" =>
                  ~now[i].alone
  <2> DEFINE j == js[i]
             k == [j EXCEPT !.alone = FALSE]
  <2>1. now[i] = IF Upsets(msg, j) THEN k ELSE j
    BY DEF Stirred
  <2>2. j \in Jobs
    OBVIOUS
  <2>3. msg.type = "key" /\ msg.key \in Closing /\ j.kind = "delete" => Upsets(msg, j)
    BY DEF Upsets
  <2> HIDE DEF j, now
  <2>4. /\ k \in Jobs /\ k.kind = j.kind /\ k.of = j.of /\ k.held = j.held /\ ~k.alone
    BY <2>2, JobAlone
  <2> HIDE DEF k
  <2> QED
    BY <2>1, <2>2, <2>3, <2>4 DEF j
<1>2. now = [i \in DOMAIN js |-> now[i]] /\ DOMAIN now = DOMAIN js
  BY DEF Stirred
<1> HIDE DEF now
<1>3. now \in Seq(Jobs) /\ Kinds(now) = Kinds(js)
  BY <1>1, <1>2, JobsChanged
<1>4. Finders(now, p)
  <2> SUFFICES ASSUME NEW i \in DOMAIN now PROVE Finder(now[i], p)
    BY DEF Finders, ToSet
  <2>1. Finder(js[i], p)
    BY <1>2 DEF Finders, ToSet
  <2> QED
    BY <1>1, <1>2, <2>1 DEF Finder
<1>5. Duties(now) \subseteq Duties(js)
  <2> SUFFICES ASSUME NEW i \in DOMAIN now, now[i].kind = "delete", now[i].alone
               PROVE  <<now[i].of, now[i].held>> \in Duties(js)
    BY DEF Duties, ToSet
  <2> QED
    BY <1>1, <1>2 DEF Duties, ToSet
<1>6. ASSUME msg.type = "key", msg.key \in Closing PROVE Duties(now) = {}
  BY <1>1, <1>2, <1>6 DEF Duties, ToSet
<1> QED
  BY <1>3, <1>4, <1>5, <1>6 DEF now

LEMMA DutiesRemoved ==
  ASSUME NEW js, NEW now, ToSet(now) \subseteq ToSet(js)
  PROVE  /\ Duties(now) \subseteq Duties(js)
         /\ \A p : Finders(js, p) => Finders(now, p)
BY DEF Duties, Finders

(* Worlds that differ in their jobs, or in who waits.                      *)
Alike(w, v) ==
  /\ v.clusters = w.clusters /\ v.page = w.page /\ v.tabs = w.tabs
  /\ v.locked = w.locked /\ v.crashed = w.crashed

LEMMA AlikeDuty ==
  ASSUME NEW w, NEW v, Alike(w, v), Duty(w), Duties(v.jobs) \subseteq Duties(w.jobs)
  PROVE  Duty(v)
BY DEF Alike, Duty, Ready

LEMMA JobsReplaced ==
  ASSUME NEW w, WorldOK(w), NEW js \in Seq(Jobs), Finders(js, w.page)
  PROVE  LET v == [w EXCEPT !.jobs = js]
         IN  WorldOK(v) /\ Alike(w, v) /\ v.jobs = js
<1> DEFINE v == [w EXCEPT !.jobs = js]
<1>1. v \in Worlds /\ Alike(w, v) /\ v.jobs = js
  BY DEF WorldOK, Worlds, Alike
<1> HIDE DEF v
<1>2. WorldOK(v)
  BY <1>1 DEF WorldOK, Alike
<1> QED
  BY <1>1, <1>2 DEF v

LEMMA ApartSteps ==
  ASSUME NEW w, WorldOK(w)
  PROVE  /\ WorldOK(Apart(w)) /\ Alike(w, Apart(w)) /\ Kinds(Apart(w).jobs) = Kinds(w.jobs)
         /\ Duties(Apart(w).jobs) = {}
<1> DEFINE js == w.jobs
           now == Disturbed(js)
<1>1. js \in Seq(Jobs) /\ Finders(js, w.page)
  BY DEF WorldOK, Worlds
<1> HIDE DEF js
<1>2. /\ now \in Seq(Jobs) /\ Kinds(now) = Kinds(js) /\ DOMAIN now = DOMAIN js
      /\ Duties(now) = {}
      /\ \A i \in DOMAIN js : now[i].held = js[i].held /\ now[i].kind = js[i].kind
  BY <1>1, DisturbedTyped
<1>3. Apart(w) = [w EXCEPT !.jobs = now]
  BY DEF Apart, js
<1> HIDE DEF now
<1>4. Finders(now, w.page)
  <2> SUFFICES ASSUME NEW i \in DOMAIN now PROVE Finder(now[i], w.page)
    BY DEF Finders, ToSet
  <2>1. Finder(js[i], w.page)
    BY <1>1, <1>2 DEF Finders, ToSet
  <2> QED
    BY <1>2, <2>1 DEF Finder
<1>5. LET v == [w EXCEPT !.jobs = now]
      IN  WorldOK(v) /\ Alike(w, v) /\ v.jobs = now
  BY <1>2, <1>4, JobsReplaced
<1> QED
  BY <1>2, <1>3, <1>5 DEF js

LEMMA BegunSteps ==
  ASSUME NEW w, WorldOK(w), NEW job \in Jobs, job.kind \in Checks
  PROVE  /\ WorldOK(Begun(w, job)) /\ Alike(w, Begun(w, job))
         /\ Kinds(w.jobs) \subseteq Kinds(Begun(w, job).jobs)
         /\ w.awaits => job.kind \in Kinds(Begun(w, job).jobs)
         /\ Duties(Begun(w, job).jobs) \subseteq Duties(w.jobs)
<1> DEFINE next == [job EXCEPT !.at = "awaited"]
           v == Post(w, next)
<1>1. next \in Jobs /\ next.kind = job.kind
  <2>1. job \in CheckJobs
    BY DEF Jobs
  <2>2. next \in CheckJobs /\ next \in AnyJob /\ next.kind = job.kind
    BY <2>1 DEF CheckJobs, AnyJob, Jobs
  <2> HIDE DEF next
  <2>3. next.kind \notin {"registered", "switched", "connectDeleted", "register", "kcdelete"}
                         \cup ListCommands
    BY <2>2 DEF Checks, ListCommands
  <2> QED
    BY <2>2, <2>3 DEF Jobs
<1> HIDE DEF next
<1>2. Finder(next, w.page) /\ next.kind # "delete"
  BY <1>1 DEF Finder, Checks, ListCommands
<1>3. /\ WorldOK(v) /\ Keeps(w, v) /\ v.page = w.page
      /\ next.kind \in Kinds(v.jobs) /\ v.crashed = w.crashed
      /\ Duties(v.jobs) \subseteq Duties(w.jobs)
  BY <1>1, <1>2, PostKeeps
<1>4. Begun(w, job) = IF w.awaits THEN v ELSE w
  BY DEF Begun, next
<1> HIDE DEF v
<1> QED
  BY <1>1, <1>3, <1>4 DEF Keeps, Alike

(* The state as a world.                                                   *)
LEMMA NowIs ==
  /\ Now.clusters = clusters /\ Now.page = page /\ Now.tabs = tabs /\ Now.locked = locked
  /\ Now.connErr = connErr /\ Now.client = client
  /\ Now.jobs = jobs /\ Now.timer = timer /\ Now.crashed = crashed /\ Now.awaits = FALSE
  /\ Now.after = <<>>
BY DEF Now

LEMMA WithoutJobSteps ==
  ASSUME WorldOK(Now), NEW i \in DOMAIN jobs
  PROVE  /\ WorldOK(WithoutJob(i)) /\ Alike(Now, WithoutJob(i)) /\ jobs[i] \in Jobs
         /\ Kinds(jobs) \subseteq Kinds(WithoutJob(i).jobs) \cup {jobs[i].kind}
         /\ Duties(WithoutJob(i).jobs) \subseteq Duties(jobs)
         /\ Finder(jobs[i], page)
<1> DEFINE w == Now
           rest == RemoveAt(jobs, i)
           v == [w EXCEPT !.jobs = rest]
<1>1. WithoutJob(i) = v
  BY NowIs DEF WithoutJob
<1>2. jobs \in Seq(Jobs) /\ Finders(jobs, page) /\ w.page = page
  BY NowIs DEF WorldOK, Worlds
<1>3. /\ rest \in Seq(Jobs) /\ Kinds(jobs) \subseteq Kinds(rest) \cup {jobs[i].kind}
      /\ ToSet(rest) \subseteq ToSet(jobs)
  BY <1>2, JobRemoved
<1> HIDE DEF rest, w
<1>4. Duties(rest) \subseteq Duties(jobs) /\ Finders(rest, page)
  BY <1>2, <1>3, DutiesRemoved
<1>5. WorldOK(v) /\ Alike(w, v) /\ v.jobs = rest
  BY <1>2, <1>3, <1>4, JobsReplaced DEF w
<1>6. Finder(jobs[i], page)
  BY <1>2 DEF Finders, ToSet
<1> QED
  BY <1>1, <1>2, <1>3, <1>4, <1>5, <1>6 DEF w

-----------------------------------------------------------------------------
(* A command runs: the configuration changes, the page stays.              *)

Commanded(w, v) ==
  /\ WorldOK(v) /\ v.page = w.page /\ v.tabs = w.tabs /\ v.locked = w.locked
  /\ Kinds(w.jobs) \subseteq Kinds(v.jobs)
  /\ Duties(v.jobs) \subseteq Duties(w.jobs)
  /\ w.crashed => v.crashed

LEMMA PostedEvent ==
  ASSUME NEW w, WorldOK(w), NEW cs \in Clusters, NEW job \in Jobs,
         job.kind # "delete", Finder(job, w.page)
  PROVE  LET v == Post([w EXCEPT !.clusters = cs], job)
         IN  Commanded(w, v) /\ v.clusters = cs
<1> DEFINE u == [w EXCEPT !.clusters = cs]
           v == Post(u, job)
<1>1. /\ WorldOK(u) /\ u.page = w.page /\ u.clusters = cs /\ u.jobs = w.jobs
      /\ u.tabs = w.tabs /\ u.locked = w.locked /\ u.crashed = w.crashed
  BY ClustersKeep
<1> HIDE DEF u
<1>2. /\ WorldOK(v) /\ Keeps(u, v) /\ v.page = u.page /\ v.crashed = u.crashed
      /\ Duties(v.jobs) \subseteq Duties(u.jobs)
  BY <1>1, PostKeeps
<1> HIDE DEF v
<1>3. Commanded(w, v) /\ v.clusters = cs
  BY <1>1, <1>2 DEF Commanded, Keeps
<1> QED
  BY <1>3 DEF u, v

LEMMA CrashCommanded ==
  ASSUME NEW w, WorldOK(w)
  PROVE  Commanded(w, Crash(w)) /\ Crash(w).clusters = w.clusters
BY CrashKeeps DEF Commanded, Keeps

LEMMA CheckSelectedSteps ==
  ASSUME NEW w, WorldOK(w), NEW n, NEW alone \in BOOLEAN
  PROVE  /\ Commanded(w, CheckSelected(w, n, alone))
         /\ CheckSelected(w, n, alone).clusters = w.clusters
<1> DEFINE c == Found(w.clusters, n)
           job == Job("k", "list", c, alone)
           v == Post(w, job)
<1>1. c \in Cluster \cup {NoCluster}
  BY PageTyped, FoundTyped
<1>2. CheckSelected(w, n, alone) = IF c = NoCluster THEN Crash(w) ELSE v
  BY DEF CheckSelected
<1>3. c # NoCluster => c \in Checkables
  BY <1>1 DEF Checkables
<1> HIDE DEF c
<1>4. ASSUME c # NoCluster PROVE Commanded(w, v) /\ v.clusters = w.clusters
  <2>1. job \in Jobs /\ job.kind # "delete" /\ Finder(job, w.page)
    BY <1>3, <1>4, CheckTyped DEF Checks
  <2> HIDE DEF job
  <2>2. /\ WorldOK(v) /\ Keeps(w, v) /\ v.page = w.page /\ v.crashed = w.crashed
        /\ Duties(v.jobs) \subseteq Duties(w.jobs)
    BY <2>1, PostKeeps
  <2> QED
    BY <2>2 DEF Commanded, Keeps
<1> HIDE DEF v
<1> QED
  BY <1>2, <1>4, CrashCommanded

(* The message of a switch is of the cluster that SwitchCluster returns.   *)
LEMMA SwitchedToTyped ==
  ASSUME NEW cs \in Clusters, NEW n
  PROVE  /\ SwitchedTo(cs, n) \in Jobs /\ SwitchedTo(cs, n).kind = "switched"
         /\ \A p : Finder(SwitchedTo(cs, n), p)
<1> DEFINE j == SwitchedTo(cs, n)
<1>1. j \in Jobs /\ j.kind = "switched"
  <2>1. CASE Named(cs, n) = {}
    BY <2>1, EventTyped DEF SwitchedTo, Events
  <2>2. CASE Named(cs, n) # {}
    <3> DEFINE at == Max(Named(cs, n))
    <3>1. Named(cs, n) \subseteq 1..Len(cs) /\ Len(cs) \in Nat
      BY DEF Named, Clusters
    <3>2. at \in 1..Len(cs)
      BY <2>2, <3>1, LastIsMember
    <3>3. j = [Event("switched", cs[at]) EXCEPT !.held = <<at>>]
      BY <2>2 DEF SwitchedTo
    <3> HIDE DEF at, j
    <3>4. cs[at] \in Cluster /\ at \in Nat
      BY <3>1, <3>2 DEF Clusters
    <3> QED
      BY <3>3, <3>4, EventTyped DEF Events
  <2> QED
    BY <2>1, <2>2
<1> HIDE DEF j
<1>2. \A p : Finder(j, p)
  BY <1>1 DEF Finder, ListCommands
<1> QED
  BY <1>1, <1>2 DEF j

LEMMA SwitchToSelectedSteps ==
  ASSUME NEW w, WorldOK(w), NEW n
  PROVE  Commanded(w, SwitchToSelected(w, n))
<1> DEFINE now == Switched(w.clusters, n)
           job == SwitchedTo(now, n)
<1>1. now \in Clusters
  BY PageTyped, SwitchedTyped
<1>2. SwitchToSelected(w, n) \in {Crash(w), Post([w EXCEPT !.clusters = now], job)}
  BY DEF SwitchToSelected
<1> HIDE DEF now
<1>3. job \in Jobs /\ job.kind # "delete" /\ Finder(job, w.page)
  BY <1>1, SwitchedToTyped
<1> HIDE DEF job
<1> QED
  BY <1>1, <1>2, <1>3, PostedEvent, CrashCommanded

LEMMA DeleteSelectedSteps ==
  ASSUME NEW w, WorldOK(w), NEW n \in MaybeNames
  PROVE  /\ Commanded(w, DeleteSelected(w, n))
         /\ n # NoName => DeleteSelected(w, n).clusters = Deleted(w.clusters, n)
<1> DEFINE now == Deleted(w.clusters, n)
           job == Event("deleted", n)
<1>1. now \in Clusters
  BY PageTyped, DeletedTyped
<1>2. DeleteSelected(w, n) = IF n = NoName THEN Crash(w)
                             ELSE Post([w EXCEPT !.clusters = now], job)
  BY DEF DeleteSelected
<1> HIDE DEF now
<1>3. job \in Jobs /\ job.kind # "delete" /\ Finder(job, w.page)
  BY EventTyped DEF Events
<1> HIDE DEF job
<1> QED
  BY <1>1, <1>2, <1>3, PostedEvent, CrashCommanded DEF now

LEMMA RegisterSteps ==
  ASSUME NEW w, WorldOK(w), NEW r \in Registrations
  PROVE  Commanded(w, Register(w, r))
<1> DEFINE now == Registered(w.clusters, r)
           job == Event("registered", ToCluster(w.clusters, r))
<1>1. now \in Clusters /\ ToCluster(w.clusters, r) \in Cluster
  BY PageTyped, RegisteredTyped
<1>2. Register(w, r) = Post([w EXCEPT !.clusters = now], job)
  BY DEF Register
<1> HIDE DEF now
<1>3. job \in Jobs /\ job.kind # "delete" /\ Finder(job, w.page)
  BY <1>1, EventTyped DEF Events
<1> HIDE DEF job
<1> QED
  BY <1>1, <1>2, <1>3, PostedEvent

LEMMA DeleteConnectSteps ==
  ASSUME NEW w, WorldOK(w), NEW x
  PROVE  Commanded(w, DeleteConnect(w, x))
<1> DEFINE now == ConnectDeleted(w.clusters, x.cluster, x.connect)
           job == Event("connectDeleted", x.connect)
<1>1. /\ now \in Clusters
      /\ Holding(w.clusters, x.cluster, x.connect) # {} => x.connect \in ConnectNames
  BY PageTyped, ConnectDeletedTyped
<1>2. DeleteConnect(w, x) = IF Holding(w.clusters, x.cluster, x.connect) = {} THEN w
                            ELSE Post([w EXCEPT !.clusters = now], job)
  BY DEF DeleteConnect
<1> HIDE DEF now
<1>3. CASE Holding(w.clusters, x.cluster, x.connect) = {}
  BY <1>2, <1>3 DEF Commanded
<1>4. CASE Holding(w.clusters, x.cluster, x.connect) # {}
  <2>1. job \in Jobs /\ job.kind # "delete" /\ Finder(job, w.page)
    BY <1>1, <1>4, EventTyped DEF Events
  <2> HIDE DEF job
  <2> QED
    BY <1>1, <1>2, <1>4, <2>1, PostedEvent
<1> QED
  BY <1>3, <1>4

(* What a command finds where it looks.                                    *)
LEMMA FoundByTyped ==
  ASSUME WorldOK(Now), NEW job \in Jobs, Finder(job, page)
  PROVE  /\ job.kind \in ListCommands => FoundBy(job) \in MaybeNames
         /\ job.kind = "register" => FoundBy(job) \in Registrations
         /\ job.kind \in ListCommands /\ job.held = <<>> =>
              page.kind = "list" /\ FoundBy(job) = Selected(page)
<1>1. page \in ListPages \cup FormPages /\ (page.kind = "list" => ListOK(page))
  BY NowIs DEF WorldOK, Worlds
<1>2. /\ page.kind = "list" => ReadOn(page) \in MaybeNames
      /\ page.kind = "form" => ReadOn(page) \in Registrations
  BY <1>1, ReadOnTyped
<1>3. CASE job.held = <<>>
  BY <1>2, <1>3 DEF FoundBy, Finder, ReadOn
<1>4. CASE job.held # <<>>
  BY <1>4 DEF FoundBy, Jobs
<1> QED
  BY <1>3, <1>4

-----------------------------------------------------------------------------
(* The steps, as what becomes of the world.                                *)

Waits(w) == \/ w.locked /\ "k" \notin Kinds(w.jobs)
            \/ Loading(w) /\ Kinds(w.jobs) \cap ClusterChecks = {}

Leads(w, v) ==
  /\ WorldOK(v) /\ Duty(v) /\ NameGoes(w, v)
  /\ CFormOnly(w) => CFormOK(v)
  /\ w.tabs.ctrl = "clusters" /\ ~Waits(w) /\ ~v.crashed => ~Waits(v)

(* A message is handled, perhaps without a job, and jobs are added.        *)
LEMMA Framed ==
  ASSUME NEW w, NEW b, Alike(w, b), Duty(b), NEW msg, Calm(msg) \/ Duties(b.jobs) = {},
         NEW h, Handled(b, msg, h),
         NEW v, WorldOK(v), Alike(h, v), Duties(v.jobs) \subseteq Duties(h.jobs),
         w.tabs.ctrl = "clusters" /\ ~Waits(w) /\ ~v.crashed => ~Waits(v)
  PROVE  Leads(w, v)
<1>1. Duty(h)
  BY DEF Handled
<1>2. Duty(v)
  BY <1>1, AlikeDuty
<1>3. NameGoes(w, v) /\ (CFormOnly(w) => CFormOK(v))
  BY DEF Alike, Handled, NameGoes, CFormOnly, CFormOK
<1> QED
  BY <1>2, <1>3 DEF Leads

(* No check of a cluster or a registry is taken.                           *)
LEMMA NoCheckTaken ==
  ASSUME NEW w, NEW b, Alike(w, b), Duty(b), NEW msg, Calm(msg) \/ Duties(b.jobs) = {},
         NEW h, Handled(b, msg, h),
         NEW v, WorldOK(v), Alike(h, v), Kinds(h.jobs) \subseteq Kinds(v.jobs),
         Duties(v.jobs) \subseteq Duties(h.jobs), Kinds(w.jobs) \cap ClusterChecks \subseteq Kinds(b.jobs),
         msg.type \notin StartMsgs
  PROVE  Leads(w, v)
<1>1. Kinds(w.jobs) \cap ClusterChecks \subseteq Kinds(v.jobs)
  BY DEF Handled
<1>2. v.locked => w.locked
  BY DEF Handled, Alike, StartMsgs
<1>3. Loading(v) => v.crashed \/ Loading(w) \/ Kinds(v.jobs) \cap ClusterChecks # {}
  <2>1. Loading(v) = Loading(h) /\ Loading(w) = Loading(b) /\ v.crashed = h.crashed
    BY DEF Alike, Loading
  <2>2. Loading(h) => h.crashed \/ Loading(b) \/ Kinds(h.jobs) \cap ClusterChecks # {}
    BY DEF Handled
  <2>3. Kinds(h.jobs) \cap ClusterChecks # {} => Kinds(v.jobs) \cap ClusterChecks # {}
    OBVIOUS
  <2> QED
    BY <2>1, <2>2, <2>3
<1>4. ~Waits(w) /\ ~v.crashed => ~Waits(v)
  <2>1. "k" \in ClusterChecks
    BY DEF ClusterChecks
  <2>2. Loading(w) /\ ~Waits(w) => Kinds(v.jobs) \cap ClusterChecks # {}
    BY <1>1 DEF Waits
  <2> QED
    BY <1>1, <1>2, <1>3, <2>1, <2>2 DEF Waits
<1> QED
  BY <1>4, Framed

Goes == \E v : Leads(Now, v) /\ Become(v)

LEMMA RowsOK ==
  ASSUME WorldOK(Now), NEW row \in Rows
  PROVE  row \in ConnectNames \cup {NoItem}
<1>1. CASE page.kind = "form"
  <2>1. page \in ListPages \cup FormPages
    BY NowIs DEF WorldOK, Worlds
  <2>2. page.form \in Forms
    BY <1>1, <2>1, PageKinds
  <2>3. page.form.kc \in KcForms
    BY <2>2 DEF Forms
  <2>4. page.form.kc.drawn \subseteq ConnectNames
    BY <2>3 DEF KcForms
  <2> QED
    BY <1>1, <2>4 DEF Rows, KcSelections
<1>2. CASE page.kind # "form"
  BY <1>2 DEF Rows
<1> QED
  BY <1>1, <1>2

LEMMA PressableOK ==
  ASSUME NEW msg, Pressable(msg)
  PROVE  /\ MsgOK(msg)
         /\ msg.type \notin {"kStarted", "srStarted"}
         /\ Calm(msg) \/ (msg.type = "key" /\ msg.key \in Closing)
<1>1. CASE msg.type = "key" /\ msg.term \in Terms
  BY <1>1 DEF MsgOK, Calm, CalmTypes
<1>2. CASE /\ msg.type = "edit" /\ msg.field \in DOMAIN Blank
           /\ [Blank EXCEPT ![msg.field] = msg.value] \in Values
           /\ msg.field \in {"tls", "ver", "srTls", "srVer"} => msg.value # "none"
  BY <1>2 DEF MsgOK, Calm, CalmTypes
<1>3. CASE msg.type = "kcname" /\ msg.name \in Connects
  BY <1>3 DEF MsgOK, ConnectNames, Calm, CalmTypes
<1>4. CASE msg.type = "other"
  BY <1>4 DEF MsgOK, Calm, CalmTypes
<1> QED
  BY <1>1, <1>2, <1>3, <1>4 DEF Pressable

LEMMA PlainMessages ==
  ASSUME NEW type, type \notin {"key", "edit", "kcname", "registered", "switched"}
  PROVE  MsgOK(Message(type)) /\ Message(type).type = type
BY DEF MsgOK, Message

LEMMA PressGoes ==
  ASSUME user \in Sessions, WorldOK(Now), Duty(Now), NEW row \in Rows, NEW msg \in user.inputs,
         Press(msg, row)
  PROVE  Goes
<1> DEFINE js == Stirred(jobs, msg)
           w == Now
           b == [w EXCEPT !.jobs = js]
           h == Handle(b, msg, TRUE, row)
<1>1. Pressable(msg)
  BY SessionsAssumption
<1>2. /\ MsgOK(msg) /\ msg.type \notin StartMsgs
      /\ Calm(msg) \/ (msg.type = "key" /\ msg.key \in Closing)
  BY <1>1, PressableOK DEF StartMsgs
<1>3. Become(h)
  BY NowIs DEF Press
<1>4. /\ jobs \in Seq(Jobs) /\ w.jobs = jobs /\ WorldOK(w) /\ Duty(w)
      /\ w.page = page /\ Finders(jobs, page)
  BY NowIs DEF WorldOK, Worlds
<1>5. /\ js \in Seq(Jobs) /\ Kinds(js) = Kinds(jobs) /\ Finders(js, page)
      /\ Duties(js) \subseteq Duties(jobs)
      /\ msg.type = "key" /\ msg.key \in Closing => Duties(js) = {}
  BY <1>4, StirredTyped
<1> HIDE DEF js, w
<1>6. WorldOK(b) /\ Alike(w, b) /\ b.jobs = js
  BY <1>4, <1>5, JobsReplaced
<1> HIDE DEF b
<1>7. row \in ConnectNames \cup {NoItem}
  BY RowsOK
<1>8. Handled(b, msg, h)
  BY <1>2, <1>6, <1>7, HandleSteps
<1> HIDE DEF h
<1>9. /\ WorldOK(h) /\ Alike(h, h) /\ Kinds(h.jobs) \subseteq Kinds(h.jobs)
      /\ Duties(h.jobs) \subseteq Duties(h.jobs)
  BY <1>8 DEF Handled, Alike
<1>10. Kinds(w.jobs) \cap ClusterChecks \subseteq Kinds(b.jobs)
  BY <1>4, <1>5, <1>6
<1>11. Duty(b) /\ (Calm(msg) \/ Duties(b.jobs) = {})
  BY <1>2, <1>4, <1>5, <1>6, AlikeDuty
<1>12. Leads(w, h)
  BY <1>2, <1>6, <1>8, <1>9, <1>10, <1>11, NoCheckTaken
<1> QED
  BY <1>3, <1>12 DEF Goes, w

(* A command is no check, and changes the configuration only if no        *)
(* deletion is taken for what it was after.                                *)
LEMMA CommandedLeads ==
  ASSUME NEW w, Duty(w), NEW b, Alike(w, b), NEW kind \in Commands,
         Kinds(w.jobs) \subseteq Kinds(b.jobs) \cup {kind},
         Duties(b.jobs) \subseteq Duties(w.jobs),
         NEW v, Commanded(b, v), v.clusters = b.clusters \/ Duties(b.jobs) = {}
  PROVE  Leads(w, v)
<1>1. Duty(v)
  <2>1. CASE Duties(b.jobs) = {}
    BY <2>1 DEF Commanded, Duty
  <2>2. CASE v.clusters = b.clusters
    BY <2>2 DEF Alike, Commanded, Duty, Ready
  <2> QED
    BY <2>1, <2>2
<1>2. v.page = w.page
  BY DEF Alike, Commanded
<1>3. Kinds(w.jobs) \cap ClusterChecks \subseteq Kinds(v.jobs)
  BY DEF Commanded, Commands, Changes, ClusterChecks
<1>4. Waits(v) => Waits(w)
  <2>1. v.locked = w.locked /\ Loading(v) = Loading(w)
    BY <1>2 DEF Alike, Commanded, Loading
  <2> QED
    BY <1>3, <2>1 DEF Waits, ClusterChecks
<1>5. NameGoes(w, v) /\ (CFormOnly(w) => CFormOK(v))
  BY <1>2 DEF NameGoes, CFormOnly, CFormOK
<1> QED
  BY <1>1, <1>4, <1>5 DEF Leads, Commanded

LEMMA CommandGoes ==
  ASSUME WorldOK(Now), Duty(Now), NEW i \in DOMAIN jobs, CommandRuns(i)
  PROVE  Goes
<1> DEFINE w == Now
           job == jobs[i]
           b == WithoutJob(i)
           a == Apart(b)
           v == Done(b, job)
           n == FoundBy(job)
<1>1. Become(v) /\ job.kind \in Commands
  BY DEF CommandRuns
<1>2. /\ WorldOK(b) /\ Alike(w, b) /\ job \in Jobs
      /\ Kinds(jobs) \subseteq Kinds(b.jobs) \cup {job.kind}
      /\ Duties(b.jobs) \subseteq Duties(jobs)
      /\ Finder(job, page)
  BY WithoutJobSteps
<1>3. /\ job.kind \in ListCommands => n \in MaybeNames
      /\ job.kind = "register" => n \in Registrations
  BY <1>2, FoundByTyped
<1>4. w.jobs = jobs
  BY NowIs
<1>5. /\ WorldOK(a) /\ Alike(b, a) /\ Kinds(a.jobs) = Kinds(b.jobs) /\ Duties(a.jobs) = {}
  BY <1>2, ApartSteps
<1>6. v = IF job.kind = "find" THEN CheckSelected(b, n, job.alone)
          ELSE IF job.kind = "switch" THEN SwitchToSelected(a, n)
          ELSE IF job.kind = "delete" THEN DeleteSelected(a, n)
          ELSE IF job.kind = "register" THEN Register(a, n)
          ELSE DeleteConnect(a, n)
  BY DEF Done
<1>7. job.alone \in BOOLEAN
  BY <1>2 DEF Jobs, AnyJob
<1> HIDE DEF a, n
<1>8. CASE job.kind = "find"
  <2>1. Commanded(b, v) /\ v.clusters = b.clusters
    BY <1>2, <1>6, <1>7, <1>8, CheckSelectedSteps
  <2> HIDE DEF v
  <2> QED
    BY <1>1, <1>2, <1>4, <2>1, CommandedLeads DEF Goes
<1>9. CASE job.kind # "find"
  <2>1. Commanded(a, v)
    <3> HIDE DEF job, b
    <3>1. job.kind = "switch" => Commanded(a, v)
      BY <1>5, <1>6, SwitchToSelectedSteps
    <3>2. job.kind = "delete" => Commanded(a, v)
      BY <1>3, <1>5, <1>6, DeleteSelectedSteps DEF ListCommands
    <3>3. job.kind = "register" => Commanded(a, v)
      BY <1>3, <1>5, <1>6, RegisterSteps
    <3>4. job.kind = "kcdelete" => Commanded(a, v)
      BY <1>5, <1>6, DeleteConnectSteps
    <3> QED
      BY <1>1, <1>9, <3>1, <3>2, <3>3, <3>4 DEF Commands, Changes
  <2>2. Alike(w, a) /\ Kinds(jobs) \subseteq Kinds(a.jobs) \cup {job.kind}
    BY <1>2, <1>5 DEF Alike
  <2>3. Duties(a.jobs) \subseteq Duties(jobs)
    BY <1>5
  <2> HIDE DEF v
  <2> QED
    BY <1>1, <1>4, <1>5, <2>1, <2>2, <2>3, CommandedLeads DEF Goes
<1> QED
  BY <1>8, <1>9

LEMMA StartGoes ==
  ASSUME WorldOK(Now), Duty(Now), NEW row \in Rows, NEW i \in DOMAIN jobs, CheckStarts(i, row)
  PROVE  Goes
<1> DEFINE w == Now
           job == jobs[i]
           b == WithoutJob(i)
           msg == Message(StartedBy[job.kind])
           h == Handle(b, msg, TRUE, row)
           v == Begun(h, job)
<1>1. Become(v) /\ job.kind \in Checks
  BY DEF CheckStarts
<1>2. /\ WorldOK(b) /\ Alike(w, b) /\ job \in Jobs
      /\ Kinds(jobs) \subseteq Kinds(b.jobs) \cup {job.kind}
      /\ Duties(b.jobs) \subseteq Duties(jobs)
  BY WithoutJobSteps
<1>3. /\ MsgOK(msg) /\ Calm(msg)
      /\ job.kind = "k" => msg.type = "kStarted"
      /\ job.kind = "sr" => msg.type = "srStarted"
      /\ job.kind = "kc" => msg.type = "kcStarted"
  <2> DEFINE type == StartedBy[job.kind]
  <2>1. /\ job.kind = "k" => type = "kStarted"
        /\ job.kind = "sr" => type = "srStarted"
        /\ job.kind = "kc" => type = "kcStarted"
        /\ type \in {"kStarted", "srStarted", "kcStarted"}
    BY <1>1 DEF StartedBy, Checks
  <2> HIDE DEF type
  <2>2. MsgOK(Message(type)) /\ Message(type).type = type
    BY <2>1, PlainMessages
  <2> QED
    BY <2>1, <2>2 DEF type, Calm, CalmTypes
<1>4. w.jobs = jobs /\ Duty(w)
  BY NowIs
<1>11. Duty(b)
  BY <1>2, <1>4, AlikeDuty
<1> HIDE DEF w, job, b, msg
<1>5. row \in ConnectNames \cup {NoItem}
  BY RowsOK
<1>6. Handled(b, msg, h)
  BY <1>2, <1>3, <1>5, HandleSteps
<1> HIDE DEF h
<1>7. WorldOK(h)
  BY <1>6 DEF Handled
<1>8. /\ WorldOK(v) /\ Alike(h, v) /\ Kinds(h.jobs) \subseteq Kinds(v.jobs)
      /\ h.awaits => job.kind \in Kinds(v.jobs)
      /\ Duties(v.jobs) \subseteq Duties(h.jobs)
  BY <1>1, <1>2, <1>7, BegunSteps
<1> HIDE DEF v
<1>9. CASE job.kind = "kc"
  <2>1. Kinds(w.jobs) \cap ClusterChecks \subseteq Kinds(b.jobs)
    BY <1>2, <1>4, <1>9 DEF ClusterChecks
  <2>2. msg.type \notin StartMsgs
    BY <1>3, <1>9 DEF StartMsgs
  <2>3. Leads(w, v)
    BY <1>2, <1>3, <1>6, <1>8, <1>11, <2>1, <2>2, NoCheckTaken
  <2> QED
    BY <1>1, <2>3 DEF Goes, w
<1>10. CASE job.kind \in {"k", "sr"}
  <2>1. w.tabs.ctrl = "clusters" /\ ~Waits(w) /\ ~v.crashed => ~Waits(v)
    <3> SUFFICES ASSUME w.tabs.ctrl = "clusters", ~Waits(w), ~v.crashed
                 PROVE  ~Waits(v)
      OBVIOUS
    <3>1. b.tabs.ctrl = "clusters" /\ ~h.crashed
      BY <1>2, <1>8 DEF Alike
    <3>2. CASE job.kind = "k"
      <4>1. h.awaits
        BY <1>3, <1>6, <3>1, <3>2 DEF Handled
      <4>2. "k" \in Kinds(v.jobs)
        BY <1>8, <3>2, <4>1
      <4> QED
        BY <4>2 DEF Waits, ClusterChecks
    <3>3. CASE job.kind = "sr"
      <4>1. v.locked => "k" \in Kinds(v.jobs)
        <5>1. v.locked => w.locked
          BY <1>2, <1>3, <1>6, <1>8, <3>3 DEF Handled, Alike
        <5>2. w.locked => "k" \in Kinds(jobs)
          BY <1>4 DEF Waits
        <5>3. "k" \in Kinds(jobs) => "k" \in Kinds(b.jobs)
          BY <1>2, <3>3
        <5>4. Kinds(b.jobs) \subseteq Kinds(v.jobs)
          BY <1>6, <1>8 DEF Handled
        <5> QED
          BY <5>1, <5>2, <5>3, <5>4
      <4>2. Loading(v) => Kinds(v.jobs) \cap ClusterChecks # {}
        <5>1. h.awaits \/ h.page.kind = "list"
          BY <1>3, <1>6, <3>1, <3>3 DEF Handled
        <5>2. h.page.kind = "list" => ~Loading(v)
          BY <1>8 DEF Alike, Loading
        <5>3. h.awaits => "sr" \in Kinds(v.jobs)
          BY <1>8, <3>3
        <5> QED
          BY <5>1, <5>2, <5>3 DEF ClusterChecks
      <4> QED
        BY <4>1, <4>2 DEF Waits
    <3> QED
      BY <1>10, <3>2, <3>3
  <2>2. Leads(w, v)
    BY <1>2, <1>3, <1>6, <1>8, <1>11, <2>1, Framed
  <2> QED
    BY <1>1, <2>2 DEF Goes, w
<1> QED
  BY <1>1, <1>9, <1>10 DEF Checks

LEMMA AfterSet ==
  ASSUME NEW w, WorldOK(w), NEW after \in Afters
  PROVE  LET u == [w EXCEPT !.after = after]
         IN  WorldOK(u) /\ Alike(w, u) /\ u.jobs = w.jobs
<1> DEFINE u == [w EXCEPT !.after = after]
<1>1. u \in Worlds /\ Alike(w, u) /\ u.jobs = w.jobs
  BY DEF WorldOK, Worlds, Alike
<1> HIDE DEF u
<1>2. WorldOK(u)
  BY <1>1 DEF WorldOK, Alike
<1> QED
  BY <1>1, <1>2 DEF u

LEMMA AnswerGoes ==
  ASSUME WorldOK(Now), Duty(Now), NEW row \in Rows, NEW i \in DOMAIN jobs,
         NEW answer \in {OkBy, ErrBy}, CheckAnswered(i, answer, row)
  PROVE  Goes
<1> DEFINE w == Now
           job == jobs[i]
           left == WithoutJob(i)
           b == [Apart(left) EXCEPT !.after = <<job>>]
           msg == Message(answer[job.kind])
           h == Handle(b, msg, TRUE, row)
<1>1. Become(h) /\ job.kind \in Checks
  BY DEF CheckAnswered
<1>2. /\ WorldOK(b) /\ Alike(w, b)
      /\ Kinds(jobs) \subseteq Kinds(b.jobs) \cup {job.kind}
      /\ Duties(b.jobs) = {}
  <2>1. /\ WorldOK(left) /\ Alike(w, left) /\ job \in Jobs
        /\ Kinds(jobs) \subseteq Kinds(left.jobs) \cup {job.kind}
    BY WithoutJobSteps
  <2>2. <<job>> \in Afters
    BY <1>1, <2>1 DEF Jobs, Afters
  <2> DEFINE apart == Apart(left)
             after == <<job>>
  <2>3. /\ WorldOK(apart) /\ Alike(left, apart) /\ Kinds(apart.jobs) = Kinds(left.jobs)
        /\ Duties(apart.jobs) = {}
    BY <2>1, ApartSteps
  <2> HIDE DEF w, left, apart, after, job
  <2>4. LET u == [apart EXCEPT !.after = after]
        IN  WorldOK(u) /\ Alike(apart, u) /\ u.jobs = apart.jobs
    BY <2>2, <2>3, AfterSet DEF after
  <2> QED
    BY <2>1, <2>3, <2>4 DEF Alike, apart, after
<1>3. /\ MsgOK(msg)
      /\ job.kind = "k" => msg.type \in {"kOk", "kErr"}
      /\ job.kind = "sr" => msg.type \in {"srOk", "srErr"}
      /\ job.kind = "kc" => msg.type \in {"kcOk", "kcErr"}
  <2> DEFINE type == answer[job.kind]
  <2>1. /\ job.kind = "k" => type \in {"kOk", "kErr"}
        /\ job.kind = "sr" => type \in {"srOk", "srErr"}
        /\ job.kind = "kc" => type \in {"kcOk", "kcErr"}
        /\ type \in {"kOk", "kErr", "srOk", "srErr", "kcOk", "kcErr"}
    BY <1>1 DEF OkBy, ErrBy, Checks
  <2> HIDE DEF type
  <2>2. MsgOK(Message(type)) /\ Message(type).type = type
    BY <2>1, PlainMessages
  <2> QED
    BY <2>1, <2>2 DEF type
<1>4. w.jobs = jobs
  BY NowIs
<1> HIDE DEF w, job, b, msg
<1>5. row \in ConnectNames \cup {NoItem}
  BY RowsOK
<1>6. Handled(b, msg, h)
  BY <1>2, <1>3, <1>5, HandleSteps
<1> HIDE DEF h
<1>8. WorldOK(h) /\ Alike(h, h)
  BY <1>6 DEF Handled, Alike
<1>11. Duty(b)
  BY <1>2 DEF Duty
<1>9. CASE job.kind = "kc"
  <2>1. Kinds(w.jobs) \cap ClusterChecks \subseteq Kinds(b.jobs)
    BY <1>2, <1>4, <1>9 DEF ClusterChecks
  <2>2. msg.type \notin StartMsgs
    BY <1>3, <1>9 DEF StartMsgs
  <2>3. Leads(w, h)
    BY <1>2, <1>6, <1>8, <1>11, <2>1, <2>2, NoCheckTaken
  <2> QED
    BY <1>1, <2>3 DEF Goes, w
<1>10. CASE job.kind \in {"k", "sr"}
  <2>1. w.tabs.ctrl = "clusters" /\ ~Waits(w) /\ ~h.crashed => ~Waits(h)
    <3> SUFFICES ASSUME w.tabs.ctrl = "clusters", ~Waits(w), ~h.crashed
                 PROVE  ~Waits(h)
      OBVIOUS
    <3>1. b.tabs.ctrl = "clusters" /\ ~h.crashed
      BY <1>2, <1>8 DEF Alike
    <3>2. ~Loading(h)
      <4>1. msg.type \in AnswerMsgs
        BY <1>3, <1>10 DEF AnswerMsgs
      <4> QED
        BY <1>6, <3>1, <4>1 DEF Handled
    <3>3. h.locked => "k" \in Kinds(h.jobs)
      <4>1. CASE job.kind = "k"
        BY <1>3, <1>6, <1>8, <4>1 DEF Handled, Alike
      <4>2. CASE job.kind = "sr"
        <5>1. h.locked => w.locked
          BY <1>2, <1>3, <1>6, <1>8, <4>2 DEF Handled, Alike
        <5>2. w.locked => "k" \in Kinds(jobs)
          BY <1>4 DEF Waits
        <5>3. "k" \in Kinds(jobs) => "k" \in Kinds(b.jobs)
          BY <1>2, <4>2
        <5>4. Kinds(b.jobs) \subseteq Kinds(h.jobs)
          BY <1>6, <1>8 DEF Handled
        <5> QED
          BY <5>1, <5>2, <5>3, <5>4
      <4> QED
        BY <1>10, <4>1, <4>2
    <3> QED
      BY <3>2, <3>3 DEF Waits
  <2>2. Leads(w, h)
    BY <1>2, <1>6, <1>8, <1>11, <2>1, Framed
  <2> QED
    BY <1>1, <2>2 DEF Goes, w
<1> QED
  BY <1>1, <1>9, <1>10 DEF Checks

LEMMA MessageOfOK ==
  ASSUME clusters \in Clusters, NEW job \in Jobs, job.kind \notin Checks \cup Commands
  PROVE  MsgOK(MessageOf(job)) /\ MessageOf(job).type \notin StartMsgs
<1>1. job.kind \in Events
  BY DEF Jobs, AnyJob
<1>2. CASE job.kind \in {"registered", "switched"}
  <2> DEFINE c == PointedTo(job)
  <2>1. MessageOf(job) = [type |-> job.kind, cluster |-> c]
    BY <1>2 DEF MessageOf
  <2>2. /\ c \in Cluster \cup {NoCluster}
        /\ job.kind = "registered" => c \in Cluster
    <3>1. c = job.of \/ c \in {clusters[i] : i \in DOMAIN clusters}
      BY DEF PointedTo
    <3>2. \A i \in DOMAIN clusters : clusters[i] \in Cluster
      BY DEF Clusters
    <3> QED
      BY <1>2, <3>1, <3>2 DEF Jobs
  <2> HIDE DEF c
  <2> QED
    BY <1>2, <2>1, <2>2 DEF MsgOK, StartMsgs
<1>3. CASE job.kind = "connectDeleted"
  <2>1. MessageOf(job) = [type |-> job.kind, name |-> job.of]
    BY <1>3 DEF MessageOf
  <2> QED
    BY <1>3, <2>1 DEF MsgOK, StartMsgs
<1>4. CASE job.kind \in {"deleted", "refused", "connErr"}
  <2>1. MessageOf(job) = Message(job.kind)
    BY <1>4 DEF MessageOf
  <2> QED
    BY <1>4, <2>1, PlainMessages DEF StartMsgs
<1> QED
  BY <1>1, <1>2, <1>3, <1>4 DEF Events

LEMMA DeliverGoes ==
  ASSUME WorldOK(Now), Duty(Now), NEW row \in Rows, NEW i \in DOMAIN jobs, NEW reached,
         Deliver(i, reached, row)
  PROVE  Goes
<1> DEFINE w == Now
           job == jobs[i]
           left == WithoutJob(i)
           b == Apart(left)
           msg == MessageOf(job)
           h == Handle(b, msg, reached, row)
<1>1. Become(h) /\ job.kind \notin Checks \cup Commands
  BY DEF Deliver
<1>2. /\ WorldOK(b) /\ Alike(w, b) /\ job \in Jobs
      /\ Kinds(jobs) \subseteq Kinds(b.jobs) \cup {job.kind}
      /\ Duties(b.jobs) = {}
  <2>1. /\ WorldOK(left) /\ Alike(w, left) /\ job \in Jobs
        /\ Kinds(jobs) \subseteq Kinds(left.jobs) \cup {job.kind}
    BY WithoutJobSteps
  <2>2. /\ WorldOK(b) /\ Alike(left, b) /\ Kinds(b.jobs) = Kinds(left.jobs)
        /\ Duties(b.jobs) = {}
    BY <2>1, ApartSteps
  <2> HIDE DEF w, left, b, job
  <2> QED
    BY <2>1, <2>2 DEF Alike
<1> HIDE DEF job
<1>3. MsgOK(msg) /\ msg.type \notin StartMsgs
  <2>1. clusters \in Clusters
    BY NowIs DEF WorldOK, Worlds
  <2> QED
    BY <1>1, <1>2, <2>1, MessageOfOK
<1>4. w.jobs = jobs
  BY NowIs
<1> HIDE DEF w, b, msg
<1>5. row \in ConnectNames \cup {NoItem}
  BY RowsOK
<1>6. Handled(b, msg, h)
  BY <1>2, <1>3, <1>5, HandleSteps
<1> HIDE DEF h
<1>7. Duty(b)
  BY <1>2 DEF Duty
<1>8. WorldOK(h) /\ Alike(h, h)
  BY <1>6 DEF Handled, Alike
<1>9. Kinds(w.jobs) \cap ClusterChecks \subseteq Kinds(b.jobs)
  BY <1>1, <1>2, <1>4 DEF ClusterChecks, Checks
<1>10. Leads(w, h)
  BY <1>2, <1>3, <1>6, <1>7, <1>8, <1>9, NoCheckTaken
<1> QED
  BY <1>1, <1>10 DEF Goes, w

LEMMA HideGoes ==
  ASSUME WorldOK(Now), Duty(Now), NEW row \in Rows, NEW left \in BOOLEAN,
         HideNotification(left, row)
  PROVE  Goes
<1> DEFINE w == Now
           timer1 == w.timer /\ ~left
           u == [w EXCEPT !.timer = timer1]
           b == Apart(u)
           h == Handle(b, Hide, TRUE, row)
<1>1. Become(h)
  BY NowIs DEF HideNotification
<1>2. w \in Worlds
  BY DEF WorldOK
<1>3. WorldOK(w)
  OBVIOUS
<1> HIDE DEF w
<1>4. timer1 \in BOOLEAN
  OBVIOUS
<1> HIDE DEF timer1
<1>5. u \in Worlds /\ Alike(w, u) /\ u.jobs = w.jobs
  BY <1>2, <1>4 DEF Worlds, Alike
<1> HIDE DEF u
<1>6. WorldOK(u)
  BY <1>3, <1>5 DEF WorldOK, Alike
<1>7. WorldOK(b) /\ Alike(u, b) /\ Kinds(b.jobs) = Kinds(u.jobs) /\ Duties(b.jobs) = {}
  BY <1>6, ApartSteps
<1> HIDE DEF b
<1>8. MsgOK(Hide) /\ Hide.type \notin StartMsgs
  BY DEF Hide, MsgOK, StartMsgs
<1>9. row \in ConnectNames \cup {NoItem}
  BY RowsOK
<1>10. Handled(b, Hide, h)
  BY <1>7, <1>8, <1>9, HandleSteps
<1> HIDE DEF h
<1>11. WorldOK(h) /\ Alike(h, h)
  BY <1>10 DEF Handled, Alike
<1>12. Alike(w, b) /\ Kinds(w.jobs) \cap ClusterChecks \subseteq Kinds(b.jobs)
  BY <1>5, <1>7 DEF Alike
<1>13. Duty(b)
  BY <1>7 DEF Duty
<1>14. Leads(w, h)
  BY <1>7, <1>8, <1>10, <1>11, <1>12, <1>13, NoCheckTaken
<1> QED
  BY <1>1, <1>14 DEF Goes, w

-----------------------------------------------------------------------------
(* The invariant.                                                          *)

Inv == user \in Sessions /\ WorldOK(Now) /\ Duty(Now)

LEMMA StartTyped ==
  ASSUME NEW cs \in Clusters
  PROVE  WorldOK(AtStart(cs)) /\ Duty(AtStart(cs))
<1> DEFINE w == AtStart(cs)
           t == [offered |-> <<"clusters">>, bar |-> "clusters", synced |-> "none",
                 ctrl |-> "clusters", back |-> FALSE]
           p == FirstPage(cs)
<1>1. p \in ListPages \cup FormPages /\ (p.kind = "list" => ListOK(p))
  <2>1. FormPage(CreatePage) \in FormPages /\ FormPage(CreatePage).kind = "form"
    BY CreatePageTyped, PageKinds DEF FormPage, FormPages
  <2>2. ListPage(cs) \in ListPages /\ ListOK(ListPage(cs))
    BY NewListPageOK DEF ListOK
  <2> QED
    BY <2>1, <2>2 DEF FirstPage
<1>2. TabsOK(t)
  <2> DEFINE o == <<"clusters">>
  <2>1. o \in Seq(Labels) /\ 1 \in DOMAIN o /\ o[1] = "clusters"
    BY DEF Labels
  <2>2. t = [offered |-> o, bar |-> "clusters", synced |-> "none", ctrl |-> "clusters",
             back |-> FALSE]
    OBVIOUS
  <2> HIDE DEF o, t
  <2>3. "clusters" \in ToSet(o)
    BY <2>1 DEF ToSet
  <2> QED
    BY <2>1, <2>2, <2>3 DEF TabsOK, TabStates, Labels
<1>3. <<>> \in Seq(Jobs) /\ ToSet(<<>>) = {}
  BY DEF ToSet
<1>4. <<>> \in Afters
  BY DEF Afters
<1>5. w = [clusters |-> cs, page |-> p, tabs |-> t, locked |-> FALSE, connErr |-> FALSE,
           client |-> NoCluster, jobs |-> <<>>, timer |-> FALSE,
           crashed |-> FALSE, awaits |-> FALSE, after |-> <<>>]
  BY DEF AtStart
<1> HIDE DEF w, t, p
<1>6. /\ w \in Worlds /\ w.tabs = t /\ w.page = p /\ w.jobs = <<>>
  BY <1>1, <1>2, <1>3, <1>4, <1>5 DEF Worlds, TabsOK
<1>7. WorldOK(w) /\ Duty(w)
  BY <1>1, <1>2, <1>3, <1>6 DEF WorldOK, Finders, Duty, Duties
<1> QED
  BY <1>7 DEF w

LEMMA SameWorld ==
  ASSUME NEW v, WorldOK(v),
         Now = [clusters |-> v.clusters, page |-> v.page, tabs |-> v.tabs,
                locked |-> v.locked, connErr |-> v.connErr, client |-> v.client,
                jobs |-> v.jobs, timer |-> v.timer, crashed |-> v.crashed,
                awaits |-> FALSE, after |-> <<>>]
  PROVE  WorldOK(Now) /\ Alike(v, Now) /\ Now.jobs = v.jobs
<1> DEFINE w == Now
<1>1. v \in Worlds
  BY DEF WorldOK
<1> HIDE DEF w
<1>2. w \in Worlds /\ Alike(v, w) /\ w.jobs = v.jobs
  BY <1>1 DEF Worlds, Afters, Alike, w
<1>3. WorldOK(w)
  BY <1>2 DEF WorldOK, Alike
<1> QED
  BY <1>2, <1>3 DEF w

LEMMA Initially == Init => Inv
<1> SUFFICES ASSUME Init PROVE Inv
  OBVIOUS
<1>1. PICK s \in Sessions, reached \in BOOLEAN :
        user = s /\ InitFrom(Started(s.clusters, reached))
  BY DEF Init
<1> DEFINE cs == s.clusters
           v == Started(cs, reached)
<1>2. cs \in Clusters
  BY SessionsAssumption DEF Clusters
<1> HIDE DEF cs
<1>3. WorldOK(v) /\ Duty(v)
  <2>1. WorldOK(AtStart(cs)) /\ Duty(AtStart(cs))
    BY <1>2, StartTyped
  <2>2. ActiveCluster(cs) \in Cluster \cup {NoCluster}
    BY <1>2, ActiveTyped
  <2>3. Booted(AtStart(cs), BootstrapUI(AtStart(cs), ActiveCluster(cs), reached))
    BY <2>1, <2>2, BootstrapSteps
  <2>4. \A w : Booted(AtStart(cs), w) => Duty(w)
    BY <2>1 DEF Booted, Anew, Duty, Ready
  <2> QED
    BY <2>1, <2>3, <2>4 DEF Started, Booted
<1>4. InitFrom(v)
  BY <1>1 DEF cs
<1> HIDE DEF v
<1>5. WorldOK(Now) /\ Alike(v, Now) /\ Now.jobs = v.jobs
  BY <1>3, <1>4, SameWorld DEF InitFrom, Now
<1>6. Duty(Now)
  BY <1>3, <1>5, AlikeDuty
<1> QED
  BY <1>1, <1>5, <1>6 DEF Inv

LEMMA BecomeIs ==
  ASSUME NEW v, WorldOK(v), Become(v)
  PROVE  /\ WorldOK(Now)' /\ Alike(v, Now') /\ (Now').jobs = v.jobs
         /\ user' = user
<1> DEFINE w == Now'
<1>1. /\ w = [clusters |-> v.clusters, page |-> v.page, tabs |-> v.tabs,
              locked |-> v.locked, connErr |-> v.connErr, client |-> v.client,
              jobs |-> v.jobs, timer |-> v.timer, crashed |-> v.crashed,
              awaits |-> FALSE, after |-> <<>>]
      /\ user' = user
  BY DEF Become, Now
<1>2. v \in Worlds
  BY DEF WorldOK
<1> HIDE DEF w
<1>3. w \in Worlds /\ Alike(v, w) /\ w.jobs = v.jobs
  BY <1>1, <1>2 DEF Worlds, Afters, Alike
<1>4. WorldOK(w)
  BY <1>3 DEF WorldOK, Alike
<1> QED
  BY <1>1, <1>3, <1>4 DEF w

LEMMA StepIs ==
  ASSUME Inv, [Next]_vars
  PROVE  Goes \/ UNCHANGED vars
<1>1. user \in Sessions /\ WorldOK(Now) /\ Duty(Now)
  BY DEF Inv
<1>2. ASSUME NEW row \in Rows, NEW msg \in user.inputs, Press(msg, row) PROVE Goes
  BY <1>1, <1>2, PressGoes
<1>3. ASSUME NEW i \in DOMAIN jobs, CommandRuns(i) PROVE Goes
  BY <1>1, <1>3, CommandGoes
<1>4. ASSUME NEW row \in Rows, NEW i \in DOMAIN jobs, CheckStarts(i, row) PROVE Goes
  BY <1>1, <1>4, StartGoes
<1>5. ASSUME NEW row \in Rows, NEW i \in DOMAIN jobs, NEW answer \in {OkBy, ErrBy},
             CheckAnswered(i, answer, row)
      PROVE Goes
  BY <1>1, <1>5, AnswerGoes
<1>6. ASSUME NEW row \in Rows, NEW i \in DOMAIN jobs, NEW reached \in BOOLEAN,
             Deliver(i, reached, row)
      PROVE Goes
  BY <1>1, <1>6, DeliverGoes
<1>7. ASSUME NEW row \in Rows, NEW left \in BOOLEAN, HideNotification(left, row) PROVE Goes
  BY <1>1, <1>7, HideGoes
<1> QED
  BY <1>2, <1>3, <1>4, <1>5, <1>6, <1>7 DEF Next

LEMMA GoesTo ==
  ASSUME Goes
  PROVE  /\ WorldOK(Now)' /\ Duty(Now)' /\ user' = user
         /\ \E v : /\ Leads(Now, v) /\ Alike(v, Now') /\ (Now').jobs = v.jobs
<1>1. PICK v : Leads(Now, v) /\ Become(v)
  BY DEF Goes
<1>2. WorldOK(v) /\ Duty(v)
  BY <1>1 DEF Leads
<1>3. WorldOK(Now)' /\ Alike(v, Now') /\ (Now').jobs = v.jobs /\ user' = user
  BY <1>1, <1>2, BecomeIs
<1>4. Duty(Now)'
  <2> DEFINE w == Now'
  <2>1. Alike(v, w) /\ w.jobs = v.jobs
    BY <1>3
  <2> HIDE DEF w
  <2>2. Duty(w)
    BY <1>2, <2>1, AlikeDuty
  <2> QED
    BY <2>2 DEF w
<1> QED
  BY <1>1, <1>3, <1>4

LEMMA Inductive == Inv /\ [Next]_vars => Inv'
<1> SUFFICES ASSUME Inv, [Next]_vars PROVE Inv'
  OBVIOUS
<1>1. user \in Sessions /\ WorldOK(Now) /\ Duty(Now)
  BY DEF Inv
<1>2. WorldOK(Now)' /\ Duty(Now)' /\ user' = user
  <2>1. CASE UNCHANGED vars
    <3>1. Now' = Now /\ user' = user
      BY <2>1 DEF vars, Now
    <3> QED
      BY <1>1, <3>1
  <2>2. CASE Goes
    BY <2>2, GoesTo
  <2> QED
    BY <2>1, <2>2, StepIs
<1> QED
  BY <1>1, <1>2 DEF Inv

(* Types, commands that find their page, tabs shown as marked; and as long *)
(* as a confirmed deletion is undisturbed, what its command will find is   *)
(* the cluster the prompt named: for every number of clusters, users and   *)
(* messages.                                                               *)
THEOREM Invariant == Spec => []Inv
<1> QED
  BY Initially, Inductive, PTL DEF Spec

(* What the forms register is a cluster, the page and the tabs keep their  *)
(* types, whatever is pressed, edited or answered, and whenever a command  *)
(* runs.                                                                   *)
THEOREM TypesKept == Spec => []TypeOK
<1>1. Inv => TypeOK
  <2> SUFFICES ASSUME Inv PROVE TypeOK
    OBVIOUS
  <2>1. /\ Now \in Worlds /\ TabsOK(tabs)
        /\ page.kind = "list" => ListOK(page)
    BY NowIs DEF Inv, WorldOK
  <2>2. /\ clusters \in Clusters /\ page \in ListPages \cup FormPages
        /\ locked \in BOOLEAN /\ connErr \in BOOLEAN /\ timer \in BOOLEAN
        /\ crashed \in BOOLEAN
    BY <2>1, NowIs DEF Worlds
  <2>3. ASSUME page.kind = "form" PROVE FormOK(page.form)
    <3> DEFINE f == page.form
    <3>1. f \in Forms
      BY <2>2, <2>3, PageKinds
    <3> HIDE DEF f
    <3>2. f.kc \in KcForms
      BY <3>1 DEF Forms
    <3>3. /\ f.kc.state \in {"entering", "listing", "registering"}
          /\ f.kc.clusters \in ConnectLists
      BY <3>2 DEF KcForms
    <3>4. ToSet(f.kc.clusters) \subseteq Connects \cup {NoConnect}
      BY <3>3, ToSetTyped DEF ConnectLists, ConnectNames
    <3>5. FormOK(f)
      BY <3>1, <3>3, <3>4 DEF FormOK, Forms, MaybeNames
    <3> QED
      BY <3>5 DEF f
  <2>4. ASSUME page.kind # "form"
        PROVE  /\ page.bars \in Bars
               /\ page.rows \in Seq(Names) /\ page.cursor \in 0 .. Len(page.rows)
    <3>1. page \in ListPages
      BY <2>2, <2>4, PageKinds
    <3>2. page.cursor <= Len(page.rows)
      BY <2>1, <3>1, PageKinds DEF ListOK
    <3> QED
      BY <3>1, <3>2 DEF ListPages
  <2>5. /\ tabs.bar \in ToSet(tabs.offered) /\ ToSet(tabs.offered) \subseteq Labels
        /\ tabs.ctrl \in Labels
    BY <2>1, InOffered DEF TabsOK, TabStates
  <2> QED
    BY <2>2, <2>3, <2>4, <2>5 DEF TypeOK, Clusters
<1> QED
  BY <1>1, Invariant, PTL

(* Whatever is chosen in a cluster's form, and in whatever order, the form *)
(* asks for what its values call for.                                      *)
THEOREM FieldsInStep == Spec => FieldsFollow
<1>1. Inv /\ [Next]_vars =>
        [(page.kind = "form" => OnClusterTab /\ InStep(page.form)) /\ OnClusterTab'
           => InStep(page'.form)]_vars
  <2> SUFFICES ASSUME Inv, [Next]_vars, page.kind = "form" => OnClusterTab /\ InStep(page.form),
                      OnClusterTab'
               PROVE  InStep(page'.form)
    OBVIOUS
  <2>1. CASE page' = page
    BY <2>1 DEF OnClusterTab
  <2>2. CASE Goes
    <3>1. PICK v : Leads(Now, v) /\ Alike(v, Now')
      BY <2>2, GoesTo
    <3>2. (Now').page = page' /\ Now.page = page
      BY DEF Now
    <3>3. CFormOnly(Now)
      BY <3>2 DEF CFormOnly, OnClusterTab
    <3>4. CFormOK(v) /\ v.page = page'
      BY <3>1, <3>2, <3>3 DEF Leads, Alike
    <3> QED
      BY <3>4 DEF CFormOK, OnClusterTab
  <2>3. UNCHANGED vars => page' = page
    BY DEF vars
  <2> QED
    BY <2>1, <2>2, <2>3, StepIs
<1> QED
  BY <1>1, Invariant, PTL DEF Spec, FieldsFollow

(* What the command of a confirmed deletion finds, if nothing happened     *)
(* since to the prompt, the page or the configuration.                     *)
LEMMA PromptedIsDeleted ==
  ASSUME WorldOK(Now), Duty(Now), NEW i \in DOMAIN jobs,
         jobs[i].kind = "delete", jobs[i].alone, CommandRuns(i)
  PROVE  /\ clusters' = Deleted(clusters, jobs[i].of)
         /\ jobs[i].of # ActiveCluster(clusters).name
<1> DEFINE job == jobs[i]
           n == job.of
           b == Apart(WithoutJob(i))
<1>1. <<n, job.held>> \in Duties(jobs)
  BY DEF Duties, ToSet
<1>2. job.held = <<>> /\ Ready(Now, n)
  BY <1>1, NowIs DEF Duty
<1>3. /\ page.kind = "list" /\ Selected(page) = n /\ n \in Deletable(clusters)
  BY <1>2, NowIs DEF Ready
<1>4. n \in Names /\ n # NoName /\ n # ActiveCluster(clusters).name
  BY <1>3, NamesAreItems DEF Deletable
<1>5. FoundBy(job) = n
  BY <1>2, <1>3 DEF FoundBy, ReadOn
<1>6. WorldOK(b) /\ b.clusters = clusters
  <2>1. WorldOK(WithoutJob(i)) /\ Alike(Now, WithoutJob(i))
    BY WithoutJobSteps
  <2> DEFINE left == WithoutJob(i)
  <2> HIDE DEF left
  <2>2. WorldOK(Apart(left)) /\ Alike(left, Apart(left))
    BY <2>1, ApartSteps DEF left
  <2> QED
    BY <2>1, <2>2, NowIs DEF Alike, left
<1>7. Become(DeleteSelected(b, n))
  BY <1>5 DEF CommandRuns, Done
<1> HIDE DEF b
<1>8. DeleteSelected(b, n).clusters = Deleted(clusters, n)
  BY <1>4, <1>6, DeleteSelectedSteps DEF MaybeNames
<1> QED
  BY <1>4, <1>7, <1>8 DEF Become

(* The command of a confirmed deletion reads the row under the cursor when *)
(* it runs.  For every order of keys, messages and other commands, that is *)
(* the row the prompt named, and not the active cluster's, unless one of   *)
(* the events that `alone` records happened in between; and nothing but    *)
(* other rows makes an open prompt name another row.                       *)
THEOREM OnlyThePromptedGo == Spec => DeletedIsPrompted
<1>1. Inv /\ [Next]_vars =>
        [/\ \A i \in DOMAIN jobs :
               jobs[i].kind = "delete" /\ jobs[i].alone /\ CommandRuns(i) =>
                 /\ clusters' = Deleted(clusters, jobs[i].of)
                 /\ jobs[i].of # ActiveCluster(clusters).name
         /\ page.kind = "list" /\ ~Misnamed(page) /\ Misnamed(page') =>
               page'.rows # page.rows]_vars
  <2> SUFFICES ASSUME Inv, [Next]_vars
               PROVE  /\ \A i \in DOMAIN jobs :
                           jobs[i].kind = "delete" /\ jobs[i].alone /\ CommandRuns(i) =>
                             /\ clusters' = Deleted(clusters, jobs[i].of)
                             /\ jobs[i].of # ActiveCluster(clusters).name
                      /\ page.kind = "list" /\ ~Misnamed(page) /\ Misnamed(page') =>
                           page'.rows # page.rows
    OBVIOUS
  <2>1. WorldOK(Now) /\ Duty(Now)
    BY DEF Inv
  <2>2. ASSUME NEW i \in DOMAIN jobs, jobs[i].kind = "delete", jobs[i].alone, CommandRuns(i)
        PROVE  /\ clusters' = Deleted(clusters, jobs[i].of)
               /\ jobs[i].of # ActiveCluster(clusters).name
    BY <2>1, <2>2, PromptedIsDeleted
  <2>3. ASSUME page.kind = "list", ~Misnamed(page), Misnamed(page')
        PROVE  page'.rows # page.rows
    <3>1. CASE UNCHANGED vars
      <4>1. page' = page
        BY <3>1 DEF vars
      <4> QED
        BY <2>3, <4>1
    <3>2. CASE Goes
      <4>1. PICK v : Leads(Now, v) /\ Alike(v, Now')
        BY <3>2, GoesTo
      <4>2. (Now').page = page' /\ Now.page = page
        BY DEF Now
      <4>3. v.page = page' /\ NameGoes(Now, v)
        BY <4>1, <4>2 DEF Leads, Alike
      <4> QED
        BY <2>3, <4>2, <4>3 DEF NameGoes
    <3> QED
      BY <3>1, <3>2, StepIs
  <2> QED
    BY <2>2, <2>3
<1> QED
  BY <1>1, Invariant, PTL DEF Spec, DeletedIsPrompted

LEMMA WaitingIs == Waiting <=> Waits(Now)
<1>1. /\ (\E i \in DOMAIN jobs : jobs[i].kind = "k") <=> "k" \in Kinds(jobs)
      /\ (\E i \in DOMAIN jobs : jobs[i].kind \in {"k", "sr"})
           <=> Kinds(jobs) \cap ClusterChecks # {}
  BY DEF Kinds, ToSet, ClusterChecks
<1> QED
  BY <1>1, NowIs DEF Waiting, Waits, Loading

(* As long as the clusters tab is shown, the tabs are not left locked nor  *)
(* a form waiting without a check: who a check's message reaches waits for *)
(* its answer, and who the answer reaches waits no more.                   *)
THEOREM WaitsOnlyByLeaving == Spec => WaitsOnlyIfLeft
<1>1. Waiting' <=> Waits(Now)'
  BY WaitingIs, PTL
<1>2. Inv /\ [Next]_vars => [~Waiting /\ Waiting' /\ ~crashed' => tabs.ctrl # "clusters"]_vars
  <2> SUFFICES ASSUME Inv, [Next]_vars, ~Waiting, Waiting', ~crashed', tabs.ctrl = "clusters"
               PROVE  FALSE
    OBVIOUS
  <2>1. CASE Goes
    <3> DEFINE w == Now
               x == Now'
    <3>1. PICK v : Leads(w, v) /\ Alike(v, x) /\ x.jobs = v.jobs
      BY <2>1, GoesTo
    <3>2. w.tabs.ctrl = "clusters" /\ ~x.crashed
      BY DEF Now
    <3>3. ~Waits(w) /\ Waits(x)
      BY <1>1, WaitingIs
    <3> HIDE DEF w, x
    <3>4. ~v.crashed /\ ~Waits(v)
      BY <3>1, <3>2, <3>3 DEF Leads, Alike
    <3>5. Waits(v) <=> Waits(x)
      BY <3>1 DEF Alike, Waits, Loading
    <3> QED
      BY <3>3, <3>4, <3>5
  <2>2. UNCHANGED vars => Waiting' = Waiting
    BY DEF vars, Waiting
  <2> QED
    BY <2>1, <2>2, StepIs
<1> QED
  BY <1>2, Invariant, PTL DEF Spec, WaitsOnlyIfLeft
=============================================================================
