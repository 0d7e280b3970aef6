------------------------- MODULE CycleSearchProofs -------------------------
(***************************************************************************)
(* The loop of would_create_cycle returns what TaskManager takes it to     *)
(* return, for every finite set of tasks and every store.  The invariant   *)
(* is the usual one of a graph search: the visited ids are closed under    *)
(* dependencies up to what is still on the stack, and nothing is on the    *)
(* stack or visited that every closed set around dep does not hold.  What  *)
(* ends the loop is that an id pushes its dependencies once.               *)
(***************************************************************************)
EXTENDS CycleSearch, FiniteSetTheorems, TLAPS

(* pop_back takes one occurrence of the last id off the stack. *)
LEMMA PopFacts ==
  ASSUME stack \in Seq(Tasks), stack # << >>
  PROVE  /\ Back \in OnStack
         /\ Back \in Tasks
         /\ Popped \in Seq(Tasks)
         /\ OnStack = {Popped[i] : i \in DOMAIN Popped} \cup {Back}
<1>1. Len(stack) \in Nat /\ Len(stack) >= 1 /\ DOMAIN stack = 1 .. Len(stack)
  OBVIOUS
<1>2. Popped \in Seq(Tasks) /\ DOMAIN Popped = 1 .. Len(stack) - 1
      /\ \A i \in 1 .. Len(stack) - 1 : Popped[i] = stack[i]
  BY <1>1 DEF Popped
<1>3. Back \in OnStack /\ Back \in Tasks
  BY <1>1 DEF Back, OnStack
<1>4. OnStack \subseteq {Popped[i] : i \in DOMAIN Popped} \cup {Back}
  <2> SUFFICES ASSUME NEW i \in 1 .. Len(stack), i # Len(stack)
               PROVE  stack[i] \in {Popped[j] : j \in DOMAIN Popped}
    BY <1>1 DEF OnStack, Back
  <2>1. \A n \in Nat : \A k \in 1 .. n : k # n => k \in 1 .. n - 1
    OBVIOUS
  <2>2. i \in 1 .. Len(stack) - 1
    BY <1>1, <2>1
  <2> QED
    BY <2>2, <1>2
<1>5. {Popped[i] : i \in DOMAIN Popped} \subseteq OnStack
  BY <1>1, <1>2 DEF OnStack
<1> QED
  BY <1>2, <1>3, <1>4, <1>5

(* An empty stack holds nothing. *)
LEMMA EmptyStack ==
  ASSUME stack \in Seq(Tasks), stack = << >>
  PROVE  OnStack = {}
<1>1. DOMAIN stack = 1 .. Len(stack)
  OBVIOUS
<1>2. Len(stack) = 0
  OBVIOUS
<1>3. ASSUME NEW i \in DOMAIN stack PROVE FALSE
  BY <1>1, <1>2
<1> QED
  BY <1>3 DEF OnStack

(* Pushing a dependency list puts exactly its members on the stack. *)
LEMMA PushFacts ==
  ASSUME NEW p \in Seq(Tasks), NEW D \in SUBSET Tasks, NEW s \in Orders(D)
  PROVE  /\ p \o s \in Seq(Tasks)
         /\ {(p \o s)[i] : i \in DOMAIN (p \o s)} =
              {p[i] : i \in DOMAIN p} \cup D
<1>1. Cardinality(D) \in Nat
  BY FiniteTasks, FS_Subset, FS_CardinalityType
<1>2. s \in Seq(Tasks) /\ DOMAIN s = 1 .. Cardinality(D) /\ Len(s) = Cardinality(D)
  BY <1>1 DEF Orders
<1>3. D = {s[i] : i \in DOMAIN s}
  BY <1>2 DEF Orders
<1>4. /\ p \o s \in Seq(Tasks)
      /\ DOMAIN p = 1 .. Len(p) /\ Len(p) \in Nat
      /\ DOMAIN (p \o s) = 1 .. Len(p) + Cardinality(D)
  BY <1>1, <1>2
<1>5. \A i \in DOMAIN p : i \in DOMAIN (p \o s) /\ (p \o s)[i] = p[i]
  BY <1>1, <1>2, <1>4
<1>6. \A i \in DOMAIN s : /\ Len(p) + i \in DOMAIN (p \o s)
                          /\ (p \o s)[Len(p) + i] = s[i]
  BY <1>1, <1>2, <1>4
<1>7. ASSUME NEW i \in DOMAIN (p \o s)
      PROVE  i \in DOMAIN p \/ \E j \in DOMAIN s : i = Len(p) + j
  <2> SUFFICES ASSUME i \notin DOMAIN p
               PROVE  i - Len(p) \in DOMAIN s /\ i = Len(p) + (i - Len(p))
    BY Zenon
  <2> QED
    BY <1>1, <1>2, <1>4
<1>8. {(p \o s)[i] : i \in DOMAIN (p \o s)} \subseteq {p[i] : i \in DOMAIN p} \cup D
  BY <1>3, <1>5, <1>6, <1>7
<1>9. {p[i] : i \in DOMAIN p} \subseteq {(p \o s)[i] : i \in DOMAIN (p \o s)}
  BY <1>5
<1>10. D \subseteq {(p \o s)[i] : i \in DOMAIN (p \o s)}
  BY <1>3, <1>6
<1> QED
  BY <1>4, <1>8, <1>9, <1>10
-----------------------------------------------------------------------------
Inv == TypeOK /\ SearchInvariant

LEMMA FoundStep ==
  ASSUME Inv, Turn, Found
  PROVE  Inv'
<1> USE DEF Turn, Found
<1>1. /\ stack \in Seq(Tasks) /\ Back \in OnStack /\ Popped \in Seq(Tasks)
      /\ OnStack = {Popped[i] : i \in DOMAIN Popped} \cup {Back}
  BY PopFacts DEF Inv, TypeOK
<1>2. TypeOK'
  BY <1>1 DEF Inv, TypeOK
<1>3. OnStack' \subseteq OnStack
  BY <1>1 DEF OnStack
<1>4. TM!WouldCreateCycle(id, dep)
  BY <1>1 DEF Inv, SearchInvariant, TM!WouldCreateCycle
<1>5. TM!WouldCreateCycle(id, dep)'
  BY <1>4 DEF TM!WouldCreateCycle, TM!Depends, TM!Stored
<1>6. SearchInvariant'
  BY <1>1, <1>3, <1>5 DEF Inv, SearchInvariant, TM!Depends, TM!Stored
<1> QED
  BY <1>2, <1>6 DEF Inv

LEMMA SkipStep ==
  ASSUME Inv, Turn, Skip
  PROVE  Inv'
<1> USE DEF Turn, Skip
<1>1. /\ stack \in Seq(Tasks) /\ Back \in OnStack /\ Popped \in Seq(Tasks)
      /\ OnStack = {Popped[i] : i \in DOMAIN Popped} \cup {Back}
  BY PopFacts DEF Inv, TypeOK
<1>2. TypeOK'
  BY <1>1 DEF Inv, TypeOK
<1>3. OnStack' = {Popped[i] : i \in DOMAIN Popped}
  BY DEF OnStack
<1>4. visited' \cup OnStack' = visited \cup OnStack
  BY <1>1, <1>3
<1>5. SearchInvariant'
  BY <1>4 DEF Inv, SearchInvariant, TM!Depends, TM!Stored
<1> QED
  BY <1>2, <1>5 DEF Inv

LEMMA VisitStep ==
  ASSUME Inv, Turn, Visit
  PROVE  Inv'
<1> USE DEF Turn, Visit
<1> DEFINE D == TM!Depends(Back)
<1>1. /\ stack \in Seq(Tasks) /\ Back \in OnStack /\ Popped \in Seq(Tasks)
      /\ OnStack = {Popped[i] : i \in DOMAIN Popped} \cup {Back}
      /\ Back \in Tasks
  BY PopFacts DEF Inv, TypeOK
<1>2. D \in SUBSET Tasks
  BY DEF Inv, TypeOK, TM!Depends, TM!Stored
<1>3. PICK s \in Orders(D) : stack' = Popped \o s
  BY DEF Visit
<1>4. /\ stack' \in Seq(Tasks)
      /\ OnStack' = {Popped[i] : i \in DOMAIN Popped} \cup D
  <2> HIDE DEF D
  <2>1. /\ Popped \o s \in Seq(Tasks)
        /\ {(Popped \o s)[i] : i \in DOMAIN (Popped \o s)} =
             {Popped[i] : i \in DOMAIN Popped} \cup D
    BY <1>1, <1>2, PushFacts
  <2>2. OnStack' = {(Popped \o s)[i] : i \in DOMAIN (Popped \o s)}
    BY <1>3 DEF OnStack
  <2> QED
    BY <1>3, <2>1, <2>2
<1>5. TypeOK'
  BY <1>1, <1>4 DEF Inv, TypeOK
<1>6. visited' \cup OnStack' = visited \cup OnStack \cup D
  BY <1>1, <1>4
<1>7. \A x : TM!Depends(x)' = TM!Depends(x)
  BY DEF TM!Depends, TM!Stored
<1>8. \A x \in visited' : TM!Depends(x)' \subseteq visited' \cup OnStack'
  BY <1>6, <1>7 DEF Inv, SearchInvariant
<1>9. ASSUME NEW C \in SUBSET Tasks, dep \in C,
             \A x \in C : TM!Depends(x) \subseteq C
      PROVE  visited' \cup OnStack' \subseteq C
  BY <1>1, <1>6, <1>9 DEF Inv, SearchInvariant
<1>10. SearchInvariant'
  BY <1>6, <1>7, <1>8, <1>9 DEF Inv, SearchInvariant
<1> QED
  BY <1>5, <1>10 DEF Inv

(* A step that touches neither the store nor the search's data changes at   *)
(* most the answer, to "no cycle" and only on an empty stack.              *)
LEMMA QuietStep ==
  ASSUME Inv, tasks' = tasks, id' = id, dep' = dep, stack' = stack,
         visited' = visited,
         \/ answer' = answer
         \/ answer' = "no cycle" /\ answer = "searching" /\ stack = << >>
  PROVE  Inv'
<1>1. TypeOK'
  BY DEF Inv, TypeOK
<1>2. OnStack' = OnStack /\ \A x : TM!Depends(x)' = TM!Depends(x)
  BY DEF OnStack, TM!Depends, TM!Stored
<1>3. TM!WouldCreateCycle(id, dep)' = TM!WouldCreateCycle(id, dep)
  BY <1>2 DEF TM!WouldCreateCycle
<1>4. SearchInvariant'
  BY <1>2, <1>3 DEF Inv, SearchInvariant
<1> QED
  BY <1>1, <1>4 DEF Inv

(* The invariant of the search holds of every search. *)
THEOREM SearchCorrect == Spec => [](TypeOK /\ SearchInvariant)
<1>1. Init => Inv
  <2> SUFFICES ASSUME Init PROVE Inv
    OBVIOUS
  <2>1. TypeOK
    BY DEF Init, TypeOK
  <2>2. OnStack = {dep}
    BY DEF Init, OnStack
  <2> QED
    BY <2>1, <2>2 DEF Inv, SearchInvariant, Init
<1>2. Inv /\ [Next]_vars => Inv'
  <2> SUFFICES ASSUME Inv, [Next]_vars PROVE Inv'
    OBVIOUS
  <2>1. CASE Turn
    BY <2>1, FoundStep, SkipStep, VisitStep DEF Turn
  <2>2. CASE GiveUp
    BY <2>2, QuietStep DEF GiveUp
  <2>3. CASE UNCHANGED vars
    BY <2>3, QuietStep DEF vars
  <2> QED
    BY <2>1, <2>2, <2>3 DEF Next
<1> QED
  BY <1>1, <1>2, PTL DEF Spec, Inv

(* Whatever the store, the search answers "cycle" exactly if every closed   *)
(* set around the dependency holds the task: the atomic WouldCreateCycle   *)
(* that TaskManager's proofs rest on is what the loop computes.            *)
THEOREM SearchAnswersRight == Spec => []AnswersRight
<1>1. TypeOK /\ SearchInvariant => AnswersRight
  <2> SUFFICES ASSUME TypeOK, SearchInvariant, answer = "no cycle"
               PROVE  ~TM!WouldCreateCycle(id, dep)
    BY DEF SearchInvariant, AnswersRight
  <2>1. OnStack = {}
    BY EmptyStack DEF TypeOK, SearchInvariant
  <2>2. /\ visited \in SUBSET Tasks /\ dep \in visited /\ id \notin visited
        /\ \A x \in visited : TM!Depends(x) \subseteq visited
    BY <2>1 DEF TypeOK, SearchInvariant
  <2> QED
    BY <2>2 DEF TM!WouldCreateCycle
<1> QED
  BY <1>1, SearchCorrect, PTL

-----------------------------------------------------------------------------
(* How often the loop can turn at most from here on: each id not yet        *)
(* visited can push a list of at most all ids.                             *)
TurnsLeft == Cardinality(Tasks \ visited) * (Cardinality(Tasks) + 1) + Len(stack)

Advances ==
    [][answer = "searching" /\ answer' = "searching" => TurnsLeft' < TurnsLeft]_vars

LEMMA Counts ==
  ASSUME TypeOK
  PROVE  /\ Cardinality(Tasks) \in Nat
         /\ Cardinality(Tasks \ visited) \in Nat
         /\ Len(stack) \in Nat
         /\ TurnsLeft \in Nat
<1>1. Cardinality(Tasks) \in Nat
  BY FiniteTasks, FS_CardinalityType
<1>2. Cardinality(Tasks \ visited) \in Nat
  BY FiniteTasks, FS_Subset, FS_CardinalityType
<1>3. Len(stack) \in Nat
  <2>1. stack \in Seq(Tasks)
    BY DEF TypeOK
  <2> QED
    BY <2>1
<1>4. \A m, n, l \in Nat : m * (n + 1) + l \in Nat
  OBVIOUS
<1> QED
  BY <1>1, <1>2, <1>3, <1>4 DEF TurnsLeft

LEMMA PopShortens ==
  ASSUME TypeOK, stack # << >>
  PROVE  Len(Popped) = Len(stack) - 1
<1>1. stack \in Seq(Tasks)
  BY DEF TypeOK
<1>2. Len(stack) \in Nat /\ Len(stack) >= 1
  BY <1>1
<1>3. Len(SubSeq(stack, 1, Len(stack) - 1)) = Len(stack) - 1
  BY <1>1, <1>2
<1> QED
  BY <1>3 DEF Popped

LEMMA SkipAdvances ==
  ASSUME TypeOK, Turn, Skip
  PROVE  TurnsLeft' < TurnsLeft
<1>1. Len(stack') = Len(stack) - 1
  BY PopShortens DEF Turn, Skip
<1>2. visited' = visited
  BY DEF Skip
<1>3. \A m, l \in Nat : m + (l - 1) < m + l
  OBVIOUS
<1>4. \A m, n \in Nat : m * (n + 1) \in Nat
  OBVIOUS
<1> QED
  BY <1>1, <1>2, <1>3, <1>4, Counts DEF TurnsLeft

LEMMA VisitAdvances ==
  ASSUME TypeOK, Turn, Visit
  PROVE  TurnsLeft' < TurnsLeft
<1> DEFINE D == TM!Depends(Back)
           m == Cardinality(Tasks \ visited)
           n == Cardinality(Tasks)
<1>1. Popped \in Seq(Tasks) /\ Back \in Tasks \ visited
  BY PopFacts DEF TypeOK, Turn, Visit
<1>2. D \subseteq Tasks
  BY DEF TypeOK, TM!Depends, TM!Stored
<1>3. PICK s \in Orders(D) : stack' = Popped \o s
  BY DEF Visit
<1>4. Cardinality(D) \in Nat /\ Cardinality(D) <= n
  BY <1>2, FiniteTasks, FS_Subset, FS_CardinalityType
<1>5. Len(stack') = Len(stack) - 1 + Cardinality(D)
  <2> HIDE DEF D
  <2>1. s \in Seq(D) /\ Len(s) = Cardinality(D)
    BY <1>4 DEF Orders
  <2>2. Len(Popped \o s) = Len(Popped) + Len(s)
    BY <1>1, <1>2, <2>1
  <2>3. Len(Popped) = Len(stack) - 1
    BY PopShortens DEF Turn
  <2> QED
    BY <1>3, <2>1, <2>2, <2>3
<1>6. Cardinality(Tasks \ visited') = m - 1
  <2>1. IsFiniteSet(Tasks \ visited)
    BY FiniteTasks, FS_Subset
  <2>2. Tasks \ visited' = (Tasks \ visited) \ {Back}
    BY DEF Visit
  <2> QED
    BY <1>1, <2>1, <2>2, FS_RemoveElement
<1>7. m - 1 \in Nat
  BY <1>1, <1>6, FiniteTasks, FS_Subset, FS_CardinalityType
<1>8. ASSUME NEW a \in Nat, NEW b \in Nat, NEW c \in Nat, NEW l \in Nat, c <= b, a - 1 \in Nat
      PROVE  (a - 1) * (b + 1) + (l - 1 + c) < a * (b + 1) + l
  <2>1. (a - 1) * (b + 1) = a * (b + 1) - (b + 1)
    OBVIOUS
  <2>2. a * (b + 1) \in Nat
    OBVIOUS
  <2> QED
    BY <1>8, <2>1, <2>2
<1> HIDE DEF D, m, n
<1> QED
  BY <1>4, <1>5, <1>6, <1>7, <1>8, Counts DEF TurnsLeft, m, n

(* Every turn of the loop but the last brings its end nearer, on every      *)
(* store, cyclic ones included, and on any number of tasks: would_create_  *)
(* cycle returns after at most TurnsLeft turns, so its caller gives the    *)
(* lock back.                                                              *)
THEOREM SearchAdvances == Spec => [](TurnsLeft \in Nat) /\ Advances
<1>1. TypeOK /\ SearchInvariant => TurnsLeft \in Nat
  BY Counts
<1>2. TypeOK /\ SearchInvariant /\ [Next]_vars
        => [answer = "searching" /\ answer' = "searching" => TurnsLeft' < TurnsLeft]_vars
  BY SkipAdvances, VisitAdvances DEF Next, Turn, Found, GiveUp
<1>3. Spec => [](TurnsLeft \in Nat)
  BY <1>1, SearchCorrect, PTL
<1>4. Spec => Advances
  BY <1>2, SearchCorrect, PTL DEF Spec, Advances
<1> QED
  BY <1>3, <1>4
=============================================================================
