--------------------------- MODULE LifecycleSteps ---------------------------
(***************************************************************************)
(* What each step of Lifecycle does to the work of the lock's holder, to   *)
(* the tasks waiting and to the entries, for any hubs, passes and lives;   *)
(* and the first layer of its inductive invariant, Steady: types, the      *)
(* order of the work, starts that cannot be taken for one another, and     *)
(* steps that find their entry in the state they were made for.            *)
(***************************************************************************)
EXTENDS Lifecycle, FiniteSetTheorems, WellFoundedInduction, TLAPS

\* The steps of a stop: one to be made, its start cancelled, its call in progress.
Stops     == {"stop", "cancelled", "stopping"}
\* The steps the holder awaits.
Ongoing   == {"cancelled", "stopping", "hook"}
Passes    == {"pass", "drop", "moves", "deliver", "start"}
\* The steps with nothing after them.
LastSteps == {"pass", "drop", "moves", "start", "settle", "closed"}

Todo    == ToSet(work)
Waiting == ToSet(queue)

\* The entry is about to be stopped.
ToStop(e) == \E x \in Todo : x.do \in Stops /\ x.e = e

\* What is awaited comes first, stops come before all else, a failure is counted right
\* after its stops, the hooks at the head are all on one entry, and a disabling is a stop
\* with nothing but a refresh after it.
Orderly(w) ==
    \A i \in DOMAIN w :
        /\ w[i].do \in LastSteps => i = Len(w)
        /\ w[i].do \in Ongoing \cup {"missed"} => i = 1
        /\ w[i].do \in Stops \cup {"failed"} => \A j \in 1..(i - 1) : w[j].do \in Stops
        /\ w[i].do \in Hooks =>
              \A j \in 1..(i - 1) : w[j].do \in Hooks \cup {"hook"} /\ w[j].e = w[i].e
        /\ w[i].do \in Stops /\ w[i].to = "disabled" =>
              i + 1 = Len(w) /\ w[i + 1].do = "settle"

WorkInOrder == Orderly(work)

IsStartOf(t, e, n) == t.do = "started" /\ t.e = e /\ t.n = n

\* No start waits for the lock twice.
OnceWaiting ==
    \A i, j \in DOMAIN queue :
        queue[i].do = "started" /\ IsStartOf(queue[j], queue[i].e, queue[i].n) => i = j

\* A start and its entry know each other by number unless it was left behind, no two
\* starts of an entry have the same one, and one is always free.
StartsApart ==
    /\ \A s \in starts :
          /\ s.at = "left" <=> entry[s.e].task # s.n
          /\ \A t \in starts : s.e = t.e /\ s.n = t.n => s = t
          /\ \A t \in Waiting : ~ IsStartOf(t, s.e, s.n)
    /\ OnceWaiting
    /\ \A t \in Waiting : t.do = "started" => t.n \in Tasks
    /\ \A e \in Entry :
          /\ entry[e].task # NoTask => entry[e].state = "starting"
          /\ entry[e].task = NoTask => Tasks \ StartTasks(e) # {}

\* A stop in progress is of one that started, a hook of one that runs, and a failure is
\* counted of one about to be stopped, or stopped to wait.
StepsMatch ==
    \A x \in Todo :
        /\ x.do \in {"stopping", "cancelled"} => IsStarted(x.e) /\ entry[x.e].task = NoTask
        /\ x.do \in Hooks \cup {"hook", "missed"} => entry[x.e].state = "running"
        /\ x.do = "failed" => \/ IsStarted(x.e) /\ ToStop(x.e)
                              \/ entry[x.e].state = "waiting"

-----------------------------------------------------------------------------
(* Sequences. *)

\* A set of naturals that is not empty has a first one, and CHOOSE finds it.
LEMMA FirstIs ==
    ASSUME NEW S \in SUBSET Nat, S # {}
    PROVE  LET first == CHOOSE t \in S : \A u \in S : t <= u
           IN  first \in S /\ \A u \in S : first <= u
<1> DEFINE Less == {ss \in Nat \X Nat : ss[1] < ss[2]}
<1>1. IsWellFoundedOn(Less, Nat)
  BY NatLessThanWellFounded, Zenon DEF OpToRel
<1>2. PICK t \in S : \A u \in S : ~ (<<u, t>> \in Less)
  BY <1>1, WFMin
<1>3. \A u \in S : t <= u
  <2> SUFFICES ASSUME NEW u \in S PROVE ~ (u < t)
    OBVIOUS
  <2>1. u < t => <<u, t>> \in Less
    OBVIOUS
  <2>2. QED
    BY <1>2, <2>1
<1>4. QED
  BY <1>3

\* What is in a sequence put together from others.
LEMMA SetOfConcat ==
    ASSUME NEW T, NEW u \in Seq(T), NEW v \in Seq(T)
    PROVE  u \o v \in Seq(T) /\ ToSet(u \o v) = ToSet(u) \cup ToSet(v)
<1> DEFINE w == u \o v
<1>1. /\ w \in Seq(T) /\ Len(w) = Len(u) + Len(v)
      /\ \A i \in 1..(Len(u) + Len(v)) : w[i] = IF i <= Len(u) THEN u[i] ELSE v[i - Len(u)]
  OBVIOUS
<1> HIDE DEF w
<1>2. DOMAIN w = 1..Len(w) /\ DOMAIN u = 1..Len(u) /\ DOMAIN v = 1..Len(v)
  BY <1>1
<1>3. \A i \in DOMAIN u : i \in DOMAIN w /\ w[i] = u[i]
  BY <1>1, <1>2
<1>4. \A i \in DOMAIN v : i + Len(u) \in DOMAIN w /\ w[i + Len(u)] = v[i]
  BY <1>1, <1>2
<1>5. \A i \in DOMAIN w : w[i] \in ToSet(u) \cup ToSet(v)
  <2> SUFFICES ASSUME NEW i \in DOMAIN w PROVE w[i] \in ToSet(u) \cup ToSet(v)
    OBVIOUS
  <2>1. CASE i <= Len(u)
    BY <2>1, <1>1, <1>2 DEF ToSet
  <2>2. CASE ~ (i <= Len(u))
    <3>1. i - Len(u) \in DOMAIN v /\ w[i] = v[i - Len(u)]
      BY <2>2, <1>1, <1>2
    <3> QED
      BY <3>1 DEF ToSet
  <2> QED
    BY <2>1, <2>2
<1>6. ToSet(w) = ToSet(u) \cup ToSet(v)
  BY <1>3, <1>4, <1>5 DEF ToSet
<1> QED
  BY <1>1, <1>6 DEF w

\* A sequence is its head and its tail.
LEMMA SetOfTail ==
    ASSUME NEW T, NEW w \in Seq(T), w # <<>>
    PROVE  /\ Head(w) \in T /\ Head(w) = w[1] /\ Tail(w) \in Seq(T)
           /\ ToSet(w) = {Head(w)} \cup ToSet(Tail(w))
           /\ Len(Tail(w)) = Len(w) - 1 /\ Len(w) \in Nat \ {0}
           /\ \A i \in 1..(Len(w) - 1) : Tail(w)[i] = w[i + 1]
<1> DEFINE v == Tail(w)
<1>1. /\ Len(w) \in Nat \ {0} /\ DOMAIN w = 1..Len(w)
      /\ v \in Seq(T) /\ Len(v) = Len(w) - 1 /\ DOMAIN v = 1..Len(v)
      /\ Head(w) = w[1] /\ w[1] \in T
      /\ \A i \in 1..(Len(w) - 1) : v[i] = w[i + 1]
  OBVIOUS
<1> HIDE DEF v
<1>2. \A i \in DOMAIN w : i = 1 \/ (i - 1 \in DOMAIN v /\ w[i] = v[i - 1])
  BY <1>1
<1>3. \A i \in DOMAIN v : i + 1 \in DOMAIN w /\ v[i] = w[i + 1]
  BY <1>1
<1>4. 1 \in DOMAIN w
  BY <1>1
<1>5. ToSet(w) = {w[1]} \cup ToSet(v)
  BY <1>2, <1>3, <1>4 DEF ToSet
<1> QED
  BY <1>1, <1>5 DEF v

\* What is in a sequence with one more at its end.
LEMMA SetOfAppend ==
    ASSUME NEW T, NEW w \in Seq(T), NEW x \in T
    PROVE  Append(w, x) \in Seq(T) /\ ToSet(Append(w, x)) = ToSet(w) \cup {x}
<1> DEFINE v == Append(w, x)
<1>1. /\ v \in Seq(T) /\ DOMAIN w = 1..Len(w) /\ Len(w) \in Nat /\ DOMAIN v = 1..(Len(w) + 1)
      /\ v[Len(w) + 1] = x /\ \A i \in 1..Len(w) : v[i] = w[i]
  OBVIOUS
<1> HIDE DEF v
<1>2. \A i \in DOMAIN v : i = Len(w) + 1 \/ i \in DOMAIN w
  BY <1>1
<1>3. ToSet(v) = ToSet(w) \cup {x}
  BY <1>1, <1>2 DEF ToSet
<1> QED
  BY <1>1, <1>3 DEF v

\* A sequence of one, of two, and of none.
LEMMA SetOfFew ==
    /\ ToSet(<<>>) = {}
    /\ \A x : ToSet(<<x>>) = {x}
    /\ \A x, y : ToSet(<<x, y>>) = {x, y}
    /\ \A x, y, z : ToSet(<<x, y, z>>) = {x, y, z}
BY DEF ToSet

\* What is in a sequence with one put before it.
LEMMA SetOfPrefixed ==
    ASSUME NEW T, NEW x \in T, NEW v \in Seq(T)
    PROVE  <<x>> \o v \in Seq(T) /\ ToSet(<<x>> \o v) = {x} \cup ToSet(v)
<1> DEFINE u == <<x>>
<1>1. u \in Seq(T) /\ ToSet(u) = {x}
  BY SetOfFew
<1> HIDE DEF u
<1>2. u \o v \in Seq(T) /\ ToSet(u \o v) = ToSet(u) \cup ToSet(v)
  BY <1>1, SetOfConcat
<1> QED
  BY <1>1, <1>2 DEF u

\* The function Kept is defined by: what is kept of each beginning of the sequence.
KeptUpTo(f, s, K) ==
    /\ Kept(s, K) = f[Len(s)]
    /\ f[0] = <<>>
    /\ \A i \in 1..Len(s) :
          f[i] = IF s[i] \in K THEN Append(f[i - 1], s[i]) ELSE f[i - 1]

\* Kept is what a function counting up to the sequence's length ends with.
LEMMA KeptUnfolds ==
    ASSUME NEW T, NEW s \in Seq(T), NEW K
    PROVE  \E f \in [0..Len(s) -> Seq(T)] : KeptUpTo(f, s, K)
<1> DEFINE At(f, i) == IF i = 0 THEN <<>>
                       ELSE IF s[i] \in K THEN Append(f[i - 1], s[i]) ELSE f[i - 1]
           UpTo(n) == \E f \in [0..n -> Seq(T)] : \A i \in 0..n : f[i] = At(f, i)
           Bad == {n \in 0..Len(s) : ~ UpTo(n)}
<1>1. UpTo(0)
  <2> DEFINE f == [i \in 0..0 |-> <<>>]
  <2>1. f \in [0..0 -> Seq(T)] /\ \A i \in 0..0 : f[i] = At(f, i)
    OBVIOUS
  <2> HIDE DEF f, At
  <2> QED
    BY <2>1
<1>2. ASSUME NEW m \in 1..Len(s), UpTo(m - 1)
      PROVE  UpTo(m)
  <2>1. PICK f \in [0..(m - 1) -> Seq(T)] : \A i \in 0..(m - 1) : f[i] = At(f, i)
    BY <1>2
  <2> DEFINE g == [i \in 0..m |-> IF i = m THEN At(f, m) ELSE f[i]]
  <2>2. g \in [0..m -> Seq(T)]
    <3>1. At(f, m) \in Seq(T)
      OBVIOUS
    <3> QED
      BY <3>1
  <2>3. \A i \in 0..(m - 1) : g[i] = f[i]
    OBVIOUS
  <2>4. g[m] = At(g, m)
    <3>1. m - 1 \in 0..(m - 1) /\ m # 0
      OBVIOUS
    <3>2. g[m] = At(f, m)
      OBVIOUS
    <3>3. g[m - 1] = f[m - 1]
      BY <3>1, <2>3
    <3> HIDE DEF g
    <3> QED
      BY <3>1, <3>2, <3>3
  <2>5. ASSUME NEW i \in 0..(m - 1) PROVE g[i] = At(g, i)
    <3>1. f[i] = At(f, i) /\ g[i] = f[i]
      BY <2>1, <2>3
    <3>2. i # 0 => g[i - 1] = f[i - 1]
      BY <2>3
    <3> HIDE DEF g
    <3> QED
      BY <3>1, <3>2
  <2>6. \A i \in 0..m : i = m \/ i \in 0..(m - 1)
    OBVIOUS
  <2> HIDE DEF g, At
  <2> QED
    BY <2>2, <2>4, <2>5, <2>6
<1>3. Bad = {}
  <2> SUFFICES ASSUME Bad # {} PROVE FALSE
    OBVIOUS
  <2>1. Bad \subseteq Nat
    OBVIOUS
  <2>2. PICK m \in Bad : \A u \in Bad : m <= u
    <3> HIDE DEF Bad
    <3> QED
      BY <2>1, FirstIs
  <2> HIDE DEF UpTo
  <2>3. m \in 1..Len(s) /\ m - 1 \notin Bad /\ m - 1 \in 0..Len(s)
    BY <2>2, <1>1
  <2> QED
    BY <2>2, <2>3, <1>2
<1>4. UpTo(Len(s))
  <2> HIDE DEF UpTo
  <2> QED
    BY <1>3
<1>5. PICK f \in [0..Len(s) -> Seq(T)] : \A i \in 0..Len(s) : f[i] = At(f, i)
  BY <1>4
<1> DEFINE rec == CHOOSE h : h = [i \in 0..Len(s) |-> At(h, i)]
<1>6. f = [i \in 0..Len(s) |-> At(f, i)]
  BY <1>5
<1>7. rec = [i \in 0..Len(s) |-> At(rec, i)]
  <2> HIDE DEF At
  <2> QED 
    BY <1>6
<1>8. Kept(s, K) = rec[Len(s)]
  BY DEF Kept
<1> DEFINE Other == {n \in 0..Len(s) : rec[n] # f[n]}
<1>9. Other = {}
  <2> SUFFICES ASSUME Other # {} PROVE FALSE
    OBVIOUS
  <2>1. Other \subseteq Nat
    OBVIOUS
  <2>2. PICK m \in Other : \A u \in Other : m <= u
    <3> HIDE DEF Other
    <3> QED
      BY <2>1, FirstIs
  <2>3. m \in 0..Len(s) /\ rec[m] # f[m]
    OBVIOUS
  <2>4. m # 0 => rec[m - 1] = f[m - 1]
    <3>1. m # 0 => m - 1 \notin Other /\ m - 1 \in 0..Len(s)
      <4> HIDE DEF Other
      <4> QED
        BY <2>2, <2>3
    <3> HIDE DEF rec
    <3> QED
      BY <3>1
  <2>5. rec[m] = At(rec, m) /\ f[m] = At(f, m)
    <3> HIDE DEF rec, At
    <3> QED
      BY <2>3, <1>7, <1>5
  <2> HIDE DEF rec
  <2> QED
    BY <2>3, <2>4, <2>5
<1>10. rec[Len(s)] = f[Len(s)]
  <2> HIDE DEF rec
  <2> QED
    BY <1>9
<1>11. /\ f[0] = <<>>
       /\ \A i \in 1..Len(s) :
             f[i] = IF s[i] \in K THEN Append(f[i - 1], s[i]) ELSE f[i - 1]
  <2>1. 0 \in 0..Len(s) /\ \A i \in 1..Len(s) : i \in 0..Len(s) /\ i # 0
    OBVIOUS
  <2>2. f[0] = At(f, 0) /\ \A i \in 1..Len(s) : f[i] = At(f, i)
    BY <1>5, <2>1
  <2>3. \A i \in 1..Len(s) :
             At(f, i) = IF s[i] \in K THEN Append(f[i - 1], s[i]) ELSE f[i - 1]
    BY <2>1
  <2> QED
    BY <2>2, <2>3
<1> HIDE DEF rec, At
<1> DEFINE Whole(h) == Kept(s, K) = h[Len(s)]
           Empty(h) == h[0] = <<>>
           Each1(h) == \A i \in 1..Len(s) :
                         h[i] = IF s[i] \in K THEN Append(h[i - 1], s[i]) ELSE h[i - 1]
<1>12. f \in [0..Len(s) -> Seq(T)] /\ Whole(f) /\ Empty(f) /\ Each1(f)
  BY <1>5, <1>8, <1>10, <1>11
<1>13. \E h \in [0..Len(s) -> Seq(T)] : Whole(h) /\ Empty(h) /\ Each1(h)
  <2> HIDE DEF Whole, Empty, Each1
  <2> QED
    BY <1>12
<1> QED
  BY <1>13 DEF KeptUpTo

\* Kept keeps exactly those, in their order.
LEMMA KeptIs ==
    ASSUME NEW T, NEW s \in Seq(T), NEW K
    PROVE  /\ Kept(s, K) \in Seq(T)
           /\ ToSet(Kept(s, K)) = {x \in ToSet(s) : x \in K}
           /\ \E g \in [DOMAIN Kept(s, K) -> DOMAIN s] :
                 /\ \A i \in DOMAIN Kept(s, K) : Kept(s, K)[i] = s[g[i]]
                 /\ \A i, j \in DOMAIN Kept(s, K) : i < j => g[i] < g[j]
                 /\ \A k \in DOMAIN s : s[k] \in K => \E i \in DOMAIN Kept(s, K) : g[i] = k
<1>1. PICK f \in [0..Len(s) -> Seq(T)] :
         /\ Kept(s, K) = f[Len(s)]
         /\ f[0] = <<>>
         /\ \A i \in 1..Len(s) :
               f[i] = IF s[i] \in K THEN Append(f[i - 1], s[i]) ELSE f[i - 1]
  <2>1. PICK f \in [0..Len(s) -> Seq(T)] : KeptUpTo(f, s, K)
    BY KeptUnfolds
  <2> QED
    BY <2>1 DEF KeptUpTo
<1> DEFINE Fine(n) == \E g \in [DOMAIN f[n] -> 1..n] :
                 /\ \A i \in DOMAIN f[n] : f[n][i] = s[g[i]] /\ f[n][i] \in K
                 /\ \A i, j \in DOMAIN f[n] : i < j => g[i] < g[j]
                 /\ \A k \in 1..n : s[k] \in K => \E i \in DOMAIN f[n] : g[i] = k
           Bad == {n \in 0..Len(s) : ~ Fine(n)}
<1>2. Fine(0)
  <2> DEFINE g == [i \in 1..0 |-> i]
  <2>1. DOMAIN f[0] = 1..0 /\ g \in [DOMAIN f[0] -> 1..0]
    BY <1>1
  <2> HIDE DEF g
  <2> QED
    BY <2>1
<1>3. ASSUME NEW m \in 1..Len(s), Fine(m - 1)
      PROVE  Fine(m)
  <2>1. PICK g \in [DOMAIN f[m - 1] -> 1..(m - 1)] :
                 /\ \A i \in DOMAIN f[m - 1] : f[m - 1][i] = s[g[i]] /\ f[m - 1][i] \in K
                 /\ \A i, j \in DOMAIN f[m - 1] : i < j => g[i] < g[j]
                 /\ \A k \in 1..(m - 1) : s[k] \in K => \E i \in DOMAIN f[m - 1] : g[i] = k
    BY <1>3
  <2> DEFINE q == f[m - 1]
  <2>2. q \in Seq(T) /\ s[m] \in T
    BY <1>1
  <2>3. CASE s[m] \notin K
    <3>1. f[m] = q
      BY <1>1, <2>3
    <3>2. g \in [DOMAIN f[m] -> 1..m]
      BY <2>1, <3>1
    <3>3. \A k \in 1..m : s[k] \in K => k \in 1..(m - 1)
      BY <2>3
    <3> QED
      BY <2>1, <3>1, <3>2, <3>3
  <2>4. CASE s[m] \in K
    <3>1. f[m] = Append(q, s[m])
      BY <1>1, <2>4
    <3> DEFINE h == [i \in DOMAIN f[m] |-> IF i = Len(q) + 1 THEN m ELSE g[i]]
    <3> HIDE DEF q
    <3>2. DOMAIN q = 1..Len(q) /\ DOMAIN f[m] = 1..(Len(q) + 1)
      BY <2>2, <3>1
    <3>3. \A i \in DOMAIN f[m] : i = Len(q) + 1 \/ i \in DOMAIN q
      BY <3>2
    <3>4. \A i \in DOMAIN q : f[m][i] = q[i] /\ i # Len(q) + 1 /\ i \in DOMAIN f[m]
      BY <3>1, <3>2, <2>2
    <3>5. f[m][Len(q) + 1] = s[m] /\ Len(q) + 1 \in DOMAIN f[m]
      BY <3>1, <3>2, <2>2
    <3>6. \A i \in DOMAIN q : h[i] = g[i] /\ g[i] \in 1..(m - 1)
      BY <3>4, <2>1 DEF q
    <3>7. h[Len(q) + 1] = m
      BY <3>5
    <3>8. h \in [DOMAIN f[m] -> 1..m]
      <4>1. h = [i \in DOMAIN f[m] |-> h[i]]
        OBVIOUS
      <4> HIDE DEF h
      <4>2. \A i \in DOMAIN q : h[i] \in 1..m
        BY <3>6
      <4>3. \A i \in DOMAIN f[m] : h[i] \in 1..m
        BY <3>3, <3>7, <4>2
      <4> QED
        BY <4>1, <4>3
    <3> HIDE DEF h
    <3>9. \A i \in DOMAIN f[m] : f[m][i] = s[h[i]] /\ f[m][i] \in K
      BY <3>3, <3>4, <3>5, <3>6, <3>7, <2>1, <2>4 DEF q
    <3>10. \A i, j \in DOMAIN f[m] : i < j => h[i] < h[j]
      <4> SUFFICES ASSUME NEW i \in DOMAIN f[m], NEW j \in DOMAIN f[m], i < j
                   PROVE  h[i] < h[j]
        OBVIOUS
      <4>1. i \in DOMAIN q
        BY <3>2
      <4>2. CASE j \in DOMAIN q
        BY <4>1, <4>2, <3>6, <2>1 DEF q
      <4>3. CASE j = Len(q) + 1
        BY <4>1, <4>3, <3>6, <3>7
      <4> QED
        BY <3>3, <4>2, <4>3
    <3>11. \A k \in 1..m : s[k] \in K => \E i \in DOMAIN f[m] : h[i] = k
      <4> SUFFICES ASSUME NEW k \in 1..m, s[k] \in K
                   PROVE  \E i \in DOMAIN f[m] : h[i] = k
        OBVIOUS
      <4>1. CASE k = m
        BY <4>1, <3>5, <3>7
      <4>2. CASE k \in 1..(m - 1)
        <5>1. PICK i \in DOMAIN q : g[i] = k
          BY <4>2, <2>1 DEF q
        <5> QED
          BY <5>1, <3>4, <3>6
      <4> QED
        BY <4>1, <4>2
    <3> QED
      BY <3>8, <3>9, <3>10, <3>11
  <2> QED
    BY <2>3, <2>4
<1>4. Bad = {}
  <2> SUFFICES ASSUME Bad # {} PROVE FALSE
    OBVIOUS
  <2>1. Bad \subseteq Nat
    OBVIOUS
  <2>2. PICK m \in Bad : \A u \in Bad : m <= u
    <3> HIDE DEF Bad
    <3> QED
      BY <2>1, FirstIs
  <2> HIDE DEF Fine
  <2>3. m \in 1..Len(s) /\ m - 1 \notin Bad /\ m - 1 \in 0..Len(s)
    BY <2>2, <1>2
  <2> QED
    BY <2>2, <2>3, <1>3
<1>5. Fine(Len(s))
  <2> HIDE DEF Fine
  <2> QED
    BY <1>4
<1> DEFINE q == Kept(s, K)
<1>6. q = f[Len(s)] /\ q \in Seq(T)
  BY <1>1
<1> HIDE DEF q
<1>7. PICK g \in [DOMAIN q -> 1..Len(s)] :
                 /\ \A i \in DOMAIN q : q[i] = s[g[i]] /\ q[i] \in K
                 /\ \A i, j \in DOMAIN q : i < j => g[i] < g[j]
                 /\ \A k \in 1..Len(s) : s[k] \in K => \E i \in DOMAIN q : g[i] = k
  BY <1>5, <1>6
<1>8. ToSet(q) = {x \in ToSet(s) : x \in K}
  <2>1. \A x \in ToSet(q) : x \in ToSet(s) /\ x \in K
    BY <1>7 DEF ToSet
  <2>2. ASSUME NEW x \in ToSet(s), x \in K PROVE x \in ToSet(q)
    <3>1. PICK k \in 1..Len(s) : s[k] = x
      BY DEF ToSet
    <3>2. PICK i \in DOMAIN q : g[i] = k
      BY <3>1, <2>2, <1>7
    <3> QED
      BY <3>1, <3>2, <1>7 DEF ToSet
  <2> QED
    BY <2>1, <2>2
<1>9. DOMAIN s = 1..Len(s)
  OBVIOUS
<1>10. \E j \in [DOMAIN q -> DOMAIN s] :
                 /\ \A i \in DOMAIN q : q[i] = s[j[i]]
                 /\ \A i, k \in DOMAIN q : i < k => j[i] < j[k]
                 /\ \A k \in DOMAIN s : s[k] \in K => \E i \in DOMAIN q : j[i] = k
  BY <1>7, <1>9
<1> QED
  BY <1>6, <1>8, <1>10, Zenon DEF q

\* InTurn lists every member of a finite set.
LEMMA InTurnLists ==
    ASSUME NEW S, IsFiniteSet(S), NEW next, \A L \in (SUBSET S) \ {{}} : next[L] \in L
    PROVE  InTurn(S, next) \in Seq(S) /\ ToSet(InTurn(S, next)) = S
<1> DEFINE At(f, L) == IF L = {} THEN <<>> ELSE <<next[L]>> \o f[L \ {next[L]}]
           Small(n) == {L \in SUBSET S : Cardinality(L) <= n}
           UpTo(n) == \E f \in [Small(n) -> Seq(S)] :
                          \A L \in Small(n) : f[L] = At(f, L) /\ ToSet(f[L]) = L
           Bad == {n \in Nat : ~ UpTo(n)}
<1>s. \A L \in SUBSET S : IsFiniteSet(L) /\ Cardinality(L) \in Nat
  BY FS_Subset, FS_CardinalityType
<1>r. \A L \in (SUBSET S) \ {{}} : /\ L \ {next[L]} \in SUBSET S
                                   /\ Cardinality(L \ {next[L]}) = Cardinality(L) - 1
  BY <1>s, FS_RemoveElement
<1>1. UpTo(0)
  <2> DEFINE f == [L \in Small(0) |-> <<>>]
  <2>1. \A L \in Small(0) : L = {}
    BY <1>s, FS_EmptySet
  <2>2. f \in [Small(0) -> Seq(S)]
    OBVIOUS
  <2>3. \A L \in Small(0) : f[L] = At(f, L) /\ ToSet(f[L]) = L
    BY <2>1 DEF ToSet
  <2> HIDE DEF f, At, Small
  <2> QED
    BY <2>2, <2>3
<1>2. ASSUME NEW m \in Nat, UpTo(m)
      PROVE  UpTo(m + 1)
  <2>1. PICK f \in [Small(m) -> Seq(S)] : \A L \in Small(m) : f[L] = At(f, L) /\ ToSet(f[L]) = L
    BY <1>2
  <2> DEFINE g == [L \in Small(m + 1) |-> At(f, L)]
  <2>2. ASSUME NEW L \in Small(m + 1), L # {}
        PROVE  next[L] \in L /\ L \ {next[L]} \in Small(m)
    BY <2>2, <1>s, <1>r
  <2>3. \A L \in Small(m + 1) : At(f, L) \in Seq(S) /\ ToSet(At(f, L)) = L
    <3> SUFFICES ASSUME NEW L \in Small(m + 1)
                 PROVE  At(f, L) \in Seq(S) /\ ToSet(At(f, L)) = L
      OBVIOUS
    <3>1. CASE L = {}
      BY <3>1 DEF ToSet
    <3>2. CASE L # {}
      <4> DEFINE x == next[L]
                 r == f[L \ {x}]
      <4>1. x \in L /\ x \in S /\ r \in Seq(S) /\ ToSet(r) = L \ {x}
        BY <2>1, <2>2, <3>2
      <4>2. At(f, L) = <<x>> \o r
        BY <3>2
      <4> HIDE DEF x, r, At
      <4>3. <<x>> \o r \in Seq(S) /\ ToSet(<<x>> \o r) = {x} \cup ToSet(r)
        BY <4>1, SetOfPrefixed
      <4>5. {x} \cup (L \ {x}) = L
        BY <4>1
      <4>4. ToSet(<<x>> \o r) = L
        BY <4>1, <4>3, <4>5
      <4> QED
        BY <4>2, <4>3, <4>4
    <3> QED
      BY <3>1, <3>2
  <2>4. g \in [Small(m + 1) -> Seq(S)]
    <3> HIDE DEF At, Small
    <3> QED
      BY <2>3
  <2>5. \A L \in Small(m) : L \in Small(m + 1) /\ g[L] = f[L]
    <3>1. \A L \in Small(m) : L \in Small(m + 1)
      BY <1>s
    <3> HIDE DEF At, Small
    <3> QED
      BY <3>1, <2>1
  <2>6. \A L \in Small(m + 1) : g[L] = At(g, L)
    <3> SUFFICES ASSUME NEW L \in Small(m + 1) PROVE g[L] = At(g, L)
      OBVIOUS
    <3>1. g[L] = At(f, L)
      OBVIOUS
    <3>2. L # {} => g[L \ {next[L]}] = f[L \ {next[L]}]
      BY <2>2, <2>5
    <3> HIDE DEF g
    <3> QED
      BY <3>1, <3>2
  <2>7. \A L \in Small(m + 1) : ToSet(g[L]) = L
    BY <2>3
  <2> HIDE DEF g, At, Small
  <2> QED
    BY <2>4, <2>6, <2>7
<1>3. Bad = {}
  <2> SUFFICES ASSUME Bad # {} PROVE FALSE
    OBVIOUS
  <2>1. Bad \subseteq Nat
    OBVIOUS
  <2>2. PICK m \in Bad : \A u \in Bad : m <= u
    <3> HIDE DEF Bad
    <3> QED
      BY <2>1, FirstIs
  <2> HIDE DEF UpTo
  <2>3. m # 0 /\ m \in Nat /\ m - 1 \in Nat /\ m - 1 \notin Bad
    BY <2>2, <1>1
  <2>4. UpTo(m - 1 + 1)
    BY <2>3, <1>2
  <2> QED
    BY <2>2, <2>3, <2>4
<1>4. \A L \in SUBSET S : L \in Small(Cardinality(S))
  BY <1>s, FS_Subset
<1>5. PICK f \in [SUBSET S -> Seq(S)] : \A L \in SUBSET S : f[L] = At(f, L) /\ ToSet(f[L]) = L
  <2>1. UpTo(Cardinality(S))
    <3> HIDE DEF UpTo
    <3> QED
      BY <1>3, <1>s
  <2>2. Small(Cardinality(S)) = SUBSET S
    BY <1>4
  <2> HIDE DEF Small, At
  <2> QED
    BY <2>1, <2>2
<1> DEFINE rec == CHOOSE h : h = [L \in SUBSET S |-> At(h, L)]
<1>6. f = [L \in SUBSET S |-> At(f, L)]
  BY <1>5
<1>7. rec = [L \in SUBSET S |-> At(rec, L)]
  <2> HIDE DEF At
  <2> QED
    BY <1>6
<1>8. InTurn(S, next) = rec[S]
  BY DEF InTurn
<1> DEFINE Other == {n \in Nat : \E L \in SUBSET S : n = Cardinality(L) /\ rec[L] # f[L]}
<1>9. Other = {}
  <2> SUFFICES ASSUME Other # {} PROVE FALSE
    OBVIOUS
  <2>1. Other \subseteq Nat
    OBVIOUS
  <2>2. PICK m \in Other : \A u \in Other : m <= u
    <3> HIDE DEF Other
    <3> QED
      BY <2>1, FirstIs
  <2>3. PICK L \in SUBSET S : m = Cardinality(L) /\ rec[L] # f[L]
    OBVIOUS
  <2>4. L # {} => rec[L \ {next[L]}] = f[L \ {next[L]}]
    <3>s. SUFFICES ASSUME L # {}, rec[L \ {next[L]}] # f[L \ {next[L]}] PROVE FALSE
      OBVIOUS
    <3>1. m - 1 \in Other
      <4>1. L \in (SUBSET S) \ {{}}
        BY <3>s
      <4>2. /\ L \ {next[L]} \in SUBSET S
            /\ Cardinality(L \ {next[L]}) = m - 1 /\ Cardinality(L \ {next[L]}) \in Nat
        BY <4>1, <1>r, <1>s, <2>3
      <4> HIDE DEF rec
      <4> QED
        BY <4>2, <3>s
    <3> HIDE DEF Other, rec
    <3> QED
      BY <3>1, <2>2, <1>s, <2>3
  <2>5. rec[L] = At(rec, L) /\ f[L] = At(f, L)
    <3> HIDE DEF rec, At
    <3> QED
      BY <2>3, <1>7, <1>5
  <2> HIDE DEF rec
  <2> QED
    BY <2>3, <2>4, <2>5
<1>10. rec[S] = f[S]
  <2> HIDE DEF rec
  <2> QED
    BY <1>9, <1>s
<1>11. f[S] \in Seq(S) /\ ToSet(f[S]) = S
  BY <1>5
<1> HIDE DEF rec
<1> QED
  BY <1>8, <1>10, <1>11

-----------------------------------------------------------------------------
(* What the assumptions say, and orders of entries. *)

\* What the assumption says of a hub, part by part.
LEMMA HubIs ==
    ASSUME NEW h \in Hubs
    PROVE  /\ h.home.needs \in [Peripherals -> Seq(Need)]
           /\ h.home.provider \in [Endpoints -> Peripherals]
           /\ h.home.offers \subseteq Endpoints
           /\ h.bringer \in [Peripherals -> Peripherals \cup {Owner}]
           /\ h.given \subseteq Peripherals
           /\ h.retries \in Nat /\ h.tasks \in Nat \ {0}
BY HubsAssumption DEF World

\* What the assumptions say of the bounds.
LEMMA Numbers ==
    /\ NumPeripherals \in Nat \ {0} /\ NumPasses \in Nat \ {0} /\ NumLives \in Nat \ {0}
    /\ NoEntry \in Entry /\ Lives \subseteq Nat /\ Peripherals \subseteq Nat
    /\ NoLife \notin Lives /\ Owner \notin Peripherals
BY NumAssumption, BoundsAssumption DEF NoEntry, Entry, Lives, Peripherals, NoLife, Owner

\* There are only so many entries.
LEMMA EntriesAreFinite == IsFiniteSet(Entry)
<1>1. IsFiniteSet(Peripherals) /\ IsFiniteSet(Lives)
  BY Numbers, FS_Interval DEF Peripherals, Lives
<1> QED
  BY <1>1, FS_Product DEF Entry

\* Some entries that are not none have one that comes first in binding order.
LEMMA FirstOf ==
    ASSUME NEW L \in SUBSET Entry, L # {}
    PROVE  \E e \in L : \A f \in L : e[1] <= f[1]
<1> DEFINE S == {e[1] : e \in L}
<1>1. S \in SUBSET Nat /\ S # {}
  BY Numbers DEF Entry
<1>2. PICK n \in S : \A m \in S : n <= m
  <2> HIDE DEF S
  <2> QED
    BY <1>1, FirstIs
<1> QED
  BY <1>2

\* And one that comes last.
LEMMA LastOf ==
    ASSUME NEW L \in SUBSET Entry, L # {}
    PROVE  \E e \in L : \A f \in L : f[1] <= e[1]
<1> DEFINE S == {NumPeripherals - e[1] : e \in L}
<1>1. \A e \in L : e[1] \in 1..NumPeripherals
  BY DEF Entry, Peripherals
<1>2. S \in SUBSET Nat /\ S # {}
  BY <1>1, Numbers
<1>3. PICK n \in S : \A m \in S : n <= m
  <2> HIDE DEF S
  <2> QED
    BY <1>2, FirstIs
<1>4. PICK e \in L : n = NumPeripherals - e[1]
  OBVIOUS
<1>5. \A f \in L : NumPeripherals - e[1] <= NumPeripherals - f[1]
  BY <1>3, <1>4
<1>6. \A f \in L : f[1] <= e[1]
  BY <1>1, <1>5, Numbers
<1> QED
  BY <1>6

\* InOrder and UsersFirst list every entry they are given.
LEMMA InOrderLists ==
    ASSUME NEW S \in SUBSET Entry
    PROVE  InOrder(S) \in Seq(Entry) /\ ToSet(InOrder(S)) = S
<1> DEFINE next == [left \in (SUBSET S) \ {{}} |-> CHOOSE e \in left : \A f \in left : e[1] <= f[1]]
<1>1. IsFiniteSet(S)
  BY EntriesAreFinite, FS_Subset
<1>2. \A L \in (SUBSET S) \ {{}} : next[L] \in L
  BY FirstOf
<1>3. InOrder(S) = InTurn(S, next)
  BY DEF InOrder
<1> HIDE DEF next
<1>4. InTurn(S, next) \in Seq(S) /\ ToSet(InTurn(S, next)) = S
  BY <1>1, <1>2, InTurnLists
<1>5. Seq(S) \subseteq Seq(Entry)
  OBVIOUS
<1> QED
  BY <1>3, <1>4, <1>5

\* UsersFirst lists its entries, each of them, and nothing else.
LEMMA UsersFirstLists ==
    ASSUME NEW S \in SUBSET Entry
    PROVE  UsersFirst(S) \in Seq(Entry) /\ ToSet(UsersFirst(S)) = S
<1> DEFINE unused(left) == {e \in left : \A u \in left : ~ IsUsing(u, e)}
           last(left)   == CHOOSE e \in left : \A f \in left : f[1] <= e[1]
           next == [left \in (SUBSET S) \ {{}} |->
                      last(IF unused(left) # {} THEN unused(left) ELSE left)]
<1>1. IsFiniteSet(S)
  BY EntriesAreFinite, FS_Subset
<1>2. \A L \in (SUBSET S) \ {{}} : next[L] \in L
  <2> SUFFICES ASSUME NEW L \in (SUBSET S) \ {{}} PROVE next[L] \in L
    OBVIOUS
  <2> DEFINE M == IF unused(L) # {} THEN unused(L) ELSE L
  <2>1. M \in SUBSET L /\ M # {}
    OBVIOUS
  <2>2. next[L] = last(M)
    OBVIOUS
  <2> HIDE DEF M, next
  <2>3. M \in SUBSET Entry
    BY <2>1
  <2>4. last(M) \in M
    BY <2>1, <2>3, LastOf
  <2> QED
    BY <2>1, <2>2, <2>4
<1>3. UsersFirst(S) = InTurn(S, next)
  BY DEF UsersFirst
<1> HIDE DEF next
<1>4. InTurn(S, next) \in Seq(S) /\ ToSet(InTurn(S, next)) = S
  BY <1>1, <1>2, InTurnLists
<1>5. Seq(S) \subseteq Seq(Entry)
  OBVIOUS
<1> QED
  BY <1>3, <1>4, <1>5

-----------------------------------------------------------------------------
(* Orderly work. *)

\* A stop for each entry of a sequence is orderly work.
LEMMA StopsOf ==
    ASSUME NEW s \in Seq(Entry)
    PROVE  /\ Each(Stop, s) \in Seq(StepType)
           /\ ToSet(Each(Stop, s)) = {Stop(e) : e \in ToSet(s)}
           /\ Orderly(Each(Stop, s))
<1> DEFINE w == Each(Stop, s)
<1>1. w = [i \in DOMAIN s |-> Stop(s[i])]
  BY DEF Each
<1>2. \A e \in Entry : Stop(e) \in StepType /\ Stop(e).do = "stop" /\ Stop(e).to = "waiting"
  BY DEF Stop, StopTo, StepType, Hooks
<1>3. Len(s) \in Nat /\ DOMAIN s = 1..Len(s) /\ \A i \in DOMAIN s : s[i] \in Entry
  OBVIOUS
<1> HIDE DEF w
<1>4. w \in Seq(StepType) /\ DOMAIN w = DOMAIN s /\ \A i \in DOMAIN s : w[i] = Stop(s[i])
  BY <1>1, <1>2, <1>3
<1>5. ToSet(w) = {Stop(e) : e \in ToSet(s)}
  BY <1>4 DEF ToSet
<1>6. \A i \in DOMAIN w : w[i].do = "stop" /\ w[i].to = "waiting"
  BY <1>2, <1>3, <1>4
<1>7. Orderly(w)
  BY <1>3, <1>4, <1>6 DEF Orderly, LastSteps, Ongoing, Stops, Hooks
<1> QED
  BY <1>4, <1>5, <1>7 DEF w

\* When one orderly work may be put before another.
LEMMA OrderlyConcat ==
    ASSUME NEW u \in Seq(StepType), NEW v \in Seq(StepType), Orderly(u), Orderly(v),
           v # <<>> => \A x \in ToSet(u) :
               x.do \notin LastSteps /\ (x.do \in Stops => x.to # "disabled"),
           u # <<>> => \A x \in ToSet(v) : x.do \notin Ongoing \cup {"missed"},
           \A x \in ToSet(v) : x.do \in Stops \cup {"failed"} =>
               \A y \in ToSet(u) : y.do \in Stops,
           \A x \in ToSet(v) : x.do \in Hooks =>
               \A y \in ToSet(u) : y.do \in Hooks \cup {"hook"} /\ y.e = x.e
    PROVE  Orderly(u \o v)
<1> DEFINE w == u \o v
<1>1. /\ w \in Seq(StepType) /\ Len(w) = Len(u) + Len(v)
      /\ Len(u) \in Nat /\ Len(v) \in Nat
      /\ DOMAIN w = 1..(Len(u) + Len(v)) /\ DOMAIN u = 1..Len(u) /\ DOMAIN v = 1..Len(v)
      /\ \A i \in DOMAIN w : w[i] = IF i <= Len(u) THEN u[i] ELSE v[i - Len(u)]
  OBVIOUS
<1> HIDE DEF w
<1>2. ASSUME NEW i \in DOMAIN w, i <= Len(u)
      PROVE  /\ i \in DOMAIN u /\ w[i] = u[i] /\ u[i] \in ToSet(u)
             /\ \A j \in 1..i : j \in DOMAIN u /\ w[j] = u[j]
  <2>1. i \in DOMAIN u /\ w[i] = u[i]
    BY <1>1, <1>2
  <2>2. u[i] \in ToSet(u)
    BY <2>1 DEF ToSet
  <2>3. ASSUME NEW j \in 1..i PROVE j \in DOMAIN u /\ w[j] = u[j]
    <3>1. j \in 1..(Len(u) + Len(v)) /\ j <= Len(u) /\ j \in DOMAIN u
      BY <1>1, <1>2
    <3> QED
      BY <1>1, <3>1
  <2> QED
    BY <2>1, <2>2, <2>3
<1>3. ASSUME NEW i \in DOMAIN w, ~ (i <= Len(u))
      PROVE  /\ i - Len(u) \in DOMAIN v /\ w[i] = v[i - Len(u)] /\ w[i] \in ToSet(v)
             /\ u = <<>> => Len(u) = 0
             /\ \A j \in 1..i : \/ j \in DOMAIN u /\ w[j] = u[j] /\ w[j] \in ToSet(u)
                                \/ /\ j - Len(u) \in 1..(i - Len(u)) /\ w[j] = v[j - Len(u)]
                                   /\ j - Len(u) \in DOMAIN v
  <2>1. i - Len(u) \in DOMAIN v /\ w[i] = v[i - Len(u)]
    BY <1>1, <1>3
  <2>2. w[i] \in ToSet(v)
    BY <2>1 DEF ToSet
  <2>3. u = <<>> => Len(u) = 0
    OBVIOUS
  <2>4. ASSUME NEW j \in 1..i, j <= Len(u)
        PROVE  j \in DOMAIN u /\ w[j] = u[j] /\ w[j] \in ToSet(u)
    <3>1. j \in DOMAIN w /\ j \in DOMAIN u
      BY <1>1, <2>4
    <3>2. w[j] = u[j]
      BY <1>1, <2>4, <3>1
    <3> QED
      BY <3>1, <3>2 DEF ToSet
  <2>5. ASSUME NEW j \in 1..i, ~ (j <= Len(u))
        PROVE  /\ j - Len(u) \in 1..(i - Len(u)) /\ w[j] = v[j - Len(u)]
               /\ j - Len(u) \in DOMAIN v
    <3>1. j \in DOMAIN w /\ j - Len(u) \in 1..(i - Len(u)) /\ j - Len(u) \in DOMAIN v
      BY <1>1, <2>5
    <3> QED
      BY <1>1, <2>5, <3>1
  <2> QED
    BY <2>1, <2>2, <2>3, <2>4, <2>5
<1>4. ASSUME NEW i \in DOMAIN w
      PROVE  /\ w[i].do \in LastSteps => i = Len(w)
             /\ w[i].do \in Stops /\ w[i].to = "disabled" =>
                  i + 1 = Len(w) /\ w[i + 1].do = "settle"
  <2>1. CASE i <= Len(u)
    <3>1. i \in DOMAIN u /\ w[i] = u[i] /\ u[i] \in ToSet(u)
      BY <2>1, <1>2
    <3>2. CASE v = <<>>
      <4>1. Len(v) = 0 /\ Len(w) = Len(u)
        BY <3>2, <1>1
      <4>2. i + 1 = Len(u) => w[i + 1] = u[i + 1]
        BY <1>1, <4>1
      <4> QED
        BY <3>1, <4>1, <4>2 DEF Orderly
    <3>3. CASE v # <<>>
      BY <3>1, <3>3
    <3> QED
      BY <3>2, <3>3
  <2>2. CASE ~ (i <= Len(u))
    <3>1. i - Len(u) \in DOMAIN v /\ w[i] = v[i - Len(u)]
      BY <2>2, <1>3
    <3>2. (i - Len(u)) + 1 = Len(v) => w[i + 1] = v[(i - Len(u)) + 1]
      <4> SUFFICES ASSUME (i - Len(u)) + 1 = Len(v) PROVE w[i + 1] = v[(i - Len(u)) + 1]
        OBVIOUS
      <4>1. i \in Nat /\ i + 1 \in DOMAIN w /\ ~ (i + 1 <= Len(u))
        BY <1>1, <2>2
      <4>2. (i + 1) - Len(u) = (i - Len(u)) + 1
        BY <1>1, <4>1
      <4> QED
        BY <1>1, <4>1, <4>2
    <3> DEFINE k == i - Len(u)
    <3>3. /\ v[k].do \in LastSteps => k = Len(v)
          /\ v[k].do \in Stops /\ v[k].to = "disabled" =>
               k + 1 = Len(v) /\ v[k + 1].do = "settle"
      BY <3>1 DEF Orderly
    <3>4. /\ k = Len(v) => i = Len(w)
          /\ k + 1 = Len(v) => i + 1 = Len(w) /\ w[i + 1] = v[k + 1]
      <4>1. i \in Nat
        BY <1>1
      <4>2. k = Len(v) => i = Len(w)
        BY <4>1, <1>1
      <4>3. k + 1 = Len(v) => i + 1 = Len(w)
        BY <4>1, <1>1
      <4>4. k + 1 = Len(v) => w[i + 1] = v[k + 1]
        BY <3>2
      <4> QED
        BY <4>2, <4>3, <4>4
    <3> HIDE DEF k
    <3>5. w[i] = v[k]
      BY <3>1 DEF k
    <3> QED
      BY <3>3, <3>4, <3>5
  <2> QED
    BY <2>1, <2>2
<1>5. ASSUME NEW i \in DOMAIN w
      PROVE  /\ w[i].do \in Ongoing \cup {"missed"} => i = 1
             /\ w[i].do \in Stops \cup {"failed"} => \A j \in 1..(i - 1) : w[j].do \in Stops
             /\ w[i].do \in Hooks =>
                  \A j \in 1..(i - 1) : w[j].do \in Hooks \cup {"hook"} /\ w[j].e = w[i].e
  <2>1. CASE i <= Len(u)
    <3>1. /\ i \in DOMAIN u /\ w[i] = u[i]
          /\ \A j \in 1..(i - 1) : j \in DOMAIN u /\ w[j] = u[j]
      BY <2>1, <1>2, <1>1
    <3> QED
      BY <3>1 DEF Orderly
  <2>2. CASE ~ (i <= Len(u))
    <3> DEFINE k == i - Len(u)
    <3>1. /\ k \in DOMAIN v /\ w[i] = v[k] /\ w[i] \in ToSet(v)
          /\ u = <<>> => Len(u) = 0
      BY <2>2, <1>3
    <3>2. ASSUME NEW j \in 1..(i - 1)
          PROVE  \/ w[j] \in ToSet(u)
                 \/ j - Len(u) \in 1..(k - 1) /\ w[j] = v[j - Len(u)]
      <4>1. j \in 1..i /\ j # i
        BY <1>1
      <4>2. CASE j \in DOMAIN u /\ w[j] = u[j] /\ w[j] \in ToSet(u)
        BY <4>2
      <4>3. CASE j - Len(u) \in 1..(i - Len(u)) /\ w[j] = v[j - Len(u)]
        <5>1. j - Len(u) # i - Len(u)
          BY <4>1, <1>1
        <5>2. j - Len(u) \in 1..(k - 1)
          BY <4>3, <5>1, <1>1
        <5> QED
          BY <4>3, <5>2
      <4> QED
        BY <4>1, <4>2, <4>3, <2>2, <1>3
    <3>3. k = 1 /\ u = <<>> => i = 1
      BY <3>1, <1>1
    <3>4. /\ v[k].do \in Ongoing \cup {"missed"} => k = 1
          /\ v[k].do \in Stops \cup {"failed"} => \A j \in 1..(k - 1) : v[j].do \in Stops
          /\ v[k].do \in Hooks =>
                  \A j \in 1..(k - 1) : v[j].do \in Hooks \cup {"hook"} /\ v[j].e = v[k].e
      BY <3>1 DEF Orderly
    <3> HIDE DEF k
    <3>5. w[i].do \in Ongoing \cup {"missed"} => i = 1
      BY <3>1, <3>3, <3>4
    <3>6. w[i].do \in Stops \cup {"failed"} => \A j \in 1..(i - 1) : w[j].do \in Stops
      BY <3>1, <3>2, <3>4
    <3>7. w[i].do \in Hooks =>
                  \A j \in 1..(i - 1) : w[j].do \in Hooks \cup {"hook"} /\ w[j].e = w[i].e
      BY <3>1, <3>2, <3>4
    <3> QED
      BY <3>5, <3>6, <3>7
  <2> QED
    BY <2>1, <2>2
<1>6. Orderly(w)
  BY <1>4, <1>5 DEF Orderly
<1> QED
  BY <1>6 DEF w

\* The rest of orderly work is orderly, and what may still be in it.
LEMMA OrderlyTail ==
    ASSUME NEW w \in Seq(StepType), w # <<>>, Orderly(w)
    PROVE  /\ Orderly(Tail(w))
           /\ \A x \in ToSet(Tail(w)) :
                 /\ x.do \notin Ongoing \cup {"missed"}
                 /\ x.do \in Stops \cup {"failed"} => Head(w).do \in Stops
                 /\ x.do \in Hooks => Head(w).do \in Hooks \cup {"hook"} /\ Head(w).e = x.e
           /\ Head(w).do \in LastSteps => Tail(w) = <<>>
           /\ Head(w).do \in Stops /\ Head(w).to = "disabled" =>
                 \E x : Tail(w) = <<x>> /\ x.do = "settle"
<1> DEFINE v == Tail(w)
<1>1. /\ Len(w) \in Nat \ {0} /\ DOMAIN w = 1..Len(w)
      /\ v \in Seq(StepType) /\ Len(v) = Len(w) - 1 /\ DOMAIN v = 1..Len(v)
      /\ Head(w) = w[1]
      /\ \A i \in 1..(Len(w) - 1) : v[i] = w[i + 1]
  OBVIOUS
<1> HIDE DEF v
<1>2. ASSUME NEW i \in DOMAIN v
      PROVE  /\ i + 1 \in DOMAIN w /\ v[i] = w[i + 1] /\ i + 1 # 1 /\ 1 \in 1..((i + 1) - 1)
             /\ \A j \in 1..(i - 1) : j + 1 \in 1..((i + 1) - 1) /\ v[j] = w[j + 1]
  BY <1>1
<1>3. \A x \in ToSet(v) :
                 /\ x.do \notin Ongoing \cup {"missed"}
                 /\ x.do \in Stops \cup {"failed"} => w[1].do \in Stops
                 /\ x.do \in Hooks => w[1].do \in Hooks \cup {"hook"} /\ w[1].e = x.e
  <2> SUFFICES ASSUME NEW i \in DOMAIN v
               PROVE /\ v[i].do \notin Ongoing \cup {"missed"}
                     /\ v[i].do \in Stops \cup {"failed"} => w[1].do \in Stops
                     /\ v[i].do \in Hooks => w[1].do \in Hooks \cup {"hook"} /\ w[1].e = v[i].e
    BY DEF ToSet
  <2> QED
    BY <1>2 DEF Orderly
<1>4. 1 \in DOMAIN w
  BY <1>1
<1>5. w[1].do \in LastSteps => v = <<>>
  BY <1>1, <1>4 DEF Orderly
<1>6. w[1].do \in Stops /\ w[1].to = "disabled" => \E x : v = <<x>> /\ x.do = "settle"
  <2> SUFFICES ASSUME w[1].do \in Stops /\ w[1].to = "disabled"
               PROVE  v = <<w[2]>> /\ w[2].do = "settle"
    OBVIOUS
  <2>1. 1 + 1 = Len(w) /\ w[1 + 1].do = "settle"
    BY <1>4 DEF Orderly
  <2>2. Len(w) = 2 /\ w[2].do = "settle" /\ Len(v) = 1 /\ v[1] = w[2]
    BY <2>1, <1>1
  <2> QED
    BY <2>2, <1>1
<1>7. Orderly(v)
  <2>1. ASSUME NEW i \in DOMAIN v
        PROVE  /\ v[i].do \in LastSteps => i = Len(v)
               /\ v[i].do \in Ongoing \cup {"missed"} => i = 1
               /\ v[i].do \in Stops \cup {"failed"} => \A j \in 1..(i - 1) : v[j].do \in Stops
               /\ v[i].do \in Hooks =>
                    \A j \in 1..(i - 1) : v[j].do \in Hooks \cup {"hook"} /\ v[j].e = v[i].e
    BY <1>1, <1>2 DEF Orderly
  <2>2. ASSUME NEW i \in DOMAIN v, v[i].do \in Stops, v[i].to = "disabled"
        PROVE  i + 1 = Len(v) /\ v[i + 1].do = "settle"
    <3>1. (i + 1) + 1 = Len(w) /\ w[(i + 1) + 1].do = "settle"
      BY <1>2, <2>2 DEF Orderly
    <3>2. i + 1 = Len(v) /\ i + 1 \in 1..(Len(w) - 1)
      BY <3>1, <1>1
    <3> QED
      BY <3>1, <3>2, <1>1
  <2> QED
    BY <2>1, <2>2 DEF Orderly
<1> QED
  BY <1>1, <1>3, <1>5, <1>6, <1>7 DEF v

\* Short sequences of steps.
LEMMA OrderlyFew ==
    /\ Orderly(<<>>)
    /\ \A x : (x.do \in Stops => x.to # "disabled") => Orderly(<<x>>)
    /\ \A x, y : /\ x.do \notin LastSteps /\ (x.do \in Stops => x.to # "disabled")
                 /\ y.do \notin Ongoing \cup Stops \cup Hooks \cup {"missed"}
                 /\ y.do = "failed" => x.do \in Stops
                 => Orderly(<<x, y>>)
BY DEF Orderly

-----------------------------------------------------------------------------
(* Entries, and collecting. *)

\* Each entry is of its type.
EntriesOK == DOMAIN entry = Entry /\ \A e \in Entry : entry[e] \in EntryType(e[1])

\* The step at the head of the work, and what it is about.
LEMMA HeadTyped ==
    ASSUME TypeOK, work # <<>>
    PROVE  /\ Head(work) \in StepType /\ Tail(work) \in Seq(StepType)
           /\ Head(work).e \in Entry /\ Head(work).e[1] \in Peripherals
           /\ Head(work).to \in {"waiting", "disabled"}
           /\ Todo = {Head(work)} \cup ToSet(Tail(work))
<1>1. work \in Seq(StepType)
  BY DEF TypeOK
<1>2. /\ Head(work) \in StepType /\ Tail(work) \in Seq(StepType)
      /\ ToSet(work) = {Head(work)} \cup ToSet(Tail(work))
  BY <1>1, SetOfTail
<1> QED
  BY <1>2 DEF StepType, Entry, Todo

\* The types depend on the hub only.
LEMMA TypesStay ==
    ASSUME hub' = hub
    PROVE  /\ \A p : EntryType(p)' = EntryType(p) /\ LinksOf(p)' = LinksOf(p)
           /\ \A p : Unlinked(p)' = Unlinked(p)
           /\ TaskType' = TaskType /\ StepType' = StepType /\ Children' = Children /\ Tasks' = Tasks
BY DEF EntryType, LinksOf, TaskType, StepType, Children, Tasks, Unlinked

\* A new entry is of its type, in the state given.
LEMMA NewTyped ==
    ASSUME hub \in Hubs, NEW p \in Peripherals, NEW state \in State
    PROVE  /\ NewEntry(p, state) \in EntryType(p)
           /\ NewEntry(p, state).state = state /\ NewEntry(p, state).task = NoTask
           /\ NotStopped \in [stopped : BOOLEAN, on : LinksOf(p) \cup {<<>>}]
           /\ Unlinked(p) \in LinksOf(p)
<1>1. hub.retries \in Nat
  BY HubIs
<1>2. Unlinked(p) \in LinksOf(p)
  BY DEF Unlinked, LinksOf
<1> QED
  BY <1>1, <1>2 DEF NewEntry, EntryType, NotStopped

\* Only peripherals are there.
LEMMA ThereAre ==
    /\ \A owned, listed : PresentOf(owned, listed) \subseteq Peripherals
    /\ Present \subseteq Peripherals
BY DEF PresentOf, Present

\* What collecting leaves: the entries there, and new ones nobody refers to.
LEMMA CollectDoes ==
    ASSUME TypeOK, NEW there \in SUBSET Peripherals, Collect(there)
    PROVE  /\ known' \in [Peripherals -> Lives \cup {NoLife}]
           /\ DOMAIN entry' = Entry
           /\ \A p \in Peripherals :
                 \/ known'[p] = known[p] /\ (p \in there <=> known[p] # NoLife)
                 \/ p \notin there /\ known'[p] = NoLife
                 \/ p \in there /\ known[p] = NoLife /\ known'[p] \in Lives
           /\ \A e \in Entry :
                 \/ entry'[e] = entry[e]
                 \/ /\ entry'[e] = Adopted(e[1])
                    /\ Adopted(e[1]) \in EntryType(e[1])
                    /\ Adopted(e[1]).state \in {"disabled", "failed", "waiting"}
                    /\ Adopted(e[1]).task = NoTask
                    /\ ~ IsReferred(e)
                    /\ known[e[1]] = NoLife /\ e[1] \in there /\ known'[e[1]] = e[2]
           /\ \A e \in Entry : known[e[1]] = NoLife /\ known'[e[1]] = e[2] =>
                 ~ IsReferred(e) /\ entry'[e] = Adopted(e[1])
<1> DEFINE new == there \ Known
           at  == [p \in Peripherals |-> IF p \in new THEN FreshLife(p) ELSE NoLife]
<1>1. there \subseteq Peripherals /\ Known = {p \in Peripherals : known[p] # NoLife}
  BY DEF Known
<1>2. /\ \A p \in new : FreshLives(p) # {}
      /\ known' = [p \in Peripherals |->
                        IF p \notin there THEN NoLife
                        ELSE IF p \in new THEN at[p] ELSE known[p]]
      /\ entry' = [e \in Entry |->
                        IF e[1] \in new /\ e[2] = at[e[1]] THEN Adopted(e[1]) ELSE entry[e]]
  BY DEF Collect
<1>3. ASSUME NEW p \in new PROVE at[p] \in Lives /\ ~ IsReferred(<<p, at[p]>>)
  <2>1. FreshLife(p) \in FreshLives(p)
    BY <1>2, <1>3 DEF FreshLife
  <2>2. at[p] = FreshLife(p)
    BY <1>1, <1>3
  <2> QED
    BY <2>1, <2>2 DEF FreshLives
<1>4. known \in [Peripherals -> Lives \cup {NoLife}] /\ hub \in Hubs
  BY DEF TypeOK
<1>5. \A p \in Peripherals :
         /\ Adopted(p) \in EntryType(p)
         /\ Adopted(p).state \in {"disabled", "failed", "waiting"} /\ Adopted(p).task = NoTask
  BY <1>4, NewTyped DEF Adopted, State
<1>6. \A e \in Entry : e[1] \in Peripherals /\ e[2] \in Lives /\ e = <<e[1], e[2]>>
  BY DEF Entry
<1>7. DOMAIN entry' = Entry
  BY <1>2
<1> HIDE DEF at, new
<1>8. \A p \in Peripherals : p \in new <=> p \in there /\ known[p] = NoLife
  BY <1>1, <1>4 DEF new
<1>9. known' \in [Peripherals -> Lives \cup {NoLife}]
  BY <1>2, <1>3, <1>4
<1>10. \A p \in Peripherals :
                 \/ known'[p] = known[p] /\ (p \in there <=> known[p] # NoLife)
                 \/ p \notin there /\ known'[p] = NoLife
                 \/ p \in there /\ known[p] = NoLife /\ known'[p] \in Lives
  BY <1>2, <1>3, <1>8
<1>11. ASSUME NEW e \in Entry
       PROVE  \/ entry'[e] = entry[e]
              \/ /\ entry'[e] = Adopted(e[1])
                 /\ ~ IsReferred(e)
                 /\ known[e[1]] = NoLife /\ e[1] \in there /\ known'[e[1]] = e[2]
  <2>1. CASE e[1] \in new /\ e[2] = at[e[1]]
    <3>1. entry'[e] = Adopted(e[1]) /\ e = <<e[1], at[e[1]]>>
      BY <1>2, <1>6, <2>1
    <3>2. ~ IsReferred(<<e[1], at[e[1]]>>)
      BY <2>1, <1>3
    <3>3. known[e[1]] = NoLife /\ e[1] \in there /\ known'[e[1]] = e[2]
      BY <1>2, <1>6, <1>8, <2>1
    <3> QED
      BY <3>1, <3>2, <3>3
  <2>2. CASE ~ (e[1] \in new /\ e[2] = at[e[1]])
    BY <1>2, <2>2
  <2> QED
    BY <2>1, <2>2
<1>12. ASSUME NEW e \in Entry, known[e[1]] = NoLife, known'[e[1]] = e[2]
       PROVE  ~ IsReferred(e) /\ entry'[e] = Adopted(e[1])
  <2>1. e[1] \in there
    BY <1>2, <1>6, <1>12, Numbers
  <2>2. e[1] \in new /\ at[e[1]] = e[2] /\ e = <<e[1], at[e[1]]>>
    BY <2>1, <1>2, <1>6, <1>8, <1>12
  <2>3. ~ IsReferred(<<e[1], at[e[1]]>>)
    BY <2>2, <1>3
  <2> QED
    BY <2>2, <2>3, <1>2
<1> QED
  BY <1>5, <1>6, <1>7, <1>9, <1>10, <1>11, <1>12

-----------------------------------------------------------------------------
(* What the calls from outside do. *)

\* Some are there, and collected.
Collects == \E there \in SUBSET Peripherals : Collect(there)

\* A task goes to wait for the lock, or the runtime is stopped and what it would do is collect.
Asking(t) ==
    /\ t \in TaskType /\ t.do # "started"
    /\ \/ /\ t.do = "refresh" => running
          /\ queue' = Append(queue, t)
          /\ UNCHANGED <<entry, known>>
       \/ /\ t.do = "refresh" /\ ~ running
          /\ Collects
          /\ UNCHANGED queue

\* What is noted in an entry is neither its state, nor its start, nor its bindings.
Noting ==
    /\ DOMAIN entry' = Entry
    /\ \A e \in Entry : /\ entry'[e].state = entry[e].state
                        /\ entry'[e].task = entry[e].task
                        /\ entry'[e].bindings = entry[e].bindings
                        /\ entry'[e] \in EntryType(e[1])
    /\ UNCHANGED <<known, queue>>

\* The current entry of one known is an entry of its own.
LEMMA CurrentTyped ==
    ASSUME TypeOK
    PROVE  /\ \A p \in Known : Current(p) \in Entry /\ p \in Peripherals /\ Current(p)[1] = p
           /\ CurrentEntries \subseteq Entry
           /\ Known \subseteq Peripherals
           /\ \A e \in Entry : IsCurrent(e) <=> e \in CurrentEntries
           /\ \A e \in Entry : IsCurrent(e) <=> e[1] \in Known /\ e = Current(e[1])
<1>1. known \in [Peripherals -> Lives \cup {NoLife}]
  BY DEF TypeOK
<1>2. \A p \in Known : Current(p) \in Entry /\ p \in Peripherals /\ Current(p)[1] = p
  BY <1>1 DEF Known, Current, Entry
<1>3. \A e \in Entry : e[1] \in Peripherals /\ e[2] \in Lives /\ e = <<e[1], e[2]>> /\ e[2] # NoLife
  BY Numbers DEF Entry
<1> QED
  BY <1>1, <1>2, <1>3 DEF Known, Current, CurrentEntries, IsCurrent

\* The tasks asked for are tasks.
LEMMA TaskTyped ==
    /\ \A e \in Entry : \A do \in {"boot", "refresh", "close", "enable", "disable", "restart",
                                   "settings", "platform", "fail", "quit", "started"} :
          Task(do, e) \in TaskType /\ Task(do, e).do = do /\ Task(do, e).e = e
    /\ Refresh \in TaskType /\ Refresh.do = "refresh"
BY Numbers DEF Task, TaskType, Refresh

\* Queue asks for its task.
LEMMA QueueAsks ==
    ASSUME NEW t \in TaskType, Queue(t), t.do \notin {"started", "refresh"}
    PROVE  Asking(t)
BY DEF Queue, Asking

\* QueueRefresh asks for a refresh, or collects.
LEMMA RefreshAsks ==
    ASSUME NEW there \in SUBSET Peripherals, QueueRefresh(there)
    PROVE  Asking(Refresh)
BY TaskTyped DEF QueueRefresh, Queue, Asking, Collects

\* What the type invariant says of the entries.
LEMMA EntryOf ==
    ASSUME TypeOK
    PROVE  /\ DOMAIN entry = Entry
           /\ \A e \in Entry : entry[e] \in EntryType(e[1]) /\ e[1] \in Peripherals /\ e[2] \in Lives
                               /\ e = <<e[1], e[2]>>
BY DEF TypeOK, Entry

\* Collecting leaves each entry as it is, or adopts one nobody refers to.
LEMMA CollectsDo ==
    ASSUME TypeOK, Collects
    PROVE  /\ known' \in [Peripherals -> Lives \cup {NoLife}]
           /\ DOMAIN entry' = Entry
           /\ \A e \in Entry :
                 \/ entry'[e] = entry[e]
                 \/ /\ entry'[e] = Adopted(e[1])
                    /\ entry'[e] \in EntryType(e[1])
                    /\ entry'[e].state \in {"disabled", "failed", "waiting"}
                    /\ entry'[e].task = NoTask
                    /\ ~ IsReferred(e)
                    /\ known[e[1]] = NoLife /\ known'[e[1]] = e[2]
<1>1. PICK there \in SUBSET Peripherals : Collect(there)
  BY DEF Collects
<1> QED
  BY <1>1, CollectDoes

\* A pass collects.
LEMMA PassCollects ==
    ASSUME Collect(Present)
    PROVE  Collects
BY ThereAre DEF Collects

\* What a peripheral tells while it starts is noted, and so is a retry that falls due.
LEMMA OneNotes ==
    ASSUME TypeOK, NEW e \in Entry, NEW x \in EntryType(e[1]), x.state = entry[e].state,
           x.task = entry[e].task, x.bindings = entry[e].bindings,
           entry' = [entry EXCEPT ![e] = x], UNCHANGED <<known, queue>>
    PROVE  Noting
<1>1. DOMAIN entry = Entry /\ \A f \in Entry : entry[f] \in EntryType(f[1])
  BY EntryOf
<1>2. DOMAIN entry' = Entry /\ \A f \in Entry : entry'[f] = IF f = e THEN x ELSE entry[f]
  BY <1>1
<1> QED
  BY <1>1, <1>2 DEF Noting

\* What is told of one that starts is noted.
LEMMA TellingNotes ==
    ASSUME TypeOK, NEW p \in Peripherals, TellFailure(p) \/ TellStop(p), StateOf(p) = "starting"
    PROVE  Noting
<1> DEFINE e == Current(p)
<1>1. e \in Entry /\ e[1] = p
  BY CurrentTyped DEF TellFailure, TellStop
<1>2. entry[e] \in EntryType(p)
  BY <1>1, EntryOf
<1>3. CASE TellFailure(p)
  <2> DEFINE x == [entry[e] EXCEPT !.toldFailure = TRUE]
  <2>1. /\ x \in EntryType(p) /\ x.state = entry[e].state
        /\ x.task = entry[e].task /\ x.bindings = entry[e].bindings
    BY <1>2 DEF EntryType
  <2>2. entry' = [entry EXCEPT ![e] = x] /\ UNCHANGED <<known, queue>>
    BY <1>3 DEF TellFailure
  <2> HIDE DEF x, e
  <2> QED
    BY <1>1, <2>1, <2>2, OneNotes
<1>4. CASE TellStop(p)
  <2> DEFINE x == [entry[e] EXCEPT !.stopping = TRUE]
  <2>1. /\ x \in EntryType(p) /\ x.state = entry[e].state
        /\ x.task = entry[e].task /\ x.bindings = entry[e].bindings
    BY <1>2 DEF EntryType
  <2>2. entry' = [entry EXCEPT ![e] = x] /\ UNCHANGED <<known, queue>>
    BY <1>4 DEF TellStop
  <2> HIDE DEF x, e
  <2> QED
    BY <1>1, <2>1, <2>2, OneNotes
<1> QED
  BY <1>3, <1>4

\* A retry that falls due is noted.
LEMMA DueNotes ==
    ASSUME TypeOK, NEW e \in Entry, RetryDue(e)
    PROVE  Noting
<1> DEFINE x == [entry[e] EXCEPT !.retry = FALSE]
<1>1. /\ x \in EntryType(e[1]) /\ x.state = entry[e].state
      /\ x.task = entry[e].task /\ x.bindings = entry[e].bindings
  BY EntryOf DEF EntryType
<1>2. entry' = [entry EXCEPT ![e] = x] /\ UNCHANGED <<known, queue>>
  BY DEF RetryDue
<1> HIDE DEF x
<1> QED
  BY <1>1, <1>2, OneNotes

\* A call from outside leaves the holder and its starts alone: it notes something, or
\* asks for a task.
LEMMA CallsDo ==
    ASSUME TypeOK, Called \/ Boot \/ Retry
    PROVE  /\ IsYielding
           /\ UNCHANGED <<hub, bound, work, round, starts, gaveUp>>
           /\ \A p \in Peripherals : object'[p].call = object[p].call
           /\ (\E t : Asking(t)) \/ Noting
<1> USE DEF CanCall
<1>0. /\ object \in [Peripherals -> [call : Calls!Call, settings : 0..1, platform : 0..1,
                                      failed : BOOLEAN, quit : BOOLEAN]]
      /\ DOMAIN entry = Entry /\ \A e \in Entry : entry[e] \in EntryType(e[1])
  BY DEF TypeOK
<1>1. CASE Boot
  <2>1. Task("boot", NoEntry) \in TaskType /\ Task("boot", NoEntry).do = "boot"
    BY TaskTyped, Numbers
  <2>2. Asking(Task("boot", NoEntry))
    BY <1>1, <2>1 DEF Boot, Asking
  <2> QED
    BY <1>1, <2>2 DEF Boot
<1>2. CASE Close
  <2>1. Task("close", NoEntry) \in TaskType /\ Task("close", NoEntry).do = "close"
    BY TaskTyped, Numbers
  <2>2. Asking(Task("close", NoEntry))
    BY <1>2, <2>1 DEF Close, Asking
  <2> QED
    BY <1>2, <2>2 DEF Close
<1>3. CASE UpdatePlatform
  <2> DEFINE t == [Task("platform", NoEntry) EXCEPT !.all = {e \in CurrentEntries : IsStarted(e)}]
  <2>1. t \in TaskType /\ t.do = "platform"
    BY CurrentTyped, Numbers DEF Task, TaskType
  <2>2. Asking(t)
    <3> HIDE DEF t
    <3>1. Queue(t)
      BY <1>3 DEF UpdatePlatform, t
    <3> QED
      BY <2>1, <3>1, QueueAsks
  <2> HIDE DEF t
  <2>3. \E u : Asking(u)
    BY <2>2
  <2> QED
    BY <1>3, <2>3 DEF UpdatePlatform
<1>4. ASSUME NEW p \in Peripherals,
             Enable(p) \/ Disable(p) \/ Restart(p) \/ UpdateSettings(p)
      PROVE  /\ IsYielding
             /\ UNCHANGED <<hub, bound, work, round, starts, gaveUp, object>>
             /\ \E t : Asking(t)
  <2>1. p \in Known
    BY <1>4 DEF Enable, Disable, Restart, UpdateSettings
  <2>2. \A do \in {"enable", "disable", "restart", "settings"} :
           Task(do, Current(p)) \in TaskType /\ Task(do, Current(p)).do = do
    BY <2>1, CurrentTyped, TaskTyped
  <2>3. \E do \in {"enable", "disable", "restart", "settings"} : Queue(Task(do, Current(p)))
    BY <1>4 DEF Enable, Disable, Restart, UpdateSettings
  <2>4. \E t : Asking(t)
    BY <2>2, <2>3, QueueAsks
  <2> QED
    BY <1>4, <2>4 DEF Enable, Disable, Restart, UpdateSettings
<1>5. ASSUME \/ TimerFires
             \/ \E p \in Peripherals : RemoveGiven(p) \/ AddGiven(p) \/ Plug(p)
             \/ \E x \in Endpoints : Offer(x)
      PROVE  /\ IsYielding
             /\ UNCHANGED <<hub, bound, work, round, starts, gaveUp, object>>
             /\ \E t : Asking(t)
  <2>1. \E there \in SUBSET Peripherals : QueueRefresh(there)
    BY <1>5, ThereAre DEF TimerFires, RemoveGiven, AddGiven, Plug, Offer
  <2>2. Asking(Refresh)
    BY <2>1, RefreshAsks
  <2> QED
    BY <1>5, <2>2 DEF TimerFires, RemoveGiven, AddGiven, Plug, Offer
<1>6. ASSUME NEW p \in Peripherals, TellFailure(p) \/ TellStop(p)
      PROVE  /\ IsYielding
             /\ UNCHANGED <<hub, bound, work, round, starts, gaveUp>>
             /\ \A q \in Peripherals : object'[q].call = object[q].call
             /\ (\E t : Asking(t)) \/ Noting
  <2>1. p \in Known /\ Current(p) \in Entry
    BY <1>6, CurrentTyped DEF TellFailure, TellStop
  <2>2. \A q \in Peripherals : object'[q].call = object[q].call
    BY <1>6, <1>0 DEF TellFailure, TellStop
  <2>3. ASSUME Queue(Task("fail", Current(p))) \/ Queue(Task("quit", Current(p)))
        PROVE  \E t : Asking(t)
    BY <2>1, <2>3, TaskTyped, QueueAsks
  <2>4. CASE StateOf(p) = "starting"
    <3>1. Noting
      BY <1>6, <2>4, TellingNotes
    <3> QED
      BY <1>6, <2>2, <3>1 DEF TellFailure, TellStop
  <2>5. CASE StateOf(p) # "starting"
    <3>1. Queue(Task("fail", Current(p))) \/ Queue(Task("quit", Current(p)))
      BY <1>6, <2>5 DEF TellFailure, TellStop
    <3>2. \E t : Asking(t)
      BY <2>3, <3>1
    <3> QED
      BY <1>6, <2>2, <3>2 DEF TellFailure, TellStop
  <2> QED
    BY <1>6, <2>4, <2>5
<1>7. ASSUME NEW e \in Entry, RetryDue(e)
      PROVE  /\ IsYielding
             /\ UNCHANGED <<hub, bound, work, round, starts, gaveUp, object>>
             /\ Noting
  BY <1>7, DueNotes DEF RetryDue
<1> QED
  BY <1>1, <1>2, <1>3, <1>4, <1>5, <1>6, <1>7 DEF Called, Retry

-----------------------------------------------------------------------------
(* What may be put into orderly work. *)

\* Work as it may be.
Fits(w) == w \in Seq(StepType) /\ Orderly(w)

\* When steps may be put in the place of the head of the work.
LEMMA GoOnFits ==
    ASSUME NEW w, Fits(w), w # <<>>, NEW steps, Fits(steps),
           \/ Head(w).do \in LastSteps
           \/ \A x \in ToSet(steps) : x.do \notin LastSteps /\ (x.do \in Stops => x.to # "disabled"),
           Head(w).do \in Stops => \A y \in ToSet(steps) : y.do \in Stops,
           Head(w).do \in Hooks \cup {"hook"} =>
               \A y \in ToSet(steps) : y.do \in Hooks \cup {"hook"} /\ y.e = Head(w).e
    PROVE  /\ Fits(steps \o Tail(w))
           /\ ToSet(steps \o Tail(w)) = ToSet(steps) \cup ToSet(Tail(w))
<1> DEFINE v == Tail(w)
<1>1. /\ Orderly(v)
      /\ \A x \in ToSet(v) :
                 /\ x.do \notin Ongoing \cup {"missed"}
                 /\ x.do \in Stops \cup {"failed"} => Head(w).do \in Stops
                 /\ x.do \in Hooks => Head(w).do \in Hooks \cup {"hook"} /\ Head(w).e = x.e
      /\ Head(w).do \in LastSteps => v = <<>>
  BY OrderlyTail DEF Fits
<1>2. v \in Seq(StepType)
  BY SetOfTail DEF Fits
<1> HIDE DEF v
<1>3. steps \in Seq(StepType) /\ Orderly(steps)
  BY DEF Fits
<1>4. v # <<>> => \A x \in ToSet(steps) :
         x.do \notin LastSteps /\ (x.do \in Stops => x.to # "disabled")
  BY <1>1
<1>5. /\ \A x \in ToSet(v) : x.do \in Stops \cup {"failed"} =>
             \A y \in ToSet(steps) : y.do \in Stops
      /\ \A x \in ToSet(v) : x.do \in Hooks =>
             \A y \in ToSet(steps) : y.do \in Hooks \cup {"hook"} /\ y.e = x.e
  BY <1>1
<1>6. Orderly(steps \o v)
  BY <1>1, <1>2, <1>3, <1>4, <1>5, OrderlyConcat
<1>7. steps \o v \in Seq(StepType) /\ ToSet(steps \o v) = ToSet(steps) \cup ToSet(v)
  BY <1>2, <1>3, SetOfConcat
<1> QED
  BY <1>6, <1>7 DEF Fits, v

\* The head may go without anything in its place.
LEMMA TailFits ==
    ASSUME NEW w, Fits(w), w # <<>>
    PROVE  Fits(Tail(w)) /\ <<>> \o Tail(w) = Tail(w)
BY OrderlyTail, SetOfTail DEF Fits

\* A stop going on is the stop it was.
LEMMA StopGoesOn ==
    ASSUME NEW w, Fits(w), w # <<>>, Head(w).do \in Stops, NEW do \in Stops
    PROVE  LET x == [Head(w) EXCEPT !.do = do]
           IN  /\ Fits(<<x>> \o Tail(w))
               /\ ToSet(<<x>> \o Tail(w)) = {x} \cup ToSet(Tail(w))
               /\ x.do = do /\ x.e = Head(w).e /\ x.to = Head(w).to
<1> DEFINE x == [Head(w) EXCEPT !.do = do]
           v == Tail(w)
           y == <<x>> \o v
<1>1. Head(w) \in StepType /\ v \in Seq(StepType) /\ w \in Seq(StepType) /\ Orderly(w)
  BY SetOfTail DEF Fits
<1>2. x \in StepType /\ x.do = do /\ x.e = Head(w).e /\ x.to = Head(w).to
  BY <1>1 DEF StepType, Stops
<1>3. /\ Len(w) \in Nat \ {0} /\ DOMAIN w = 1..Len(w) /\ Head(w) = w[1]
      /\ Len(v) = Len(w) - 1 /\ DOMAIN v = 1..Len(v) /\ \A i \in 1..(Len(w) - 1) : v[i] = w[i + 1]
  BY <1>1
<1> HIDE DEF x, v
<1>4. y \in Seq(StepType) /\ ToSet(y) = {x} \cup ToSet(v)
  BY <1>1, <1>2, SetOfPrefixed
<1>5. Len(y) = Len(v) + 1 /\ y[1] = x /\ \A i \in 1..Len(v) : y[i + 1] = v[i]
  BY <1>1, <1>2
<1> HIDE DEF y
<1>6. DOMAIN y = 1..Len(w) /\ Len(y) = Len(w) /\ \A i \in 2..Len(w) : y[i] = w[i]
  <2>1. DOMAIN y = 1..Len(w) /\ Len(y) = Len(w)
    BY <1>3, <1>4, <1>5
  <2>2. ASSUME NEW i \in 2..Len(w) PROVE y[i] = w[i]
    <3>1. i - 1 \in 1..Len(v) /\ i - 1 \in 1..(Len(w) - 1) /\ (i - 1) + 1 = i
      BY <1>3
    <3> QED
      BY <3>1, <1>3, <1>5
  <2> QED
    BY <2>1, <2>2
<1>7. ASSUME NEW i \in 1..Len(w)
      PROVE  i = 1 \/ (i \in 2..Len(w) /\ y[i] = w[i] /\ i # 1)
  BY <1>6, <1>3
<1>8. ASSUME NEW i \in DOMAIN y
      PROVE  /\ y[i].do \in LastSteps => i = Len(y)
             /\ y[i].do \in Ongoing \cup {"missed"} => i = 1
             /\ y[i].do \in Stops \cup {"failed"} => \A j \in 1..(i - 1) : y[j].do \in Stops
             /\ y[i].do \in Hooks =>
                  \A j \in 1..(i - 1) : y[j].do \in Hooks \cup {"hook"} /\ y[j].e = y[i].e
             /\ y[i].do \in Stops /\ y[i].to = "disabled" =>
                  i + 1 = Len(y) /\ y[i + 1].do = "settle"
  <2>1. CASE i = 1
    <3>1. y[i] = x /\ w[1].do \in Stops /\ w[1].to = x.to /\ 1 \in DOMAIN w
      BY <2>1, <1>2, <1>3, <1>5
    <3>2. x.to = "disabled" => 1 + 1 = Len(w) /\ w[1 + 1].do = "settle"
      BY <1>1, <3>1 DEF Orderly
    <3>3. x.to = "disabled" => i + 1 = Len(y) /\ y[i + 1].do = "settle"
      BY <2>1, <3>2, <1>6
    <3>4. 1..(i - 1) = {}
      BY <2>1
    <3> QED
      BY <2>1, <3>1, <3>3, <3>4, <1>2 DEF Stops, LastSteps, Hooks
  <2>2. CASE i \in 2..Len(w) /\ y[i] = w[i] /\ i # 1
    <3>1. i \in DOMAIN w /\ 1 \in 1..(i - 1)
      BY <2>2, <1>3
    <3>2. /\ w[i].do \in LastSteps => i = Len(w)
          /\ w[i].do \in Ongoing \cup {"missed"} => i = 1
          /\ w[i].do \in Stops \cup {"failed"} => \A j \in 1..(i - 1) : w[j].do \in Stops
          /\ w[i].do \in Hooks => w[1].do \in Hooks \cup {"hook"}
          /\ w[i].do \in Stops /\ w[i].to = "disabled" =>
               i + 1 = Len(w) /\ w[i + 1].do = "settle"
      BY <1>1, <3>1 DEF Orderly
    <3>3. w[i].do \notin Hooks
      BY <3>2, <1>3 DEF Stops, Hooks
    <3>4. \A j \in 1..(i - 1) : j = 1 \/ y[j] = w[j]
      BY <2>2, <1>7, <1>3
    <3>5. w[i].do \in Stops /\ w[i].to = "disabled" =>
               i + 1 = Len(y) /\ y[i + 1].do = "settle"
      <4> SUFFICES ASSUME i + 1 = Len(w) PROVE y[i + 1] = w[i + 1]
        BY <3>2, <1>6
      <4> QED
        BY <2>2, <1>3, <1>6
    <3>6. y[1].do \in Stops
      BY <1>2, <1>5
    <3> QED
      BY <2>2, <3>2, <3>3, <3>4, <3>5, <3>6, <1>6
  <2> QED
    BY <2>1, <2>2, <1>6, <1>7
<1>9. Orderly(y)
  BY <1>8 DEF Orderly
<1> QED
  BY <1>2, <1>4, <1>9 DEF Fits, x, v, y

\* What comes after the head.
Rest == ToSet(Tail(work))

\* What a step may do.
DoNames == {"pass", "drop", "moves", "deliver", "start", "settle", "closed", "revive", "enable",
            "settings", "platform", "missed", "fail", "quit", "failed", "stop", "cancelled",
            "stopping", "hook"} \cup Hooks

\* The steps put into the work are steps.
LEMMA StepTyped ==
    /\ \A e \in Entry : \A do \in DoNames :
          /\ Step(do, e) \in StepType /\ Step(do, e).do = do /\ Step(do, e).e = e
          /\ Step(do, e).to = "waiting"
    /\ \A e : Stop(e) = Step("stop", e)
    /\ \A e \in Entry : StopTo(e, "disabled") \in StepType
    /\ \A e : /\ StopTo(e, "disabled").do = "stop" /\ StopTo(e, "disabled").e = e
              /\ StopTo(e, "disabled").to = "disabled"
    /\ Pass \in StepType /\ Pass.do = "pass" /\ Settle \in StepType /\ Settle.do = "settle"
    /\ Step("drop", NoEntry) \in StepType /\ Step("moves", NoEntry) \in StepType
    /\ Step("start", NoEntry) \in StepType /\ Step("closed", NoEntry) \in StepType
BY Numbers DEF Step, StepType, Stop, StopTo, Pass, Settle, DoNames, Hooks

\* What the order says of the head and of what is after it.
LEMMA HeadFits ==
    ASSUME TypeOK, WorkInOrder, work # <<>>
    PROVE  /\ Fits(work) /\ Fits(Tail(work)) /\ <<>> \o Tail(work) = Tail(work)
           /\ Head(work) \in StepType /\ Rest \subseteq StepType
           /\ Head(work).e \in Entry
           /\ Todo = {Head(work)} \cup Rest
           /\ \A x \in Rest :
                 /\ x.do \notin Ongoing \cup {"missed"}
                 /\ x.do \in Stops \cup {"failed"} => Head(work).do \in Stops
                 /\ x.do \in Hooks => Head(work).do \in Hooks \cup {"hook"} /\ Head(work).e = x.e
           /\ Head(work).do \in LastSteps => Tail(work) = <<>> /\ Rest = {}
           /\ Head(work).do \in Stops /\ Head(work).to = "disabled" =>
                 \A x \in Rest : x.do = "settle"
<1>1. Fits(work)
  BY DEF TypeOK, WorkInOrder, Fits
<1>2. /\ \A x \in Rest :
                 /\ x.do \notin Ongoing \cup {"missed"}
                 /\ x.do \in Stops \cup {"failed"} => Head(work).do \in Stops
                 /\ x.do \in Hooks => Head(work).do \in Hooks \cup {"hook"} /\ Head(work).e = x.e
      /\ Head(work).do \in LastSteps => Tail(work) = <<>>
      /\ Head(work).do \in Stops /\ Head(work).to = "disabled" =>
                 \E x : Tail(work) = <<x>> /\ x.do = "settle"
  BY <1>1, OrderlyTail DEF Fits, Rest
<1>3. Head(work).do \in LastSteps => Tail(work) = <<>> /\ Rest = {}
  BY <1>2, SetOfFew DEF Rest
<1>4. Head(work).do \in Stops /\ Head(work).to = "disabled" =>
                 \A x \in Rest : x.do = "settle"
  <2> SUFFICES ASSUME Head(work).do \in Stops /\ Head(work).to = "disabled"
               PROVE  \A x \in Rest : x.do = "settle"
    OBVIOUS
  <2>1. PICK x : Tail(work) = <<x>> /\ x.do = "settle"
    BY <1>2
  <2>2. ToSet(<<x>>) = {x}
    BY SetOfFew
  <2>3. Rest = {x}
    BY <2>1, <2>2 DEF Rest
  <2> QED
    BY <2>1, <2>3
<1>5. Rest \subseteq StepType
  <2>1. Tail(work) \in Seq(StepType)
    BY HeadTyped
  <2> QED
    BY <2>1 DEF Rest, ToSet
<1> QED
  BY <1>1, <1>2, <1>3, <1>4, <1>5, TailFits, HeadTyped DEF Rest

\* Steps put before the rest of the work.
LEMMA PutFits ==
    ASSUME TypeOK, WorkInOrder, work # <<>>, NEW steps, Fits(steps), GoOn(steps),
           \/ Head(work).do \in LastSteps
           \/ \A x \in ToSet(steps) : x.do \notin LastSteps /\ (x.do \in Stops => x.to # "disabled"),
           Head(work).do \in Stops => \A y \in ToSet(steps) : y.do \in Stops,
           Head(work).do \in Hooks \cup {"hook"} =>
               \A y \in ToSet(steps) : y.do \in Hooks \cup {"hook"} /\ y.e = Head(work).e
    PROVE  Fits(work') /\ Todo' = ToSet(steps) \cup Rest
<1>1. Fits(work)
  BY HeadFits
<1>2. /\ Fits(steps \o Tail(work))
      /\ ToSet(steps \o Tail(work)) = ToSet(steps) \cup ToSet(Tail(work))
  BY <1>1, GoOnFits
<1>3. work' = steps \o Tail(work)
  BY DEF GoOn
<1> QED
  BY <1>2, <1>3 DEF Todo, Rest

\* When one step, or two, are orderly.
LEMMA FewFit ==
    /\ Fits(<<>>)
    /\ \A x \in StepType : (x.do \in Stops => x.to # "disabled") => Fits(<<x>>)
    /\ \A x, y \in StepType :
             /\ x.do \notin LastSteps /\ (x.do \in Stops => x.to # "disabled")
             /\ y.do \notin Ongoing \cup Stops \cup Hooks \cup {"missed"}
             /\ y.do = "failed" => x.do \in Stops
             => Fits(<<x, y>>)
BY OrderlyFew DEF Fits

\* Only the head was done.
LEMMA DoneFits ==
    ASSUME TypeOK, WorkInOrder, work # <<>>, GoOn(<<>>)
    PROVE  Fits(work') /\ Todo' = Rest
<1>1. work' = Tail(work)
  BY HeadFits DEF GoOn
<1> QED
  BY <1>1, HeadFits DEF Todo, Rest

\* Stops of some entries, then a last step.
LEMMA StopsFit ==
    ASSUME NEW s \in Seq(Entry), NEW x \in StepType, x.do \in LastSteps
    PROVE  /\ Fits(Each(Stop, s) \o <<x>>)
           /\ ToSet(Each(Stop, s) \o <<x>>) = {Stop(e) : e \in ToSet(s)} \cup {x}
<1> DEFINE u == Each(Stop, s)
           v == <<x>>
<1>1. u \in Seq(StepType) /\ ToSet(u) = {Stop(e) : e \in ToSet(s)} /\ Orderly(u)
  BY StopsOf
<1>2. v \in Seq(StepType) /\ ToSet(v) = {x} /\ Orderly(v)
  BY SetOfFew, OrderlyFew DEF LastSteps, Stops
<1>3. ToSet(s) \subseteq Entry
  BY DEF ToSet
<1>4. \A y \in ToSet(u) : y.do = "stop" /\ y.to = "waiting"
  BY <1>1, <1>3, StepTyped DEF DoNames
<1> HIDE DEF u, v
<1>5. x.do \notin Ongoing \cup Stops \cup Hooks \cup {"missed", "failed"}
  BY DEF LastSteps, Ongoing, Stops, Hooks
<1>6. "stop" \notin LastSteps
  BY DEF LastSteps
<1>7. Orderly(u \o v)
  BY <1>1, <1>2, <1>4, <1>5, <1>6, OrderlyConcat
<1>8. u \o v \in Seq(StepType) /\ ToSet(u \o v) = ToSet(u) \cup ToSet(v)
  BY <1>1, <1>2, SetOfConcat
<1> QED
  BY <1>1, <1>2, <1>7, <1>8 DEF Fits, u, v

\* Steps that are neither stops, hooks nor last ones, then a last step.
LEMMA PlainFit ==
    ASSUME NEW u \in Seq(StepType), NEW x \in StepType, x.do \in LastSteps,
           \A y \in ToSet(u) :
               y.do \notin LastSteps \cup Ongoing \cup Stops \cup Hooks \cup {"missed", "failed"}
    PROVE  Fits(u \o <<x>>) /\ ToSet(u \o <<x>>) = ToSet(u) \cup {x}
<1> DEFINE v == <<x>>
<1>1. v \in Seq(StepType) /\ ToSet(v) = {x} /\ Orderly(v)
  BY SetOfFew, OrderlyFew DEF LastSteps, Stops
<1>2. Orderly(u)
  BY DEF Orderly, ToSet
<1> HIDE DEF v
<1>3. x.do \notin Ongoing \cup Stops \cup Hooks \cup {"missed", "failed"}
  BY DEF LastSteps, Ongoing, Stops, Hooks
<1>4. Orderly(u \o v)
  BY <1>1, <1>2, <1>3, OrderlyConcat
<1>5. u \o v \in Seq(StepType) /\ ToSet(u \o v) = ToSet(u) \cup ToSet(v)
  BY <1>1, SetOfConcat
<1> QED
  BY <1>1, <1>4, <1>5 DEF Fits, v

-----------------------------------------------------------------------------
(* What each step leaves of the work. *)

\* A change made or not to be made leaves the rest.
LEMMA DoneWork ==
    ASSUME TypeOK, WorkInOrder,
           Revive \/ LetStart \/ CountFailure \/ StopDisabled \/ EndStop \/ NoChange
    PROVE  work # <<>> /\ Fits(work') /\ Todo' = Rest
<1>1. work # <<>> /\ GoOn(<<>>)
  BY DEF Revive, LetStart, CountFailure, StopDisabled, EndStop, NoChange, HeadIs, StopsEntry
<1> QED
  BY <1>1, DoneFits

\* The last step of a task leaves nothing.
LEMMA FreeWork ==
    ASSUME TypeOK, WorkInOrder, SettleChange \/ Closed
    PROVE  work # <<>> /\ Fits(work') /\ Todo' = {} /\ Rest = {}
<1>1. work # <<>> /\ work' = <<>> /\ Head(work).do \in LastSteps
  BY DEF SettleChange, Closed, HeadIs, LastSteps
<1> QED
  BY <1>1, HeadFits, FewFit, SetOfFew DEF Todo

\* What is to be told to one that runs becomes a hook.
LEMMA TellOrNoteWork ==
    ASSUME TypeOK, WorkInOrder, TellOrNote
    PROVE  LET e == Head(work).e
               hook == IF HeadIs("settings") THEN "tell_settings" ELSE "tell_platform"
           IN  /\ work # <<>> /\ Fits(work')
               /\ \/ entry[e].state = "running" /\ Todo' = {Step(hook, e)} \cup Rest
                  \/ entry[e].state = "starting" /\ Todo' = Rest
<1> DEFINE e == Head(work).e
           hook == IF HeadIs("settings") THEN "tell_settings" ELSE "tell_platform"
           x == Step(hook, e)
<1>1. work # <<>> /\ Head(work).do \in {"settings", "platform"}
  BY DEF TellOrNote, HeadIs
<1>2. \/ entry[e].state = "running" /\ GoOn(<<x>>)
      \/ entry[e].state = "starting" /\ GoOn(<<>>)
  BY DEF TellOrNote
<1>3. x \in StepType /\ x.do \in Hooks
  BY <1>1, HeadFits, StepTyped DEF DoNames, Hooks
<1> HIDE DEF x
<1>4. Fits(<<x>>) /\ ToSet(<<x>>) = {x}
  BY <1>3, FewFit, SetOfFew DEF Stops, Hooks
<1>5. x.do \notin LastSteps \cup Stops
  BY <1>3 DEF LastSteps, Stops, Hooks
<1>6. Head(work).do \notin Stops \cup Hooks \cup {"hook"}
  BY <1>1 DEF Stops, Hooks
<1>7. GoOn(<<x>>) => Fits(work') /\ Todo' = {x} \cup Rest
  BY <1>1, <1>4, <1>5, <1>6, PutFits
<1>8. GoOn(<<>>) => Fits(work') /\ Todo' = Rest
  BY <1>1, DoneFits
<1> QED
  BY <1>1, <1>2, <1>7, <1>8 DEF x

\* What was missed becomes the hooks that tell it.
LEMMA TellMissedWork ==
    ASSUME TypeOK, WorkInOrder, TellMissed
    PROVE  LET e == Head(work).e
           IN  /\ work # <<>> /\ Head(work).do = "missed" /\ e \in Entry /\ Fits(work')
               /\ Todo' = {x \in {Step("tell_platform", e)} : entry[e].missedPlatform}
                          \cup {x \in {Step("tell_settings", e)} : entry[e].missedSettings}
                          \cup Rest
<1> DEFINE e == Head(work).e
           a == Step("tell_platform", e)
           b == Step("tell_settings", e)
           u == IF entry[e].missedPlatform THEN <<a>> ELSE <<>>
           v == IF entry[e].missedSettings THEN <<b>> ELSE <<>>
<1>1. work # <<>> /\ Head(work).do = "missed"
  BY DEF TellMissed, HeadIs
<1>2. GoOn(u \o v)
  BY DEF TellMissed, Missed
<1>3. e \in Entry
  BY <1>1, HeadFits
<1>4. a \in StepType /\ b \in StepType /\ a.do \in Hooks /\ b.do \in Hooks /\ a.e = e /\ b.e = e
  BY <1>3, StepTyped DEF DoNames, Hooks
<1> HIDE DEF a, b
<1>5. u \in Seq(StepType) /\ ToSet(u) = {x \in {a} : entry[e].missedPlatform} /\ Orderly(u)
  BY <1>4, OrderlyFew, SetOfFew DEF Stops, Hooks
<1>6. v \in Seq(StepType) /\ ToSet(v) = {x \in {b} : entry[e].missedSettings} /\ Orderly(v)
  BY <1>4, OrderlyFew, SetOfFew DEF Stops, Hooks
<1> HIDE DEF u, v
<1>7. u \o v \in Seq(StepType) /\ ToSet(u \o v) = ToSet(u) \cup ToSet(v)
  BY <1>5, <1>6, SetOfConcat
<1>8. \A x \in ToSet(u) \cup ToSet(v) : x.do \in Hooks /\ x.e = e
  BY <1>4, <1>5, <1>6
<1>9. \A do \in Hooks : do \notin LastSteps \cup Stops \cup Ongoing \cup {"missed", "failed"}
  BY DEF Hooks, LastSteps, Stops, Ongoing
<1>10. Orderly(u \o v)
  BY <1>5, <1>6, <1>8, <1>9, OrderlyConcat
<1> DEFINE s == u \o v
<1>11. Fits(s) /\ GoOn(s) /\ ToSet(s) = ToSet(u) \cup ToSet(v)
  BY <1>2, <1>7, <1>10 DEF Fits
<1> HIDE DEF s
<1>12. "missed" \notin LastSteps \cup Stops \cup Hooks \cup {"hook"}
  BY DEF Hooks, LastSteps, Stops
<1>13. Fits(work') /\ Todo' = ToSet(s) \cup Rest
  BY <1>1, <1>8, <1>9, <1>11, <1>12, PutFits
<1> QED
  BY <1>1, <1>3, <1>5, <1>6, <1>11, <1>13 DEF a, b

\* What one told becomes its stop, and its failure counted after it.
LEMMA TakeToldWork ==
    ASSUME TypeOK, WorkInOrder, TakeTold
    PROVE  LET e == Head(work).e
           IN  /\ work # <<>> /\ Fits(work') /\ e \in Entry /\ entry[e].state = "running"
               /\ \/ Head(work).do = "fail" /\ Todo' = {Stop(e), Step("failed", e)} \cup Rest
                  \/ Head(work).do = "quit" /\ Todo' = {Stop(e)} \cup Rest
<1> DEFINE e == Head(work).e
           x == Stop(e)
           y == Step("failed", e)
<1>1. work # <<>> /\ Head(work).do \in {"fail", "quit"} /\ entry[e].state = "running"
  BY DEF TakeTold, HeadIs
<1>2. e \in Entry
  BY <1>1, HeadFits
<1>3. x \in StepType /\ x.do = "stop" /\ x.to = "waiting" /\ y \in StepType /\ y.do = "failed"
  BY <1>2, StepTyped DEF DoNames
<1>4. \/ Head(work).do = "fail" /\ GoOn(<<x, y>>)
      \/ Head(work).do = "quit" /\ GoOn(<<x>>)
  BY DEF TakeTold, HeadIs
<1> HIDE DEF x, y
<1>5. Fits(<<x>>) /\ ToSet(<<x>>) = {x} /\ Fits(<<x, y>>) /\ ToSet(<<x, y>>) = {x, y}
  BY <1>3, FewFit, SetOfFew DEF Stops, Ongoing, Hooks, LastSteps
<1>6. Head(work).do \notin Stops \cup Hooks \cup {"hook"}
  BY <1>1 DEF Stops, Hooks
<1>7. x.do \notin LastSteps /\ y.do \notin LastSteps \cup Stops
  BY <1>3 DEF Stops, LastSteps
<1>8. GoOn(<<x>>) => Fits(work') /\ Todo' = {x} \cup Rest
  BY <1>1, <1>3, <1>5, <1>6, <1>7, PutFits
<1>9. GoOn(<<x, y>>) => Fits(work') /\ Todo' = {x, y} \cup Rest
  BY <1>1, <1>3, <1>5, <1>6, <1>7, PutFits
<1> QED
  BY <1>1, <1>2, <1>4, <1>8, <1>9 DEF x, y

\* The users go before the one that is to stop.
LEMMA StopUsersWork ==
    ASSUME TypeOK, WorkInOrder, StopUsers
    PROVE  LET e == Head(work).e
           IN  /\ work # <<>> /\ Fits(work') /\ e \in Entry /\ Head(work).do = "stop"
               /\ InsideUsers(e) \subseteq Entry
               /\ Todo' = {Stop(u) : u \in InsideUsers(e)} \cup Todo
<1> DEFINE e == Head(work).e
           s == UsersFirst(InsideUsers(e))
           w == Each(Stop, s)
<1>1. work # <<>> /\ Head(work).do = "stop" /\ work' = w \o work
  BY DEF StopUsers, StopsEntry, HeadIs
<1>2. e \in Entry /\ Fits(work)
  BY <1>1, HeadFits
<1>3. InsideUsers(e) \in SUBSET Entry
  BY CurrentTyped DEF InsideUsers
<1>4. s \in Seq(Entry) /\ ToSet(s) = InsideUsers(e)
  BY <1>3, UsersFirstLists
<1> HIDE DEF s
<1>5. w \in Seq(StepType) /\ ToSet(w) = {Stop(u) : u \in InsideUsers(e)} /\ Orderly(w)
  BY <1>4, StopsOf
<1>6. \A x \in ToSet(w) : x.do = "stop" /\ x.to = "waiting"
  BY <1>3, <1>5, StepTyped DEF DoNames
<1> HIDE DEF w
<1>7. \A x \in Todo : x.do \notin Ongoing \cup Hooks \cup {"missed"}
  BY <1>1, HeadFits DEF Ongoing, Hooks
<1>8. work \in Seq(StepType) /\ Orderly(work)
  BY <1>2 DEF Fits
<1>9. Orderly(w \o work)
  BY <1>5, <1>6, <1>7, <1>8, OrderlyConcat DEF Todo, Stops, LastSteps
<1>10. w \o work \in Seq(StepType) /\ ToSet(w \o work) = ToSet(w) \cup ToSet(work)
  BY <1>5, <1>8, SetOfConcat
<1> QED
  BY <1>1, <1>2, <1>3, <1>5, <1>9, <1>10 DEF Fits, Todo

\* A stop in progress stays at the head.
LEMMA StoppingWork ==
    ASSUME TypeOK, WorkInOrder, NEW do \in {"cancelled", "stopping"}, work # <<>>,
           Head(work).do \in Stops, GoOn(<<[Head(work) EXCEPT !.do = do]>>)
    PROVE  LET x == [Head(work) EXCEPT !.do = do]
           IN  /\ Fits(work') /\ Todo' = {x} \cup Rest
               /\ x.do = do /\ x.e = Head(work).e /\ x.to = Head(work).to
<1>1. Fits(work) /\ do \in Stops
  BY HeadFits DEF Stops
<1>2. work' = <<[Head(work) EXCEPT !.do = do]>> \o Tail(work)
  BY DEF GoOn
<1> QED
  BY <1>1, <1>2, StopGoesOn DEF Todo, Rest

\* A hook in progress stays at the head.
LEMMA BeginHookWork ==
    ASSUME TypeOK, WorkInOrder, BeginHook
    PROVE  LET e == Head(work).e
           IN  /\ work # <<>> /\ Head(work).do \in Hooks /\ e \in Entry
               /\ Fits(work') /\ Todo' = {Step("hook", e)} \cup Rest
<1> DEFINE e == Head(work).e
           x == Step("hook", e)
<1>1. work # <<>> /\ Head(work).do \in Hooks /\ GoOn(<<x>>)
  BY DEF BeginHook
<1>2. e \in Entry
  BY <1>1, HeadFits
<1>3. x \in StepType /\ x.do = "hook" /\ x.e = e
  BY <1>2, StepTyped DEF DoNames
<1> HIDE DEF x
<1>4. Fits(<<x>>) /\ ToSet(<<x>>) = {x}
  BY <1>3, FewFit, SetOfFew DEF Stops
<1>5. x.do \notin LastSteps \cup Stops /\ Head(work).do \notin Stops
  BY <1>1, <1>3 DEF LastSteps, Stops, Hooks
<1> QED
  BY <1>1, <1>2, <1>3, <1>4, <1>5, PutFits DEF x

\* PastHooks drops the hooks on e that come first, and nothing else.
LEMMA PastHooksIs ==
    ASSUME NEW rest \in Seq(StepType), NEW e
    PROVE  \E n \in 0..Len(rest) :
               /\ PastHooks(e, rest) = SubSeq(rest, n + 1, Len(rest))
               /\ \A i \in 1..n : rest[i].do \in Hooks /\ rest[i].e = e
               /\ n < Len(rest) => ~ (rest[n + 1].do \in Hooks /\ rest[n + 1].e = e)
<1> DEFINE IsHook(i) == rest[i].do \in Hooks /\ rest[i].e = e
           IsPast(k) == (\A i \in 1..k : IsHook(i)) /\ (k < Len(rest) => ~ IsHook(k + 1))
           Stopping == {k \in 0..Len(rest) : k < Len(rest) => ~ IsHook(k + 1)}
           n == CHOOSE k \in 0..Len(rest) : IsPast(k)
<1>1. Len(rest) \in Nat
  OBVIOUS
<1>2. Stopping \in SUBSET Nat /\ Len(rest) \in Stopping
  BY <1>1
<1>3. PICK k \in Stopping : \A m \in Stopping : k <= m
  <2> HIDE DEF Stopping
  <2> QED
    BY <1>2, FirstIs
<1>4. k \in 0..Len(rest) /\ (k < Len(rest) => ~ IsHook(k + 1))
  OBVIOUS
<1>5. ASSUME NEW i \in 1..k PROVE IsHook(i)
  <2>1. i - 1 \in 0..Len(rest) /\ i - 1 < Len(rest) /\ ~ (k <= i - 1) /\ (i - 1) + 1 = i
    BY <1>1, <1>4
  <2>2. i - 1 \notin Stopping
    <3> HIDE DEF Stopping
    <3> QED
      BY <1>3, <2>1
  <2> HIDE DEF IsHook
  <2> QED
    BY <2>1, <2>2
<1>6. IsPast(k)
  <2> HIDE DEF IsHook
  <2> QED
    BY <1>4, <1>5
<1>7. n \in 0..Len(rest) /\ IsPast(n)
  <2> HIDE DEF IsPast
  <2> QED
    BY <1>4, <1>6
<1>8. PastHooks(e, rest) = SubSeq(rest, n + 1, Len(rest))
  BY DEF PastHooks
<1> HIDE DEF n
<1> QED
  BY <1>7, <1>8

\* Past the hooks on an entry there is no hook, no stop and no failure.
LEMMA PastHooksFits ==
    ASSUME TypeOK, WorkInOrder, work # <<>>, Head(work).do = "hook"
    PROVE  LET e == Head(work).e
               past == ToSet(PastHooks(e, Tail(work)))
           IN  /\ Fits(PastHooks(e, Tail(work)))
               /\ past \subseteq Rest
               /\ \A x \in Rest \ past : x.do \in Hooks /\ x.e = e
               /\ \A x \in past : x.do \notin Hooks \cup Stops \cup Ongoing \cup {"failed", "missed"}
<1> DEFINE e == Head(work).e
           rest == Tail(work)
           w == PastHooks(e, rest)
<1>1. /\ Fits(rest)
      /\ \A x \in Rest :
                 /\ x.do \notin Ongoing \cup {"missed"}
                 /\ x.do \notin Stops \cup {"failed"}
                 /\ x.do \in Hooks => x.e = e
  BY HeadFits DEF Stops
<1>2. Rest = ToSet(rest) /\ rest \in Seq(StepType) /\ Orderly(rest)
  BY <1>1 DEF Rest, Fits
<1> HIDE DEF rest, e
<1>3. PICK n \in 0..Len(rest) :
               /\ w = SubSeq(rest, n + 1, Len(rest))
               /\ \A i \in 1..n : rest[i].do \in Hooks /\ rest[i].e = e
               /\ n < Len(rest) => ~ (rest[n + 1].do \in Hooks /\ rest[n + 1].e = e)
  BY <1>2, PastHooksIs
<1>4. /\ Len(rest) \in Nat /\ DOMAIN rest = 1..Len(rest) /\ n \in Nat
      /\ w \in Seq(StepType) /\ Len(w) = Len(rest) - n /\ DOMAIN w = 1..(Len(rest) - n)
      /\ \A i \in 1..(Len(rest) - n) : w[i] = rest[n + i]
  BY <1>2, <1>3
<1> HIDE DEF w
<1>5. ASSUME NEW i \in DOMAIN w
      PROVE  /\ n + i \in DOMAIN rest /\ w[i] = rest[n + i] /\ w[i] \in Rest
             /\ \A j \in 1..(i - 1) : n + j \in 1..((n + i) - 1) /\ w[j] = rest[n + j]
  <2>1. n + i \in DOMAIN rest /\ w[i] = rest[n + i]
    BY <1>4
  <2>2. w[i] \in Rest
    BY <1>2, <2>1 DEF ToSet
  <2>3. \A j \in 1..(i - 1) : n + j \in 1..((n + i) - 1) /\ j \in 1..(Len(rest) - n)
    BY <1>4
  <2> QED
    BY <2>1, <2>2, <2>3, <1>4
<1>6. ToSet(w) \subseteq Rest
  BY <1>5 DEF ToSet
<1>7. ASSUME NEW x \in Rest, x \notin ToSet(w)
      PROVE  x.do \in Hooks /\ x.e = e
  <2>1. PICK i \in 1..Len(rest) : x = rest[i]
    BY <1>2, <1>4 DEF ToSet
  <2>2. CASE i <= n
    <3>1. i \in 1..n
      BY <2>2, <1>4
    <3> QED
      BY <2>1, <3>1, <1>3
  <2>3. CASE ~ (i <= n)
    <3>1. i - n \in DOMAIN w /\ n + (i - n) = i
      BY <2>3, <1>4
    <3> DEFINE k == i - n
    <3>2. k \in DOMAIN w /\ n + k = i
      BY <3>1
    <3> HIDE DEF k
    <3>3. w[k] = x
      BY <3>2, <1>5, <2>1
    <3>4. x \in ToSet(w)
      BY <3>2, <3>3 DEF ToSet
    <3> QED
      BY <3>4, <1>7
  <2> QED
    BY <2>2, <2>3
<1>8. ASSUME NEW x \in ToSet(w)
      PROVE  x.do \notin Hooks
  <2>1. PICK i \in DOMAIN w : x = w[i]
    BY DEF ToSet
  <2>2. SUFFICES ASSUME x.do \in Hooks PROVE FALSE
    OBVIOUS
  <2>3. x.e = e /\ n + i \in DOMAIN rest /\ rest[n + i].do \in Hooks /\ rest[n + i].e = e
    BY <2>1, <2>2, <1>1, <1>5
  <2>4. n + 1 \in 1..Len(rest) /\ n < Len(rest) /\ (n + 1 = n + i \/ n + 1 \in 1..((n + i) - 1))
    BY <2>1, <1>4
  <2>5. rest[n + 1].do \in Hooks \cup {"hook"} /\ rest[n + 1].e = e
    BY <1>2, <2>3, <2>4 DEF Orderly
  <2>6. rest[n + 1] \in Rest
    BY <1>2, <1>4, <2>4 DEF ToSet
  <2>7. rest[n + 1].do # "hook"
    BY <2>6, <1>1 DEF Ongoing
  <2> QED
    BY <2>4, <2>5, <2>7, <1>3
<1>9. Orderly(w)
  <2> SUFFICES ASSUME NEW i \in DOMAIN w
               PROVE  /\ w[i].do \in LastSteps => i = Len(w)
                      /\ w[i].do \notin Stops \cup Hooks \cup Ongoing \cup {"missed", "failed"}
    BY DEF Orderly
  <2>1. w[i].do \notin Stops \cup Ongoing \cup {"missed", "failed"}
    BY <1>1, <1>5
  <2>2. w[i].do \notin Hooks
    BY <1>8 DEF ToSet
  <2>3. w[i].do \in LastSteps => n + i = Len(rest)
    BY <1>2, <1>5 DEF Orderly
  <2>4. n + i = Len(rest) => i = Len(w)
    BY <1>4
  <2> QED
    BY <2>1, <2>2, <2>3, <2>4
<1> QED
  BY <1>1, <1>4, <1>6, <1>7, <1>8, <1>9 DEF Fits, w, rest, e

\* After a hook the work goes on, or its entry stops and its other hooks are left out.
LEMMA EndHookWork ==
    ASSUME TypeOK, WorkInOrder, EndHook
    PROVE  LET e == Head(work).e
               past == ToSet(PastHooks(e, Tail(work)))
           IN  /\ work # <<>> /\ Head(work).do = "hook" /\ e \in Entry /\ Fits(work')
               /\ past \subseteq Rest
               /\ \A x \in Rest \ past : x.do \in Hooks /\ x.e = e
               /\ \A x \in past : x.do \notin Hooks \cup Stops \cup Ongoing \cup {"failed", "missed"}
               /\ \/ Todo' = Rest
                  \/ Todo' = {Stop(e)} \cup past
                  \/ Todo' = {Stop(e), Step("failed", e)} \cup past
<1> DEFINE e == Head(work).e
           w == PastHooks(e, Tail(work))
           x == Stop(e)
           y == Step("failed", e)
<1>1. work # <<>> /\ Head(work).do = "hook"
  BY DEF EndHook, HeadIs
<1>2. e \in Entry
  BY <1>1, HeadFits
<1>3. x \in StepType /\ x.do = "stop" /\ x.to = "waiting" /\ y \in StepType /\ y.do = "failed"
  BY <1>2, StepTyped DEF DoNames
<1>4. GoOn(<<>>) \/ work' = <<x>> \o w \/ work' = <<x, y>> \o w
  BY DEF EndHook
<1>5. /\ Fits(w)
      /\ ToSet(w) \subseteq Rest
      /\ \A z \in Rest \ ToSet(w) : z.do \in Hooks /\ z.e = e
      /\ \A z \in ToSet(w) : z.do \notin Hooks \cup Stops \cup Ongoing \cup {"failed", "missed"}
  BY <1>1, PastHooksFits
<1> HIDE DEF x, y, w
<1>6. ASSUME NEW steps, Fits(steps), work' = steps \o w,
             \A z \in ToSet(steps) : z.do \in {"stop", "failed"} /\ (z.do = "stop" => z.to # "disabled")
      PROVE  Fits(work') /\ Todo' = ToSet(steps) \cup ToSet(w)
  <2>1. w \in Seq(StepType) /\ Orderly(w) /\ steps \in Seq(StepType) /\ Orderly(steps)
    BY <1>5, <1>6 DEF Fits
  <2>2. /\ \A z \in ToSet(w) : z.do \notin Ongoing \cup {"missed"} \cup Stops \cup {"failed"} \cup Hooks
        /\ \A z \in ToSet(steps) : z.do \notin LastSteps /\ (z.do \in Stops => z.to # "disabled")
    BY <1>5, <1>6 DEF LastSteps, Stops
  <2>3. Orderly(steps \o w)
    BY <2>1, <2>2, OrderlyConcat
  <2>4. steps \o w \in Seq(StepType) /\ ToSet(steps \o w) = ToSet(steps) \cup ToSet(w)
    BY <2>1, SetOfConcat
  <2> QED
    BY <1>6, <2>3, <2>4 DEF Fits, Todo
<1>7. Fits(<<x>>) /\ ToSet(<<x>>) = {x} /\ Fits(<<x, y>>) /\ ToSet(<<x, y>>) = {x, y}
  BY <1>3, FewFit, SetOfFew DEF Stops, Ongoing, Hooks, LastSteps
<1>8. work' = <<x>> \o w => Fits(work') /\ Todo' = {x} \cup ToSet(w)
  BY <1>3, <1>6, <1>7
<1>9. work' = <<x, y>> \o w => Fits(work') /\ Todo' = {x, y} \cup ToSet(w)
  BY <1>3, <1>6, <1>7
<1>10. GoOn(<<>>) => Fits(work') /\ Todo' = Rest
  BY <1>1, DoneFits
<1> QED
  BY <1>1, <1>2, <1>4, <1>5, <1>8, <1>9, <1>10 DEF w, x, y

\* What follows a last step is all the work there is.
LEMMA LastHead ==
    ASSUME TypeOK, WorkInOrder, work # <<>>, Head(work).do \in LastSteps,
           NEW steps, Fits(steps), GoOn(steps)
    PROVE  Fits(work') /\ Todo' = ToSet(steps) /\ Rest = {}
<1>1. Head(work).do \notin Stops \cup Hooks \cup {"hook"}
  BY DEF LastSteps, Stops, Hooks
<1>2. Fits(work') /\ Todo' = ToSet(steps) \cup Rest
  BY <1>1, PutFits
<1>3. Rest = {}
  BY HeadFits
<1> QED
  BY <1>2, <1>3

\* A pass stops what is gone, then goes on.
LEMMA BeginPassWork ==
    ASSUME TypeOK, WorkInOrder, BeginPass
    PROVE  /\ work # <<>> /\ Head(work).do = "pass" /\ Rest = {} /\ Fits(work')
           /\ Gone \subseteq Entry
           /\ Todo' = {Stop(e) : e \in Gone} \cup {Step("drop", NoEntry)}
<1>1. /\ work # <<>> /\ Head(work).do = "pass"
      /\ GoOn(Each(Stop, InOrder(Gone)) \o <<Step("drop", NoEntry)>>)
  BY DEF BeginPass, HeadIs
<1>2. Gone \in SUBSET Entry
  BY CurrentTyped DEF Gone
<1>3. Step("drop", NoEntry) \in StepType /\ Step("drop", NoEntry).do \in LastSteps
  BY StepTyped, Numbers DEF DoNames, LastSteps
<1>4. InOrder(Gone) \in Seq(Entry) /\ ToSet(InOrder(Gone)) = Gone
  BY <1>2, InOrderLists
<1> DEFINE steps == Each(Stop, InOrder(Gone)) \o <<Step("drop", NoEntry)>>
<1>5. Fits(steps) /\ ToSet(steps) = {Stop(e) : e \in Gone} \cup {Step("drop", NoEntry)}
  BY <1>3, <1>4, StopsFit
<1>6. GoOn(steps)
  BY <1>1
<1> HIDE DEF steps
<1>7. "pass" \in LastSteps
  BY DEF LastSteps
<1> QED
  BY <1>1, <1>2, <1>5, <1>6, <1>7, LastHead

\* It stops what should not run, then goes on.
LEMMA DropUnwantedWork ==
    ASSUME TypeOK, WorkInOrder, DropUnwanted
    PROVE  LET unwanted == {e \in CurrentEntries : IsStarted(e) /\ e[1] \notin bound.wanted}
           IN  /\ work # <<>> /\ Head(work).do = "drop" /\ Rest = {} /\ Fits(work')
               /\ unwanted \subseteq Entry
               /\ Todo' = {Stop(e) : e \in unwanted} \cup {Step("moves", NoEntry)}
<1> DEFINE unwanted == {e \in CurrentEntries : IsStarted(e) /\ e[1] \notin bound.wanted}
           steps == Each(Stop, UsersFirst(unwanted)) \o <<Step("moves", NoEntry)>>
<1>1. /\ work # <<>> /\ Head(work).do = "drop" /\ GoOn(steps)
  BY DEF DropUnwanted, HeadIs
<1>2. unwanted \in SUBSET Entry
  BY CurrentTyped
<1> HIDE DEF unwanted
<1>3. Step("moves", NoEntry) \in StepType /\ Step("moves", NoEntry).do \in LastSteps
  BY StepTyped, Numbers DEF DoNames, LastSteps
<1>4. UsersFirst(unwanted) \in Seq(Entry) /\ ToSet(UsersFirst(unwanted)) = unwanted
  BY <1>2, UsersFirstLists
<1>5. Fits(steps) /\ ToSet(steps) = {Stop(e) : e \in unwanted} \cup {Step("moves", NoEntry)}
  BY <1>3, <1>4, StopsFit
<1> HIDE DEF steps
<1>7. "drop" \in LastSteps
  BY DEF LastSteps
<1> QED
  BY <1>1, <1>2, <1>5, <1>7, LastHead DEF unwanted

\* It looks at each one there, then goes on.
LEMMA BeginDeliverWork ==
    ASSUME TypeOK, WorkInOrder, BeginDeliver
    PROVE  /\ work # <<>> /\ Head(work).do = "moves" /\ Rest = {} /\ Fits(work')
           /\ CurrentEntries \subseteq Entry
           /\ Todo' = {Step("deliver", e) : e \in CurrentEntries} \cup {Step("start", NoEntry)}
<1> DEFINE s == InOrder(CurrentEntries)
           u == Each(LAMBDA e : Step("deliver", e), s)
           steps == u \o <<Step("start", NoEntry)>>
<1>1. /\ work # <<>> /\ Head(work).do = "moves" /\ GoOn(steps)
  BY DEF BeginDeliver, HeadIs
<1>2. CurrentEntries \in SUBSET Entry
  BY CurrentTyped
<1>3. Step("start", NoEntry) \in StepType /\ Step("start", NoEntry).do \in LastSteps
  BY StepTyped, Numbers DEF DoNames, LastSteps
<1>4. s \in Seq(Entry) /\ ToSet(s) = CurrentEntries
  BY <1>2, InOrderLists
<1>5. u = [i \in DOMAIN s |-> Step("deliver", s[i])]
  BY DEF Each
<1> HIDE DEF s, u
<1>6. \A e \in Entry : Step("deliver", e) \in StepType /\ Step("deliver", e).do = "deliver"
  BY StepTyped DEF DoNames
<1>7. DOMAIN s = 1..Len(s) /\ Len(s) \in Nat /\ \A i \in DOMAIN s : s[i] \in Entry
  BY <1>4
<1>8. u \in Seq(StepType) /\ DOMAIN u = DOMAIN s /\ \A i \in DOMAIN s : u[i] = Step("deliver", s[i])
  BY <1>5, <1>6, <1>7
<1>9. ToSet(u) = {Step("deliver", e) : e \in ToSet(s)}
  BY <1>8 DEF ToSet
<1>10. \A x \in ToSet(u) : x.do = "deliver"
  BY <1>2, <1>4, <1>6, <1>9
<1>11. "deliver" \notin LastSteps \cup Ongoing \cup Stops \cup Hooks \cup {"missed", "failed"}
  BY DEF LastSteps, Ongoing, Stops, Hooks
<1>12. Fits(steps) /\ ToSet(steps) = ToSet(u) \cup {Step("start", NoEntry)}
  BY <1>3, <1>8, <1>10, <1>11, PlainFit
<1> HIDE DEF steps
<1>13. "moves" \in LastSteps
  BY DEF LastSteps
<1> QED
  BY <1>1, <1>2, <1>4, <1>9, <1>12, <1>13, LastHead

\* What is handed to an entry are links of it.
LEMMA HandedTyped ==
    ASSUME TypeOK, NEW e \in Entry
    PROVE  /\ Handed(e) \in LinksOf(e[1])
           /\ \A M \in SUBSET DOMAIN Handed(e) : IsFiniteSet(M) /\ Cardinality(M) \in Nat
<1>1. e[1] \in Peripherals /\ hub.home.needs \in [Peripherals -> Seq(Need)]
  BY HubIs DEF TypeOK, Entry
<1>2. bound.links[e[1]] \in LinksOf(e[1])
  BY <1>1 DEF TypeOK
<1>3. Handed(e) \in LinksOf(e[1]) /\ DOMAIN Handed(e) = DOMAIN hub.home.needs[e[1]]
  BY <1>2 DEF Handed, LinksOf
<1>4. DOMAIN hub.home.needs[e[1]] = 1..Len(hub.home.needs[e[1]]) /\ Len(hub.home.needs[e[1]]) \in Nat
  BY <1>1
<1>5. IsFiniteSet(1..Len(hub.home.needs[e[1]]))
  BY <1>4, FS_Interval
<1>6. \A M \in SUBSET DOMAIN Handed(e) : IsFiniteSet(M)
  BY <1>3, <1>4, <1>5, FS_Subset
<1> QED
  BY <1>3, <1>6, FS_CardinalityType

\* One that runs is told what moved, one that does not is not.
LEMMA DeliverWork ==
    ASSUME TypeOK, WorkInOrder, Deliver
    PROVE  LET e == Head(work).e
           IN  /\ work # <<>> /\ Head(work).do = "deliver" /\ e \in Entry /\ Fits(work')
               /\ Todo' \ {Step("tell_need", e)} = Rest \ {Step("tell_need", e)}
               /\ Rest \subseteq Todo'
               /\ Todo' # Rest => entry[e].state = "running"
<1> DEFINE e == Head(work).e
           now == Handed(e)
           moved == {i \in DOMAIN now : now[i] # entry[e].bindings[i]}
           x == Step("tell_need", e)
           steps == [i \in 1..Cardinality(moved) |-> x]
<1>1. work # <<>> /\ Head(work).do = "deliver"
  BY DEF Deliver, HeadIs
<1>2. e \in Entry
  BY <1>1, HeadFits
<1>3. \/ entry[e].state = "running" /\ GoOn(steps)
      \/ entry[e].state # "running" /\ GoOn(<<>>)
  BY DEF Deliver
<1>4. Cardinality(moved) \in Nat
  BY <1>2, HandedTyped
<1>5. x \in StepType /\ x.do \in Hooks /\ x.e = e
  BY <1>2, StepTyped DEF DoNames, Hooks
<1> HIDE DEF moved, x
<1>6. steps \in Seq(StepType) /\ DOMAIN steps = 1..Cardinality(moved)
      /\ \A i \in DOMAIN steps : steps[i] = x
  BY <1>4, <1>5
<1> HIDE DEF steps
<1>7. ToSet(steps) \subseteq {x}
  BY <1>6 DEF ToSet
<1>8. \A do \in Hooks : do \notin LastSteps \cup Ongoing \cup Stops \cup {"missed", "failed"}
  BY DEF Hooks, LastSteps, Ongoing, Stops
<1>9. Orderly(steps)
  BY <1>4, <1>5, <1>6, <1>8 DEF Orderly
<1>10. "deliver" \notin LastSteps \cup Stops \cup Hooks \cup {"hook"}
  BY DEF LastSteps, Stops, Hooks
<1>11. GoOn(steps) => Fits(work') /\ Todo' = ToSet(steps) \cup Rest
  BY <1>1, <1>5, <1>6, <1>7, <1>8, <1>9, <1>10, PutFits DEF Fits
<1>12. GoOn(<<>>) => Fits(work') /\ Todo' = Rest
  BY <1>1, DoneFits
<1>13. Fits(work') /\ Rest \subseteq Todo' /\ Todo' \subseteq Rest \cup {x}
       /\ (Todo' # Rest => entry[e].state = "running")
  BY <1>3, <1>7, <1>11, <1>12
<1> QED
  BY <1>1, <1>2, <1>13 DEF x

\* After a pass comes another, or nothing.
LEMMA EndPassWork ==
    ASSUME TypeOK, WorkInOrder, EndPass
    PROVE  /\ work # <<>> /\ Head(work).do = "start" /\ Rest = {} /\ Fits(work')
           /\ Todo' \subseteq {Pass}
<1>1. work # <<>> /\ Head(work).do = "start" /\ Head(work).do \in LastSteps
  BY DEF EndPass, HeadIs, LastSteps
<1>2. GoOn(<<Pass>>) \/ GoOn(<<>>)
  BY DEF EndPass
<1>3. Fits(<<Pass>>) /\ ToSet(<<Pass>>) = {Pass} /\ Fits(<<>>) /\ ToSet(<<>>) = {}
  BY StepTyped, FewFit, SetOfFew DEF Stops
<1> QED
  BY <1>1, <1>2, <1>3, LastHead

\* What the lock's next holder sets out to do.
LEMMA StepsOfFit ==
    ASSUME TypeOK, NEW t \in TaskType, t.do # "started"
    PROVE  /\ Fits(StepsOf(t))
           /\ ToSet(StepsOf(t)) =
                CASE t.do \in {"boot", "refresh"} -> {Pass}
                  [] t.do = "close" -> {Stop(e) : e \in {f \in CurrentEntries : IsStarted(f)}}
                                       \cup {Step("closed", NoEntry)}
                  [] t.do = "disable" -> {StopTo(t.e, "disabled"), Settle}
                  [] t.do = "restart" -> {Stop(t.e), Step("revive", t.e), Settle}
                  [] t.do = "platform" -> {Step("platform", e) : e \in t.all} \cup {Settle}
                  [] OTHER -> {Step(t.do, t.e), Settle}
<1>1. /\ t.e \in Entry /\ t.all \in SUBSET Entry
      /\ t.do \in {"boot", "refresh", "close", "enable", "disable", "restart", "settings",
                   "platform", "fail", "quit"}
  BY DEF TaskType
<1>2. Settle \in StepType /\ Settle.do = "settle" /\ Pass \in StepType /\ Pass.do = "pass"
  BY StepTyped
<1>3. CASE t.do \in {"boot", "refresh"}
  <2>1. StepsOf(t) = <<Pass>>
    BY <1>3 DEF StepsOf
  <2> QED
    BY <1>2, <1>3, <2>1, FewFit, SetOfFew DEF Stops
<1>4. CASE t.do = "close"
  <2> DEFINE S == {f \in CurrentEntries : IsStarted(f)}
             c == Step("closed", NoEntry)
  <2>1. S \in SUBSET Entry
    BY CurrentTyped
  <2>2. c \in StepType /\ c.do \in LastSteps
    BY StepTyped, Numbers DEF DoNames, LastSteps
  <2>3. StepsOf(t) = Each(Stop, UsersFirst(S)) \o <<c>>
    BY <1>4 DEF StepsOf, Closing
  <2> HIDE DEF S, c
  <2>4. UsersFirst(S) \in Seq(Entry) /\ ToSet(UsersFirst(S)) = S
    BY <2>1, UsersFirstLists
  <2>5. Fits(StepsOf(t)) /\ ToSet(StepsOf(t)) = {Stop(e) : e \in S} \cup {c}
    BY <2>2, <2>3, <2>4, StopsFit
  <2> QED
    BY <1>4, <2>5 DEF S, c
<1>5. CASE t.do = "disable"
  <2> DEFINE x == StopTo(t.e, "disabled")
             w == <<x, Settle>>
  <2>1. StepsOf(t) = w
    BY <1>5 DEF StepsOf
  <2>2. x \in StepType /\ x.do = "stop"
    BY <1>1, StepTyped
  <2> HIDE DEF x
  <2>3. Orderly(w)
    BY <1>2, <2>2 DEF Orderly, Stops, Ongoing, Hooks, LastSteps
  <2>4. w \in Seq(StepType) /\ ToSet(w) = {x, Settle}
    BY <1>2, <2>2, SetOfFew
  <2> QED
    BY <1>5, <2>1, <2>3, <2>4 DEF Fits, x
<1>6. CASE t.do = "restart"
  <2> DEFINE x == Stop(t.e)
             y == Step("revive", t.e)
             w == <<x, y, Settle>>
  <2>1. StepsOf(t) = w
    BY <1>6 DEF StepsOf
  <2>2. x \in StepType /\ x.do = "stop" /\ x.to = "waiting" /\ y \in StepType /\ y.do = "revive"
    BY <1>1, StepTyped DEF DoNames
  <2> HIDE DEF x, y
  <2>3. Orderly(w)
    BY <1>2, <2>2 DEF Orderly, Stops, Ongoing, Hooks, LastSteps
  <2>4. w \in Seq(StepType) /\ ToSet(w) = {x, y, Settle}
    BY <1>2, <2>2, SetOfFew
  <2> QED
    BY <1>6, <2>1, <2>3, <2>4 DEF Fits, x, y
<1>7. CASE t.do = "platform"
  <2> DEFINE s == InOrder(t.all)
             u == Each(LAMBDA e : Step("platform", e), s)
  <2>1. StepsOf(t) = u \o <<Settle>>
    BY <1>7 DEF StepsOf
  <2>2. s \in Seq(Entry) /\ ToSet(s) = t.all
    BY <1>1, InOrderLists
  <2>3. u = [i \in DOMAIN s |-> Step("platform", s[i])]
    BY DEF Each
  <2> HIDE DEF s, u
  <2>4. \A e \in Entry : Step("platform", e) \in StepType /\ Step("platform", e).do = "platform"
    BY StepTyped DEF DoNames
  <2>5. DOMAIN s = 1..Len(s) /\ Len(s) \in Nat /\ \A i \in DOMAIN s : s[i] \in Entry
    BY <2>2
  <2>6. u \in Seq(StepType) /\ DOMAIN u = DOMAIN s /\ \A i \in DOMAIN s : u[i] = Step("platform", s[i])
    BY <2>3, <2>4, <2>5
  <2>7. ToSet(u) = {Step("platform", e) : e \in ToSet(s)}
    BY <2>6 DEF ToSet
  <2>8. \A x \in ToSet(u) : x.do = "platform"
    BY <1>1, <2>2, <2>4, <2>7
  <2>9. "platform" \notin LastSteps \cup Ongoing \cup Stops \cup Hooks \cup {"missed", "failed"}
    BY DEF LastSteps, Ongoing, Stops, Hooks
  <2>10. "settle" \in LastSteps
    BY DEF LastSteps
  <2>11. Fits(StepsOf(t)) /\ ToSet(StepsOf(t)) = ToSet(u) \cup {Settle}
    BY <1>2, <2>1, <2>6, <2>8, <2>9, <2>10, PlainFit
  <2> QED
    BY <1>7, <2>2, <2>7, <2>11
<1>8. CASE t.do \in {"enable", "settings", "fail", "quit"}
  <2> DEFINE x == Step(t.do, t.e)
  <2>1. StepsOf(t) = <<x, Settle>>
    BY <1>8 DEF StepsOf
  <2>2. x \in StepType /\ x.do = t.do
    BY <1>1, <1>8, StepTyped DEF DoNames
  <2> HIDE DEF x
  <2>3. Fits(<<x, Settle>>) /\ ToSet(<<x, Settle>>) = {x, Settle}
    BY <1>2, <1>8, <2>2, FewFit, SetOfFew DEF Stops, Ongoing, Hooks, LastSteps
  <2> QED
    BY <1>8, <2>1, <2>3 DEF x
<1> QED
  BY <1>1, <1>3, <1>4, <1>5, <1>6, <1>7, <1>8

-----------------------------------------------------------------------------
(* What each step makes of the entries. *)

\* One entry changes, to x.
Becomes(e, x) ==
    /\ e \in Entry /\ x \in EntryType(e[1])
    /\ DOMAIN entry' = Entry
    /\ \A f \in Entry : entry'[f] = IF f = e THEN x ELSE entry[f]

\* Entries keep their state and their start.
Marking ==
    /\ DOMAIN entry' = Entry
    /\ \A f \in Entry :
          /\ entry'[f] \in EntryType(f[1])
          /\ entry'[f].state = entry[f].state /\ entry'[f].task = entry[f].task
          /\ entry'[f].toldFailure = entry[f].toldFailure
          /\ entry'[f].stopping = entry[f].stopping

\* Assigning one entry changes only that one.
LEMMA OneBecomes ==
    ASSUME TypeOK, NEW e \in Entry, NEW x \in EntryType(e[1]), entry' = [entry EXCEPT ![e] = x]
    PROVE  Becomes(e, x)
<1>1. DOMAIN entry = Entry
  BY DEF TypeOK
<1> QED
  BY <1>1 DEF Becomes

\* Assigning what is not a state, a task or a word only marks.
LEMMA OneMarked ==
    ASSUME TypeOK, NEW e \in Entry, NEW x \in EntryType(e[1]), entry' = [entry EXCEPT ![e] = x],
           x.state = entry[e].state, x.task = entry[e].task,
           x.toldFailure = entry[e].toldFailure, x.stopping = entry[e].stopping
    PROVE  Marking
<1>1. DOMAIN entry = Entry /\ \A f \in Entry : entry[f] \in EntryType(f[1])
  BY DEF TypeOK
<1>2. Becomes(e, x)
  BY OneBecomes
<1> QED
  BY <1>1, <1>2 DEF Marking, Becomes

\* Assigning nothing only marks.
LEMMA NoneMarked ==
    ASSUME TypeOK, UNCHANGED entry
    PROVE  Marking
BY DEF TypeOK, Marking

\* A revived entry is an entry, its state and its task as before.
LEMMA RevivedTyped ==
    ASSUME TypeOK, NEW p \in Peripherals, NEW x \in EntryType(p)
    PROVE  /\ Revived(x) \in EntryType(p)
           /\ Revived(x).state = x.state /\ Revived(x).task = x.task
           /\ Revived(x).toldFailure = x.toldFailure /\ Revived(x).stopping = x.stopping
<1>1. hub \in Hubs /\ hub.retries \in Nat
  BY HubIs DEF TypeOK
<1>2. 0 \in 0..hub.retries
  BY <1>1
<1>3. NotStopped \in [stopped : BOOLEAN, on : LinksOf(p) \cup {<<>>}]
  BY <1>1, NewTyped DEF State
<1>4. [x EXCEPT !.attempts = 0, !.retry = FALSE] \in EntryType(p)
  BY <1>2 DEF EntryType
<1> DEFINE y == [x EXCEPT !.attempts = 0, !.retry = FALSE]
<1>5. /\ y.state = x.state /\ y.task = x.task
      /\ y.toldFailure = x.toldFailure /\ y.stopping = x.stopping
  BY DEF EntryType
<1>6. Revived(x) = [y EXCEPT !.stoppedWith = NotStopped]
  BY DEF Revived, EntryType
<1>7. y \in EntryType(p)
  BY <1>4
<1> HIDE DEF y
<1>8. [y EXCEPT !.stoppedWith = NotStopped] \in EntryType(p)
  BY <1>3, <1>7 DEF EntryType
<1> QED
  BY <1>5, <1>6, <1>7, <1>8 DEF EntryType

\* The steps that only mark, and what they leave alone.
LEMMA MarksDo ==
    ASSUME TypeOK, WorkInOrder,
           \/ Revive \/ TellOrNote \/ TellMissed \/ TakeTold \/ NoChange \/ StopDisabled
           \/ StopUsers \/ DropUnwanted \/ BeginDeliver \/ Deliver
    PROVE  /\ Marking
           /\ UNCHANGED <<hub, known, given, plugged, offers, store, settings, platform, bound,
                          queue, starts, timer, running, object>>
           /\ gaveUp' \subseteq gaveUp
           /\ \E b \in BOOLEAN : round' = [round EXCEPT !.changed = b]
<1> DEFINE e == Head(work).e
<1>1. \A f \in Entry : entry[f] \in EntryType(f[1])
  BY DEF TypeOK
<1>2. work # <<>> => e \in Entry /\ entry[e] \in EntryType(e[1])
  BY <1>1, HeadFits
<1>3. \E b \in BOOLEAN : round = [round EXCEPT !.changed = b]
  <2>1. round \in [n : 0..NumPasses, changed : BOOLEAN,
                   before : [known : SUBSET Peripherals, offers : SUBSET Endpoints,
                             plugged : SUBSET Peripherals]]
    BY DEF TypeOK
  <2>2. round.changed \in BOOLEAN /\ round = [round EXCEPT !.changed = round.changed]
    BY <2>1
  <2> QED
    BY <2>2
<1>4. round.changed \in BOOLEAN
  BY DEF TypeOK
<1>5. CASE Revive
  <2> DEFINE x == Revived(entry[e])
  <2>1. work # <<>> /\ entry' = [entry EXCEPT ![e] = x] /\ gaveUp' \subseteq gaveUp
    BY <1>5 DEF Revive, HeadIs
  <2>2. e[1] \in Peripherals
    BY <1>2, <2>1 DEF Entry
  <2>3. /\ x \in EntryType(e[1]) /\ x.state = entry[e].state /\ x.task = entry[e].task
        /\ x.toldFailure = entry[e].toldFailure /\ x.stopping = entry[e].stopping
    BY <1>2, <2>1, <2>2, RevivedTyped
  <2> HIDE DEF x
  <2>4. Marking
    BY <1>2, <2>1, <2>3, OneMarked
  <2> QED
    BY <1>3, <1>5, <2>1, <2>4 DEF Revive
<1>6. CASE TellOrNote
  <2>1. work # <<>>
    BY <1>6 DEF TellOrNote, HeadIs
  <2>2. \/ UNCHANGED entry
        \/ entry' = [entry EXCEPT ![e].missedSettings = TRUE]
        \/ entry' = [entry EXCEPT ![e].missedPlatform = TRUE]
    BY <1>6 DEF TellOrNote
  <2>3. CASE entry' = [entry EXCEPT ![e].missedSettings = TRUE]
    <3> DEFINE x == [entry[e] EXCEPT !.missedSettings = TRUE]
    <3>1. entry' = [entry EXCEPT ![e] = x]
      BY <2>3
    <3>2. /\ x \in EntryType(e[1]) /\ x.state = entry[e].state /\ x.task = entry[e].task
          /\ x.toldFailure = entry[e].toldFailure /\ x.stopping = entry[e].stopping
      BY <1>2, <2>1 DEF EntryType
    <3> HIDE DEF x
    <3> QED
      BY <1>2, <1>3, <1>6, <2>1, <3>1, <3>2, OneMarked DEF TellOrNote
  <2>4. CASE entry' = [entry EXCEPT ![e].missedPlatform = TRUE]
    <3> DEFINE x == [entry[e] EXCEPT !.missedPlatform = TRUE]
    <3>1. entry' = [entry EXCEPT ![e] = x]
      BY <2>4
    <3>2. /\ x \in EntryType(e[1]) /\ x.state = entry[e].state /\ x.task = entry[e].task
          /\ x.toldFailure = entry[e].toldFailure /\ x.stopping = entry[e].stopping
      BY <1>2, <2>1 DEF EntryType
    <3> HIDE DEF x
    <3> QED
      BY <1>2, <1>3, <1>6, <2>1, <3>1, <3>2, OneMarked DEF TellOrNote
  <2> QED
    BY <1>3, <1>6, <2>2, <2>3, <2>4, NoneMarked DEF TellOrNote
<1>7. CASE TellMissed
  <2> DEFINE x == [entry[e] EXCEPT !.missedPlatform = FALSE, !.missedSettings = FALSE]
  <2>1. work # <<>> /\ entry' = [entry EXCEPT ![e].missedPlatform = FALSE, ![e].missedSettings = FALSE]
    BY <1>7 DEF TellMissed, HeadIs
  <2>2. entry' = [entry EXCEPT ![e] = x]
    BY <1>2, <2>1 DEF TypeOK
  <2>3. /\ x \in EntryType(e[1]) /\ x.state = entry[e].state /\ x.task = entry[e].task
        /\ x.toldFailure = entry[e].toldFailure /\ x.stopping = entry[e].stopping
    BY <1>2, <2>1 DEF EntryType
  <2> HIDE DEF x
  <2> QED
    BY <1>2, <1>3, <1>7, <2>1, <2>2, <2>3, OneMarked DEF TellMissed
<1>8. CASE TakeTold
  <2>1. work # <<>>
    BY <1>8 DEF TakeTold, HeadIs
  <2>2. CASE UNCHANGED entry
    BY <1>3, <1>8, <2>2, NoneMarked DEF TakeTold
  <2>3. CASE entry' = [entry EXCEPT ![e].stoppedWith = [stopped |-> TRUE, on |-> entry[e].bindings]]
    <3> DEFINE x == [entry[e] EXCEPT !.stoppedWith = [stopped |-> TRUE, on |-> entry[e].bindings]]
    <3>1. entry' = [entry EXCEPT ![e] = x]
      BY <2>3
    <3>2. /\ x \in EntryType(e[1]) /\ x.state = entry[e].state /\ x.task = entry[e].task
          /\ x.toldFailure = entry[e].toldFailure /\ x.stopping = entry[e].stopping
      BY <1>2, <2>1 DEF EntryType
    <3> HIDE DEF x
    <3> QED
      BY <1>2, <1>3, <1>8, <2>1, <3>1, <3>2, OneMarked DEF TakeTold
  <2> QED
    BY <1>8, <2>2, <2>3 DEF TakeTold
<1>9. CASE NoChange
  BY <1>3, <1>9, NoneMarked DEF NoChange
<1>10. CASE StopDisabled
  BY <1>3, <1>10, NoneMarked DEF StopDisabled
<1>11. CASE StopUsers
  BY <1>3, <1>11, NoneMarked DEF StopUsers
<1>12. CASE DropUnwanted
  <2>1. \E b \in BOOLEAN : round' = [round EXCEPT !.changed = b]
    <3>1. PICK U : round' = [round EXCEPT !.changed = @ \/ U # {}]
      BY <1>12 DEF DropUnwanted
    <3>2. round' = [round EXCEPT !.changed = (round.changed \/ U # {})]
          /\ (round.changed \/ U # {}) \in BOOLEAN
      BY <1>4, <3>1
    <3> QED
      BY <3>2
  <2> QED
    BY <1>12, <2>1, NoneMarked DEF DropUnwanted
<1>13. CASE BeginDeliver
  BY <1>3, <1>13, NoneMarked DEF BeginDeliver
<1>14. CASE Deliver
  <2> DEFINE now == Handed(e)
  <2>1. work # <<>>
    BY <1>14 DEF Deliver, HeadIs
  <2>2. e \in Entry /\ entry[e] \in EntryType(e[1]) /\ now \in LinksOf(e[1])
    BY <1>2, <2>1, HandedTyped
  <2> HIDE DEF now
  <2>3. CASE entry[e].state = "running"
    <3> DEFINE x == [entry[e] EXCEPT !.bindings = now]
    <3>1. entry' = [entry EXCEPT ![e] = x]
      BY <1>14, <2>3 DEF Deliver, now
    <3>2. /\ x \in EntryType(e[1]) /\ x.state = entry[e].state /\ x.task = entry[e].task
          /\ x.toldFailure = entry[e].toldFailure /\ x.stopping = entry[e].stopping
      BY <2>2 DEF EntryType
    <3> HIDE DEF x
    <3>3. \E b \in BOOLEAN : round' = [round EXCEPT !.changed = b]
      <4>1. PICK U : round' = [round EXCEPT !.changed = @ \/ U # {}]
        BY <1>14, <2>3 DEF Deliver
      <4>2. round' = [round EXCEPT !.changed = (round.changed \/ U # {})]
            /\ (round.changed \/ U # {}) \in BOOLEAN
        BY <1>4, <4>1
      <4> QED
        BY <4>2
    <3>4. Marking
      BY <2>2, <3>1, <3>2, OneMarked
    <3> QED
      BY <1>14, <3>3, <3>4 DEF Deliver
  <2>4. CASE entry[e].state # "running"
    <3> DEFINE v == IF entry[e].state # "starting" /\ now # entry[e].stoppedWith.on THEN NotStopped
                    ELSE entry[e].stoppedWith
               x == [entry[e] EXCEPT !.stoppedWith = v]
    <3>1. entry' = [entry EXCEPT ![e] = x] /\ UNCHANGED round
      BY <1>14, <2>4 DEF Deliver, now
    <3>2. v \in [stopped : BOOLEAN, on : LinksOf(e[1]) \cup {<<>>}]
      BY <2>2 DEF EntryType, NotStopped
    <3> HIDE DEF v
    <3>3. /\ x \in EntryType(e[1]) /\ x.state = entry[e].state /\ x.task = entry[e].task
          /\ x.toldFailure = entry[e].toldFailure /\ x.stopping = entry[e].stopping
      BY <2>2, <3>2 DEF EntryType
    <3> HIDE DEF x
    <3>4. Marking
      BY <2>2, <3>1, <3>3, OneMarked
    <3> QED
      BY <1>3, <1>14, <3>1, <3>4 DEF Deliver
  <2> QED
    BY <2>3, <2>4
<1> QED
  BY <1>5, <1>6, <1>7, <1>8, <1>9, <1>10, <1>11, <1>12, <1>13, <1>14

\* What enabling and new settings make of an entry.
LEMMA LetStartDoes ==
    ASSUME TypeOK, WorkInOrder, LetStart
    PROVE  \E x : /\ Becomes(Head(work).e, x)
                  /\ x.state = "waiting" /\ x.task = entry[Head(work).e].task
                  /\ entry[Head(work).e].state \notin Started
                  /\ Head(work).do \in {"enable", "settings"}
<1> DEFINE e == Head(work).e
           y == Revived(entry[e])
           x == [y EXCEPT !.state = "waiting"]
<1>1. /\ work # <<>> /\ Head(work).do \in {"enable", "settings"}
      /\ entry[e].state \in {"disabled", "failed", "waiting"}
      /\ entry' = [entry EXCEPT ![e] = x]
  BY DEF LetStart, HeadIs
<1>2. e \in Entry /\ e[1] \in Peripherals /\ entry[e] \in EntryType(e[1])
  BY <1>1, HeadFits, EntryOf
<1>3. y \in EntryType(e[1]) /\ y.task = entry[e].task
  BY <1>2, RevivedTyped
<1> HIDE DEF y
<1>4. x \in EntryType(e[1]) /\ x.state = "waiting" /\ x.task = y.task
  BY <1>3 DEF EntryType, State
<1> HIDE DEF x
<1>5. Becomes(e, x)
  BY <1>1, <1>2, <1>4, OneBecomes
<1> QED
  BY <1>1, <1>3, <1>4, <1>5 DEF Started

\* What a failure makes of an entry.
LEMMA CountFailureDoes ==
    ASSUME TypeOK, WorkInOrder, CountFailure
    PROVE  \E x : /\ Becomes(Head(work).e, x) /\ Head(work).do = "failed"
                  /\ x.state \in {"waiting", "failed"} /\ x.task = entry[Head(work).e].task
                  /\ x.state = "failed" => gaveUp' = gaveUp \cup {Head(work).e[1]}
                  /\ x.state = "waiting" => gaveUp' = gaveUp
<1> DEFINE e == Head(work).e
           y == [entry[e] EXCEPT !.state = "failed", !.attempts = 0]
           z == [entry[e] EXCEPT !.state = "waiting", !.retry = TRUE, !.attempts = @ + 1]
<1>1. work # <<>> /\ Head(work).do = "failed"
  BY DEF CountFailure, HeadIs
<1>2. e \in Entry /\ e[1] \in Peripherals /\ entry[e] \in EntryType(e[1]) /\ DOMAIN entry = Entry
  BY <1>1, HeadFits, EntryOf
<1>3. hub \in Hubs /\ hub.retries \in Nat
  BY HubIs DEF TypeOK
<1>6. 0 \in 0..hub.retries
  BY <1>3
<1>4. CASE IsLast(entry[e])
  <2>1. entry' = [entry EXCEPT ![e].state = "failed", ![e].attempts = 0]
        /\ gaveUp' = gaveUp \cup {e[1]}
    BY <1>4 DEF CountFailure
  <2>2. entry' = [entry EXCEPT ![e] = y]
    BY <1>2, <2>1
  <2>3. y \in EntryType(e[1]) /\ y.state = "failed" /\ y.task = entry[e].task
    BY <1>2, <1>6 DEF EntryType, State
  <2> HIDE DEF y
  <2>4. Becomes(e, y)
    BY <1>2, <2>2, <2>3, OneBecomes
  <2> QED
    BY <1>1, <2>1, <2>3, <2>4
<1>5. CASE ~ IsLast(entry[e])
  <2>1. entry' = [entry EXCEPT ![e].state = "waiting", ![e].retry = TRUE,
                                         ![e].attempts = @ + 1]
        /\ gaveUp' = gaveUp
    BY <1>5 DEF CountFailure
  <2>2. entry' = [entry EXCEPT ![e] = z]
    BY <1>2, <2>1
  <2>3. entry[e].attempts + 1 \in 0..hub.retries
    BY <1>2, <1>3, <1>5 DEF EntryType, IsLast
  <2>4. z \in EntryType(e[1]) /\ z.state = "waiting" /\ z.task = entry[e].task
    BY <1>2, <2>3 DEF EntryType, State
  <2> HIDE DEF z
  <2>5. Becomes(e, z)
    BY <1>2, <2>2, <2>4, OneBecomes
  <2> QED
    BY <1>1, <2>1, <2>4, <2>5
<1> QED
  BY <1>4, <1>5

\* What cancelling its start makes of an entry.
LEMMA CancelStartDoes ==
    ASSUME TypeOK, WorkInOrder, CancelStart
    PROVE  \E x : /\ Becomes(Head(work).e, x) /\ Head(work).do = "stop"
                  /\ x.state = entry[Head(work).e].state /\ x.task = NoTask
                  /\ entry[Head(work).e].task # NoTask
                  /\ x = [entry[Head(work).e] EXCEPT !.task = NoTask]
                  /\ Fits(work') /\ Todo' = {[Head(work) EXCEPT !.do = "cancelled"]} \cup Rest
<1> DEFINE e == Head(work).e
           x == [entry[e] EXCEPT !.task = NoTask]
<1>1. /\ work # <<>> /\ Head(work).do = "stop" /\ entry[e].task # NoTask
      /\ entry' = [entry EXCEPT ![e] = x]
      /\ GoOn(<<[Head(work) EXCEPT !.do = "cancelled"]>>)
  BY DEF CancelStart, HeadIs, StopsEntry
<1>2. e \in Entry /\ e[1] \in Peripherals /\ entry[e] \in EntryType(e[1])
  BY <1>1, HeadFits, EntryOf
<1>3. x \in EntryType(e[1]) /\ x.state = entry[e].state /\ x.task = NoTask
  BY <1>2 DEF EntryType
<1>4. Becomes(e, x)
  <2> HIDE DEF x
  <2> QED
    BY <1>1, <1>2, <1>3, OneBecomes
<1>5. Fits(work') /\ Todo' = {[Head(work) EXCEPT !.do = "cancelled"]} \cup Rest
  BY <1>1, StoppingWork DEF Stops
<1> QED
  BY <1>1, <1>3, <1>4, <1>5

\* What calling stop makes of an entry and of its peripheral.
LEMMA CallStopDoes ==
    ASSUME TypeOK, WorkInOrder, CallStop
    PROVE  LET e == Head(work).e
           IN  /\ Marking /\ e \in Entry /\ work # <<>>
               /\ \/ Head(work).do = "cancelled"
                  \/ /\ Head(work).do = "stop" /\ IsStarted(e) /\ entry[e].task = NoTask
               /\ object' = [object EXCEPT ![e[1]].call = "stopping"]
               /\ Fits(work') /\ Todo' = {[Head(work) EXCEPT !.do = "stopping"]} \cup Rest
<1> DEFINE e == Head(work).e
<1>1. /\ work # <<>> /\ GoOn(<<[Head(work) EXCEPT !.do = "stopping"]>>)
      /\ object' = [object EXCEPT ![e[1]].call = "stopping"]
      /\ \/ Head(work).do = "cancelled"
         \/ /\ Head(work).do = "stop" /\ IsStarted(e) /\ entry[e].task = NoTask
  BY DEF CallStop, HeadIs, StopsEntry
<1>2. e \in Entry /\ e[1] \in Peripherals /\ entry[e] \in EntryType(e[1])
  BY <1>1, HeadFits, EntryOf
<1>3. PICK stable \in BOOLEAN :
        entry' = [entry EXCEPT ![e].attempts =
                            IF stable /\ entry[e].state = "running" THEN 0 ELSE @]
  BY DEF CallStop
<1> DEFINE n == IF stable /\ entry[e].state = "running" THEN 0 ELSE entry[e].attempts
           x == [entry[e] EXCEPT !.attempts = n]
<1>4. entry' = [entry EXCEPT ![e] = x]
  BY <1>3
<1>5. hub \in Hubs /\ hub.retries \in Nat
  BY HubIs DEF TypeOK
<1>6. n \in 0..hub.retries
  BY <1>2, <1>5 DEF EntryType
<1> HIDE DEF n
<1>7. /\ x \in EntryType(e[1]) /\ x.state = entry[e].state /\ x.task = entry[e].task
      /\ x.toldFailure = entry[e].toldFailure /\ x.stopping = entry[e].stopping
  BY <1>2, <1>6 DEF EntryType
<1> HIDE DEF x
<1>8. Marking
  BY <1>2, <1>4, <1>7, OneMarked
<1>9. Fits(work') /\ Todo' = {[Head(work) EXCEPT !.do = "stopping"]} \cup Rest
  BY <1>1, StoppingWork DEF Stops
<1> QED
  BY <1>1, <1>2, <1>8, <1>9

\* What the end of a stop makes of an entry and of its peripheral.
LEMMA EndStopDoes ==
    ASSUME TypeOK, WorkInOrder, EndStop
    PROVE  LET e == Head(work).e
           IN  \E x : /\ Becomes(e, x) /\ work # <<>>
                      /\ x.state = Head(work).to /\ x.task = entry[e].task
                      /\ x.state \in {"waiting", "disabled"}
                      /\ \/ /\ Head(work).do = "stopping"
                            /\ object' = [object EXCEPT ![e[1]].call = "off"]
                         \/ /\ Head(work).do = "stop" /\ StopsEntry /\ ~ IsStarted(e)
                            /\ UNCHANGED object
<1> DEFINE e == Head(work).e
           x == [entry[e] EXCEPT !.state = Head(work).to, !.bindings = Unlinked(e[1])]
<1>1. /\ work # <<>> 
      /\ entry' = [entry EXCEPT ![e].state = Head(work).to, ![e].bindings = Unlinked(e[1])]
      /\ \/ /\ Head(work).do = "stopping"
            /\ object' = [object EXCEPT ![e[1]].call = "off"]
         \/ /\ Head(work).do = "stop" /\ StopsEntry /\ ~ IsStarted(e)
            /\ UNCHANGED object
  BY DEF EndStop, HeadIs, StopsEntry
<1>2. /\ e \in Entry /\ e[1] \in Peripherals /\ entry[e] \in EntryType(e[1])
      /\ DOMAIN entry = Entry /\ Head(work).to \in {"waiting", "disabled"}
  BY <1>1, HeadFits, HeadTyped, EntryOf
<1>3. entry' = [entry EXCEPT ![e] = x]
  BY <1>1, <1>2
<1>4. Unlinked(e[1]) \in LinksOf(e[1])
  BY <1>2, NewTyped DEF TypeOK, State
<1>5. x \in EntryType(e[1]) /\ x.state = Head(work).to /\ x.task = entry[e].task
  BY <1>2, <1>4 DEF EntryType, State
<1> HIDE DEF x
<1>6. Becomes(e, x)
  BY <1>2, <1>3, <1>5, OneBecomes
<1> QED
  BY <1>1, <1>2, <1>5, <1>6

\* What the end of its start makes of an entry.
LEMMA EndedTyped ==
    ASSUME TypeOK, NEW e \in Entry, NEW ok \in BOOLEAN
    PROVE  LET x == Ended(entry[e], ok)
               told == entry[e].toldFailure \/ ~ ok
           IN  /\ x \in EntryType(e[1]) /\ x.task = NoTask
               /\ x.state = IF ~ told /\ ~ entry[e].stopping THEN "running" ELSE entry[e].state
               /\ ~ told /\ entry[e].stopping => x.stoppedWith.stopped
               /\ x.missedSettings = entry[e].missedSettings
               /\ x.missedPlatform = entry[e].missedPlatform
<1>1. entry[e] \in EntryType(e[1])
  BY EntryOf
<1> DEFINE z == entry[e]
<1>2. z \in EntryType(e[1])
  BY <1>1
<1> HIDE DEF z
<1>3. /\ [z EXCEPT !.task = NoTask] \in EntryType(e[1])
      /\ [z EXCEPT !.task = NoTask, !.state = "running"] \in EntryType(e[1])
      /\ [z EXCEPT !.task = NoTask, !.stoppedWith = [stopped |-> TRUE, on |-> z.bindings]]
            \in EntryType(e[1])
  BY <1>2 DEF EntryType, State
<1>4. LET x == Ended(z, ok)
          told == z.toldFailure \/ ~ ok
      IN  /\ x \in EntryType(e[1]) /\ x.task = NoTask
          /\ x.state = IF ~ told /\ ~ z.stopping THEN "running" ELSE z.state
          /\ ~ told /\ z.stopping => x.stoppedWith.stopped
          /\ x.missedSettings = z.missedSettings
          /\ x.missedPlatform = z.missedPlatform
  BY <1>2, <1>3 DEF Ended, EntryType
<1> QED
  BY <1>4 DEF z

-----------------------------------------------------------------------------
(* Taking the lock; the end of a pass. *)

\* The lock's next holder.
LEMMA AcquireTakes ==
    ASSUME TypeOK, WorkInOrder, Acquire
    PROVE  LET t == Head(queue)
           IN  /\ work = <<>> /\ Todo = {} /\ t \in TaskType /\ t.e \in Entry
               /\ queue' \in Seq(TaskType) /\ Waiting = {t} \cup Waiting'
               /\ queue' = Tail(queue) /\ queue # <<>> /\ Head(queue) = queue[1]
               /\ Len(queue') = Len(queue) - 1 /\ Len(queue) \in Nat \ {0}
               /\ \A i \in 1..(Len(queue) - 1) : queue'[i] = queue[i + 1]
               /\ Fits(work')
               /\ UNCHANGED <<hub, known, given, plugged, offers, store, gaveUp, settings, platform,
                              bound, starts, timer, running, object>>
               /\ \/ /\ t.do = "started" /\ ~ IsItsStart(t)
                     /\ Todo' = {} /\ UNCHANGED <<entry, round>>
                  \/ /\ t.do = "started" /\ IsItsStart(t)
                     /\ Becomes(t.e, Ended(entry[t.e], t.ok)) /\ UNCHANGED round
                     /\ LET x == Ended(entry[t.e], t.ok)
                        IN  Todo' = IF x.state = "running" THEN {Step("missed", t.e), Settle}
                                    ELSE IF x.stoppedWith.stopped THEN {Stop(t.e), Settle}
                                    ELSE {Stop(t.e), Step("failed", t.e), Settle}
                  \/ /\ t.do # "started" /\ UNCHANGED entry
                     /\ Todo' = ToSet(StepsOf(t))
                     /\ round' = round \/ round' = [round EXCEPT !.n = 1]
<1> DEFINE t == Head(queue)
           x == Ended(entry[t.e], t.ok)
<1>1. work = <<>> /\ queue # <<>> /\ queue' = Tail(queue) /\ queue \in Seq(TaskType)
  BY DEF Acquire, TypeOK
<1>2. /\ t \in TaskType /\ queue' \in Seq(TaskType) /\ ToSet(queue) = {t} \cup ToSet(queue')
      /\ Head(queue) = queue[1]
      /\ Len(queue') = Len(queue) - 1 /\ Len(queue) \in Nat \ {0}
      /\ \A i \in 1..(Len(queue) - 1) : queue'[i] = queue[i + 1]
  BY <1>1, SetOfTail
<1>3. t.e \in Entry /\ t.ok \in BOOLEAN
  BY <1>2 DEF TaskType
<1>4. Todo = {}
  BY <1>1, SetOfFew DEF Todo
<1>5. CASE t.do = "started" /\ ~ IsItsStart(t)
  <2>1. work' = <<>> /\ UNCHANGED <<entry, round>>
    BY <1>1, <1>5 DEF Acquire
  <2>2. Fits(work') /\ Todo' = {}
    BY <2>1, FewFit, SetOfFew DEF Todo
  <2> QED
    BY <1>1, <1>2, <1>3, <1>4, <1>5, <2>1, <2>2 DEF Acquire, Waiting
<1>6. CASE t.do = "started" /\ IsItsStart(t)
  <2> DEFINE m == Step("missed", t.e)
             a == Stop(t.e)
             b == Step("failed", t.e)
  <2>1. /\ entry' = [entry EXCEPT ![t.e] = x]
        /\ work' = IF entry'[t.e].state = "running" THEN Serves(t.e)
                   ELSE IF entry'[t.e].stoppedWith.stopped THEN <<Stop(t.e), Settle>>
                   ELSE <<Stop(t.e), Step("failed", t.e), Settle>>
        /\ UNCHANGED round
    BY <1>6 DEF Acquire
  <2>2. /\ m \in StepType /\ m.do = "missed" /\ a \in StepType /\ a.do = "stop" /\ a.to = "waiting"
        /\ b \in StepType /\ b.do = "failed" /\ Settle \in StepType /\ Settle.do = "settle"
    BY <1>3, StepTyped DEF DoNames
  <2>3. x \in EntryType(t.e[1])
    BY <1>3, EndedTyped
  <2> HIDE DEF x
  <2>4. Becomes(t.e, x)
    BY <1>3, <2>1, <2>3, OneBecomes
  <2>5. work' = IF x.state = "running" THEN <<m, Settle>>
                ELSE IF x.stoppedWith.stopped THEN <<a, Settle>>
                ELSE <<a, b, Settle>>
    <3>1. entry'[t.e] = x
      BY <1>3, <2>4 DEF Becomes
    <3> QED
      BY <2>1, <3>1 DEF Serves, m, a, b
  <2> HIDE DEF m, a, b
  <2>6. Fits(<<m, Settle>>) /\ ToSet(<<m, Settle>>) = {m, Settle}
    BY <2>2, FewFit, SetOfFew DEF Stops, Ongoing, Hooks, LastSteps
  <2>7. Fits(<<a, Settle>>) /\ ToSet(<<a, Settle>>) = {a, Settle}
    BY <2>2, FewFit, SetOfFew DEF Stops, Ongoing, Hooks, LastSteps
  <2>8. Fits(<<a, b, Settle>>) /\ ToSet(<<a, b, Settle>>) = {a, b, Settle}
    <3> DEFINE w == <<a, b, Settle>>
    <3>1. w \in Seq(StepType) /\ Len(w) = 3 /\ w[1] = a /\ w[2] = b /\ w[3] = Settle
      BY <2>2
    <3>2. DOMAIN w = 1..3
      BY <3>1
    <3> HIDE DEF w
    <3>3. Orderly(w)
      BY <2>2, <3>1, <3>2 DEF Orderly, Stops, Ongoing, Hooks, LastSteps
    <3>4. Fits(w)
      BY <3>1, <3>3 DEF Fits
    <3> QED
      BY <3>4, SetOfFew DEF w
  <2>9. /\ Fits(work')
        /\ Todo' = IF x.state = "running" THEN {m, Settle}
                                    ELSE IF x.stoppedWith.stopped THEN {a, Settle}
                                    ELSE {a, b, Settle}
    BY <2>5, <2>6, <2>7, <2>8 DEF Todo
  <2> QED
    BY <1>1, <1>2, <1>3, <1>4, <1>6, <2>1, <2>4, <2>9 DEF Acquire, Waiting, x, m, a, b
<1>7. CASE t.do # "started"
  <2>1. work' = StepsOf(t) /\ UNCHANGED entry /\ (round' = round \/ round' = [round EXCEPT !.n = 1])
    BY <1>7 DEF Acquire
  <2>2. Fits(work') /\ Todo' = ToSet(StepsOf(t))
    BY <1>2, <1>7, <2>1, StepsOfFit DEF Todo
  <2> QED
    BY <1>1, <1>2, <1>3, <1>4, <1>7, <2>1, <2>2 DEF Acquire, Waiting
<1> QED
  BY <1>5, <1>6, <1>7

\* The tasks left waiting.
LEMMA KeptWaits ==
    ASSUME TypeOK, NEW K, queue' = Kept(queue, K)
    PROVE  queue' \in Seq(TaskType) /\ Waiting' = {t \in Waiting : t \in K}
<1>1. queue \in Seq(TaskType)
  BY DEF TypeOK
<1> QED
  BY <1>1, KeptIs DEF Waiting

\* Which ones a pass starts.
LEMMA EndPassDoes ==
    ASSUME TypeOK, WorkInOrder, EndPass, \A e \in Entry : entry[e].task = NoTask => Tasks \ StartTasks(e) # {}
    PROVE  \E S \in SUBSET Entry :
              /\ \A e \in S : /\ e \in CurrentEntries /\ entry[e].state = "waiting"
                              /\ entry[e].task = NoTask =>
                                    NewTask(e) \in Tasks /\ NewTask(e) \notin StartTasks(e)
              /\ DOMAIN entry' = Entry
              /\ \A e \in Entry :
                    IF e \notin S THEN entry'[e] = entry[e]
                    ELSE /\ entry[e].task = NoTask => entry'[e] \in EntryType(e[1])
                         /\ entry'[e].state = "starting" /\ entry'[e].task = NewTask(e)
                         /\ ~ entry'[e].toldFailure /\ ~ entry'[e].stopping
                         /\ entry'[e].bindings = Handed(e)
              /\ starts' = starts \cup {[e |-> e, n |-> NewTask(e), at |-> "spawned"] : e \in S}
              /\ round' = round \/ (round.n < NumPasses /\ round' = [round EXCEPT !.n = round.n + 1])
              /\ timer' = timer \/ timer' \subseteq Entry
<1> DEFINE S == {Current(p) : p \in {q \in Known : CanStart(q)}}
<1>1. S \in SUBSET Entry /\ S \subseteq CurrentEntries
  BY CurrentTyped DEF CurrentEntries
<1>2. /\ entry' = [e \in Entry |->
                IF e \notin S THEN entry[e]
                ELSE [entry[e] EXCEPT !.state = "starting", !.bindings = Handed(e),
                                      !.toldFailure = FALSE, !.stopping = FALSE,
                                      !.missedSettings = FALSE, !.missedPlatform = FALSE,
                                      !.task = NewTask(e)]]
      /\ starts' = starts \cup {[e |-> e, n |-> NewTask(e), at |-> "spawned"] : e \in S}
  BY DEF EndPass
<1>3. \A e \in S : entry[e].state = "waiting"
  BY DEF CanStart
<1>4. round' = round \/ (round.n < NumPasses /\ round' = [round EXCEPT !.n = round.n + 1])
  BY DEF EndPass
<1>5. timer' = timer \/ timer' \subseteq Entry
  <2>1. timer' = timer \/ timer' = Scheduled(entry')
    BY DEF EndPass
  <2> QED
    BY <2>1, CurrentTyped DEF Scheduled
<1> HIDE DEF S
<1>6. ASSUME NEW e \in S, entry[e].task = NoTask PROVE NewTask(e) \in Tasks \ StartTasks(e)
  BY <1>1, <1>6 DEF NewTask
<1>7. ASSUME NEW e \in S
      PROVE  /\ entry[e].task = NoTask => entry'[e] \in EntryType(e[1])
             /\ entry'[e].state = "starting" /\ entry'[e].task = NewTask(e)
             /\ ~ entry'[e].toldFailure /\ ~ entry'[e].stopping
             /\ entry'[e].bindings = Handed(e)
  <2>1. e \in Entry /\ entry[e] \in EntryType(e[1]) /\ Handed(e) \in LinksOf(e[1])
    BY <1>1, EntryOf, HandedTyped
  <2>2. entry[e].task = NoTask => NewTask(e) \in Tasks
    BY <1>6
  <2>3. entry'[e] = [entry[e] EXCEPT !.state = "starting", !.bindings = Handed(e),
                                      !.toldFailure = FALSE, !.stopping = FALSE,
                                      !.missedSettings = FALSE, !.missedPlatform = FALSE,
                                      !.task = NewTask(e)]
    BY <1>2, <2>1
  <2> DEFINE h == Handed(e)
             n == NewTask(e)
             z == entry[e]
  <2>4. /\ z \in EntryType(e[1]) /\ h \in LinksOf(e[1]) /\ (z.task = NoTask => n \in Tasks)
        /\ entry'[e] = [z EXCEPT !.state = "starting", !.bindings = h,
                                      !.toldFailure = FALSE, !.stopping = FALSE,
                                      !.missedSettings = FALSE, !.missedPlatform = FALSE,
                                      !.task = n]
    BY <2>1, <2>2, <2>3
  <2> HIDE DEF h, n, z
  <2> DEFINE y == [z EXCEPT !.state = "starting", !.bindings = h,
                           !.toldFailure = FALSE, !.stopping = FALSE]
             x == [y EXCEPT !.missedSettings = FALSE, !.missedPlatform = FALSE]
  <2>6. y \in EntryType(e[1]) /\ y.state = "starting" /\ ~ y.toldFailure /\ ~ y.stopping
        /\ y.bindings = h
    BY <2>4 DEF EntryType, State
  <2>7. entry'[e] = [y EXCEPT !.missedSettings = FALSE, !.missedPlatform = FALSE, !.task = n]
    BY <2>4 DEF EntryType
  <2> HIDE DEF y
  <2>8. x \in EntryType(e[1]) /\ x.state = "starting" /\ ~ x.toldFailure /\ ~ x.stopping
        /\ x.bindings = h
    BY <2>6 DEF EntryType
  <2>9. entry'[e] = [x EXCEPT !.task = n]
    BY <2>6, <2>7 DEF EntryType
  <2> HIDE DEF x
  <2>5. /\ z.task = NoTask => entry'[e] \in EntryType(e[1])
        /\ entry'[e].state = "starting" /\ entry'[e].task = n
        /\ ~ entry'[e].toldFailure /\ ~ entry'[e].stopping
        /\ entry'[e].bindings = h
    BY <2>4, <2>8, <2>9 DEF EntryType
  <2> QED
    BY <2>5 DEF h, n, z
<1>8. \A e \in Entry : e \notin S => entry'[e] = entry[e]
  BY <1>2
<1>9. DOMAIN entry' = Entry
  BY <1>2
<1>10. \A e \in S : /\ e \in CurrentEntries /\ entry[e].state = "waiting"
                    /\ entry[e].task = NoTask =>
                                    NewTask(e) \in Tasks /\ NewTask(e) \notin StartTasks(e)
  BY <1>1, <1>3, <1>6
<1>11. starts' = starts \cup {[e |-> e, n |-> NewTask(e), at |-> "spawned"] : e \in S}
  BY <1>2
<1> QED
  BY <1>1, <1>4, <1>5, <1>7, <1>8, <1>9, <1>10, <1>11

-----------------------------------------------------------------------------
(* Types. *)

\* The parts of the type invariant that some steps leave alone.
RoundType == [n : 0..NumPasses, changed : BOOLEAN,
              before : [known : SUBSET Peripherals, offers : SUBSET Endpoints,
                        plugged : SUBSET Peripherals]]
\* The starts there may be.
StartType == [e : Entry, n : Tasks, at : {"spawned", "in", "left"}]
\* What a peripheral may be left with.
ObjectType == [call : Calls!Call, settings : 0..1, platform : 0..1, failed : BOOLEAN, quit : BOOLEAN]

\* What is given, told and kept.
WorldTyped ==
    /\ given \subseteq Peripherals /\ plugged \subseteq Children
    /\ offers \subseteq Endpoints
    /\ store \subseteq Peripherals /\ gaveUp \subseteq Peripherals
    /\ settings \in [Peripherals -> 0..1] /\ platform \in 0..1
    /\ timer \subseteq Entry
    /\ running \in BOOLEAN
    /\ object \in [Peripherals -> ObjectType]

\* What the lock guards.
HeldTyped ==
    /\ bound.wanted \subseteq Peripherals
    /\ \A p \in Peripherals : bound.links[p] \in LinksOf(p)
    /\ round \in RoundType
    /\ starts \subseteq StartType

\* The entries and which are current.
LivesTyped ==
    /\ hub \in Hubs
    /\ DOMAIN entry = Entry /\ \A e \in Entry : entry[e] \in EntryType(e[1])
    /\ known \in [Peripherals -> Lives \cup {NoLife}]

\* The type invariant in the parts that steps leave alone or not.
LEMMA TypeIs ==
    TypeOK <=> /\ LivesTyped /\ WorldTyped /\ HeldTyped
               /\ queue \in Seq(TaskType) /\ work \in Seq(StepType)
BY DEF TypeOK, LivesTyped, WorldTyped, HeldTyped, RoundType, StartType, ObjectType

\* The parts make the whole.
LEMMA TypedAgain ==
    ASSUME LivesTyped', WorldTyped', HeldTyped', (queue \in Seq(TaskType))',
           (work \in Seq(StepType))'
    PROVE  TypeOK'
BY DEF TypeOK, LivesTyped, WorldTyped, HeldTyped, RoundType, StartType, ObjectType

\* A step that leaves the world alone.
LEMMA WorldStays ==
    ASSUME WorldTyped, hub' = hub,
           UNCHANGED <<given, plugged, offers, store, gaveUp, settings, platform, timer, running, object>>
    PROVE  WorldTyped'
BY TypesStay DEF WorldTyped, ObjectType, Calls!Call

\* A step that leaves the pass and the starts alone.
LEMMA HeldStays ==
    ASSUME HeldTyped, hub' = hub, UNCHANGED <<bound, round, starts>>
    PROVE  HeldTyped'
BY TypesStay DEF HeldTyped, RoundType, StartType

\* A step that leaves each entry one of its type.
LEMMA LivesTypedAgain ==
    ASSUME LivesTyped, hub' = hub, DOMAIN entry' = Entry,
           \A e \in Entry : entry'[e] \in EntryType(e[1]),
           known' \in [Peripherals -> Lives \cup {NoLife}]
    PROVE  LivesTyped'
BY TypesStay DEF LivesTyped

\* A step that changes one entry.
LEMMA BecomesTyped ==
    ASSUME TypeOK, NEW e, NEW x, Becomes(e, x)
    PROVE  /\ DOMAIN entry' = Entry
           /\ \A f \in Entry : entry'[f] \in EntryType(f[1])
           /\ e \in Entry
           /\ \A f \in Entry : entry'[f] = IF f = e THEN x ELSE entry[f]
BY DEF Becomes, TypeOK

\* A step that collects.
LEMMA CollectTypes ==
    ASSUME TypeOK, Collects
    PROVE  /\ DOMAIN entry' = Entry
           /\ \A f \in Entry : entry'[f] \in EntryType(f[1])
           /\ known' \in [Peripherals -> Lives \cup {NoLife}]
<1>1. \A f \in Entry : entry[f] \in EntryType(f[1])
  BY EntryOf
<1>2. /\ DOMAIN entry' = Entry
      /\ known' \in [Peripherals -> Lives \cup {NoLife}]
      /\ \A e \in Entry : entry'[e] = entry[e] \/ entry'[e] \in EntryType(e[1])
  BY CollectsDo
<1> QED
  BY <1>1, <1>2

\* A step that asks for a task.
LEMMA AskingTyped ==
    ASSUME TypeOK, hub' = hub, NEW t, Asking(t)
    PROVE  LivesTyped' /\ queue' \in Seq(TaskType) /\ TaskType' = TaskType
<1>1. CASE queue' = Append(queue, t) /\ UNCHANGED <<entry, known>>
  <2>1. queue \in Seq(TaskType) /\ t \in TaskType
    BY DEF TypeOK, Asking
  <2>2. queue' \in Seq(TaskType)
    BY <1>1, <2>1, SetOfAppend
  <2>3. LivesTyped'
    BY <1>1, TypeIs, LivesTypedAgain DEF LivesTyped
  <2> QED
    BY <2>2, <2>3, TypesStay
<1>2. CASE Collects /\ UNCHANGED queue
  BY <1>2, TypeIs, CollectTypes, LivesTypedAgain, TypesStay
<1> QED
  BY <1>1, <1>2 DEF Asking

\* A step that notes something.
LEMMA NotingTyped ==
    ASSUME TypeOK, hub' = hub, Noting
    PROVE  LivesTyped' /\ queue' \in Seq(TaskType) /\ TaskType' = TaskType
BY TypeIs, LivesTypedAgain, TypesStay DEF Noting, LivesTyped

\* What the calls from outside change is of its type.
LEMMA CallsTyped ==
    ASSUME TypeOK, Called \/ Boot \/ Retry
    PROVE  TypeOK'
<1>1. /\ UNCHANGED <<hub, bound, work, round, starts, gaveUp>>
      /\ (\E t : Asking(t)) \/ Noting
  BY CallsDo
<1>2. LivesTyped' /\ queue' \in Seq(TaskType) /\ TaskType' = TaskType
  BY <1>1, AskingTyped, NotingTyped
<1>3. HeldTyped' /\ work' \in Seq(StepType) /\ StepType' = StepType
  BY <1>1, TypeIs, HeldStays, TypesStay
<1>4. /\ given \subseteq Peripherals /\ plugged \subseteq Children
      /\ offers \subseteq Endpoints
      /\ store \subseteq Peripherals /\ gaveUp \subseteq Peripherals
      /\ settings \in [Peripherals -> 0..1] /\ platform \in 0..1
      /\ timer \subseteq Entry
      /\ running \in BOOLEAN
      /\ object \in [Peripherals -> ObjectType]
  BY TypeIs DEF WorldTyped
<1>5. WorldTyped'
  <2>1. ASSUME NEW p \in Peripherals, TellFailure(p) \/ TellStop(p)
        PROVE  object' \in [Peripherals -> ObjectType] /\ UNCHANGED <<given, plugged, offers, store,
                       gaveUp, settings, platform, timer, running>>
    <3>1. \/ object' = [object EXCEPT ![p].failed = TRUE]
          \/ object' = [object EXCEPT ![p].quit = TRUE]
      BY <2>1 DEF TellFailure, TellStop
    <3>2. /\ object[p] \in ObjectType
          /\ \A x \in ObjectType : [x EXCEPT !.failed = TRUE] \in ObjectType
                                   /\ [x EXCEPT !.quit = TRUE] \in ObjectType
      BY <1>4 DEF ObjectType
    <3>3. object' = [object EXCEPT ![p] = [object[p] EXCEPT !.failed = TRUE]]
          \/ object' = [object EXCEPT ![p] = [object[p] EXCEPT !.quit = TRUE]]
      BY <3>1
    <3>4. PICK x \in ObjectType : object' = [object EXCEPT ![p] = x]
      BY <3>2, <3>3
    <3>5. object' \in [Peripherals -> ObjectType]
      BY <1>4, <3>4
    <3> QED
      BY <3>5, <2>1 DEF TellFailure, TellStop
  <2>2. ASSUME NEW p \in Peripherals, TellFailure(p) \/ TellStop(p)
        PROVE  WorldTyped'
    BY <1>1, <1>4, <2>1, <2>2, TypesStay DEF WorldTyped, ObjectType, Calls!Call
  <2>3. ASSUME NEW p \in Peripherals, UpdateSettings(p)
        PROVE  WorldTyped'
    <3>1. settings' \in [Peripherals -> 0..1]
      BY <1>4, <2>3 DEF UpdateSettings
    <3> QED
      BY <1>1, <1>4, <2>3, <3>1, TypesStay DEF WorldTyped, ObjectType, Calls!Call, UpdateSettings
  <2>4. CASE UpdatePlatform
    BY <1>1, <1>4, <2>4, TypesStay DEF WorldTyped, ObjectType, Calls!Call, UpdatePlatform
  <2>5. ASSUME NEW p \in Peripherals, Enable(p) \/ Disable(p) \/ Restart(p)
        PROVE  WorldTyped'
    BY <1>1, <1>4, <2>5, TypesStay DEF WorldTyped, ObjectType, Calls!Call, Enable, Disable, Restart
  <2>6. ASSUME NEW p \in Peripherals, RemoveGiven(p) \/ AddGiven(p) \/ Plug(p)
        PROVE  WorldTyped'
    BY <1>1, <1>4, <2>6, TypesStay DEF WorldTyped, ObjectType, Calls!Call, RemoveGiven, AddGiven, Plug
  <2>7. ASSUME NEW x \in Endpoints, Offer(x)
        PROVE  WorldTyped'
    BY <1>1, <1>4, <2>7, TypesStay DEF WorldTyped, ObjectType, Calls!Call, Offer
  <2>8. CASE Boot \/ Close \/ Retry
    BY <1>1, <1>4, <2>8, TypesStay DEF WorldTyped, ObjectType, Calls!Call, Boot, Close, Retry,
       TimerFires, RetryDue
  <2> QED
    BY <2>2, <2>3, <2>4, <2>5, <2>6, <2>7, <2>8 DEF Called
<1> QED
  BY <1>1, <1>2, <1>3, <1>5, TypedAgain

\* The calls a peripheral may be in.
CallNames == {"off", "starting", "on", "asked", "stopping"}

\* One peripheral comes to be in another call.
LEMMA CallBecomes ==
    ASSUME object \in [Peripherals -> ObjectType], NEW p \in Peripherals, NEW c \in CallNames,
           object' = [object EXCEPT ![p].call = c]
    PROVE  /\ object' \in [Peripherals -> ObjectType]
           /\ \A q \in Peripherals :
                 /\ object'[q].call = IF q = p THEN c ELSE object[q].call
                 /\ object'[q].settings = object[q].settings
                 /\ object'[q].platform = object[q].platform
                 /\ object'[q].failed = object[q].failed /\ object'[q].quit = object[q].quit
<1>1. object[p] \in ObjectType
  OBVIOUS
<1>2. [object[p] EXCEPT !.call = c] \in ObjectType
  BY <1>1 DEF ObjectType, Calls!Call, CallNames
<1>3. object' = [object EXCEPT ![p] = [object[p] EXCEPT !.call = c]]
  OBVIOUS
<1> DEFINE x == [object[p] EXCEPT !.call = c]
<1>4. /\ x.call = c /\ x.settings = object[p].settings /\ x.platform = object[p].platform
      /\ x.failed = object[p].failed /\ x.quit = object[p].quit
  BY <1>1 DEF ObjectType
<1>5. x \in ObjectType /\ object' = [object EXCEPT ![p] = x]
  BY <1>2, <1>3
<1> HIDE DEF x
<1> QED
  BY <1>4, <1>5

\* The peripherals are typed.
LEMMA ObjectTyped ==
    ASSUME TypeOK
    PROVE  object \in [Peripherals -> ObjectType]
BY DEF TypeOK, ObjectType

\* What a hook leaves its peripheral with.
LEMMA BeginHookDoes ==
    ASSUME TypeOK, WorkInOrder, BeginHook
    PROVE  LET e == Head(work).e
           IN  /\ object' \in [Peripherals -> ObjectType]
               /\ \A q \in Peripherals :
                     /\ object'[q].call = IF q = e[1] THEN "asked" ELSE object[q].call
                     /\ object'[q].settings = IF q = e[1] /\ Head(work).do = "tell_settings" THEN settings[q]
                                              ELSE object[q].settings
                     /\ object'[q].platform = IF q = e[1] /\ Head(work).do = "tell_platform" THEN platform
                                              ELSE object[q].platform
                     /\ object'[q].failed = object[q].failed /\ object'[q].quit = object[q].quit
<1> DEFINE e == Head(work).e
           p == e[1]
           s == IF Head(work).do = "tell_settings" THEN settings[p] ELSE object[p].settings
           f == IF Head(work).do = "tell_platform" THEN platform ELSE object[p].platform
           y == object[p]
           x == [y EXCEPT !.call = "asked", !.settings = s, !.platform = f]
<1>1. /\ work # <<>> /\ e \in Entry
      /\ object' = [object EXCEPT
                        ![p].call = "asked",
                        ![p].settings = IF HeadIs("tell_settings") THEN settings[p] ELSE @,
                        ![p].platform = IF HeadIs("tell_platform") THEN platform ELSE @]
  BY BeginHookWork DEF BeginHook
<1>2. p \in Peripherals
  BY <1>1 DEF Entry
<1>3. /\ object \in [Peripherals -> ObjectType] /\ settings \in [Peripherals -> 0..1]
      /\ platform \in 0..1
  BY ObjectTyped DEF TypeOK
<1>4. HeadIs("tell_settings") <=> Head(work).do = "tell_settings"
  BY <1>1 DEF HeadIs
<1>5. HeadIs("tell_platform") <=> Head(work).do = "tell_platform"
  BY <1>1 DEF HeadIs
<1>6. object' = [object EXCEPT ![p] = x]
  BY <1>1, <1>2, <1>3, <1>4, <1>5 DEF ObjectType
<1>7. y \in ObjectType
  BY <1>2, <1>3
<1>8. s \in 0..1 /\ f \in 0..1
  BY <1>2, <1>3, <1>7 DEF ObjectType
<1> DEFINE d == Head(work).do
<1>9. /\ s = (IF d = "tell_settings" THEN settings[p] ELSE object[p].settings)
      /\ f = (IF d = "tell_platform" THEN platform ELSE object[p].platform)
  OBVIOUS
<1> HIDE DEF s, f, y
<1>10. /\ x \in ObjectType /\ x.call = "asked" /\ x.settings = s /\ x.platform = f
       /\ x.failed = y.failed /\ x.quit = y.quit
  BY <1>7, <1>8 DEF ObjectType, Calls!Call
<1> HIDE DEF x, p
<1>11. object' \in [Peripherals -> ObjectType]
       /\ \A q \in Peripherals : object'[q] = IF q = p THEN x ELSE object[q]
  BY <1>2, <1>3, <1>6, <1>10
<1> QED
  BY <1>9, <1>10, <1>11 DEF y, p

\* What is resolved is typed.
LEMMA BoundTyped ==
    ASSUME TypeOK, hub' = hub,
           bound' = Resolved(known', entry')
    PROVE  bound'.wanted \subseteq Peripherals /\ \A p \in Peripherals : bound'.links[p] \in LinksOf(p)
BY DEF Resolved, LinksOf

\* A snapshot is typed.
LEMMA SnapshotTyped ==
    ASSUME TypeOK
    PROVE  Snapshot \in [known : SUBSET Peripherals, offers : SUBSET Endpoints,
                         plugged : SUBSET Peripherals]
BY DEF TypeOK, Snapshot, Known, Children

\* A start that goes on is a start.
LEMMA NewStartsTyped ==
    ASSUME TypeOK, NEW s \in starts, NEW at \in {"spawned", "in", "left"}
    PROVE  /\ [s EXCEPT !.at = at] \in StartType
           /\ [s EXCEPT !.at = at].e = s.e /\ [s EXCEPT !.at = at].n = s.n
           /\ [s EXCEPT !.at = at].at = at
           /\ s.e \in Entry /\ s.n \in Tasks /\ s \in StartType
BY DEF TypeOK, StartType

\* A step of the holder keeps the types when what it changes is typed.
LEMMA ChangeTyped ==
    ASSUME TypeOK, hub' = hub, work' \in Seq(StepType),
           DOMAIN entry' = Entry, \A e \in Entry : entry'[e] \in EntryType(e[1]),
           UNCHANGED <<known, bound>>, gaveUp' \subseteq Peripherals, timer' \subseteq Entry,
           UNCHANGED <<given, plugged, offers, store, settings, platform, running>>,
           object' \in [Peripherals -> ObjectType], starts' \subseteq StartType,
           queue' \in Seq(TaskType), round' \in RoundType
    PROVE  TypeOK'
<1>1. LivesTyped'
  BY TypeIs, LivesTypedAgain DEF LivesTyped
<1>2. WorldTyped'
  BY TypeIs, TypesStay DEF WorldTyped, ObjectType, Calls!Call
<1>3. HeldTyped'
  BY TypeIs, TypesStay DEF HeldTyped, StartType, RoundType
<1> QED
  BY <1>1, <1>2, <1>3, TypesStay, TypedAgain

\* Every step of the holder and of the starts keeps the types and the order of the work.
LEMMA HolderTyped ==
    ASSUME TypeOK, WorkInOrder, StartsApart, Holder \/ Begins \/ Ends
    PROVE  TypeOK' /\ WorkInOrder'
<1>1. /\ gaveUp \subseteq Peripherals /\ timer \subseteq Entry /\ starts \subseteq StartType
      /\ queue \in Seq(TaskType) /\ round \in RoundType /\ object \in [Peripherals -> ObjectType]
      /\ \A e \in Entry : entry[e] \in EntryType(e[1]) /\ e[1] \in Peripherals
      /\ DOMAIN entry = Entry /\ work \in Seq(StepType)
  BY EntryOf DEF TypeOK, StartType, RoundType, ObjectType
<1>2. \A w : Fits(w) => w \in Seq(StepType) /\ Orderly(w)
  BY DEF Fits
<1>3. \A b \in BOOLEAN : [round EXCEPT !.changed = b] \in RoundType
  BY <1>1 DEF RoundType
<1>4. CASE Acquire
  <2> DEFINE x == Ended(entry[Head(queue).e], Head(queue).ok)
  <2>1. /\ Fits(work') /\ queue' \in Seq(TaskType)
        /\ UNCHANGED <<hub, known, given, plugged, offers, store, gaveUp, settings, platform,
                       bound, starts, timer, running, object>>
        /\ entry' = entry \/ Becomes(Head(queue).e, x)
        /\ round' = round \/ round' = [round EXCEPT !.n = 1]
    BY <1>4, AcquireTakes
  <2> HIDE DEF x
  <2>2. DOMAIN entry' = Entry /\ \A f \in Entry : entry'[f] \in EntryType(f[1])
    BY <1>1, <2>1, BecomesTyped
  <2>3. round' \in RoundType
    <3>1. 1 \in 0..NumPasses
      BY Numbers
    <3> QED
      BY <1>1, <2>1, <3>1 DEF RoundType
  <2> QED
    BY <1>1, <1>2, <2>1, <2>2, <2>3, ChangeTyped DEF WorkInOrder
<1>5. CASE SettleChange
  <2>1. Fits(work') /\ QueueRefresh(Present)
        /\ UNCHANGED <<hub, given, plugged, offers, store, gaveUp, settings, platform, bound,
                       round, starts, timer, running, object>>
    BY <1>5, FreeWork DEF SettleChange
  <2>2. Asking(Refresh)
    BY <2>1, ThereAre, RefreshAsks
  <2>3. LivesTyped' /\ queue' \in Seq(TaskType) /\ TaskType' = TaskType
    BY <2>1, <2>2, AskingTyped
  <2>4. WorldTyped' /\ HeldTyped'
    BY <2>1, TypeIs, WorldStays, HeldStays
  <2> QED
    BY <1>2, <2>1, <2>3, <2>4, TypesStay, TypedAgain DEF WorkInOrder
<1>6. CASE Closed
  <2>1. Fits(work') /\ queue' = Kept(queue, {t \in ToSet(queue) : t.do \in {"boot", "close"}})
        /\ starts' \subseteq starts
        /\ UNCHANGED <<hub, entry, known, given, plugged, offers, store, gaveUp, settings, platform, bound,
                       round, timer, running, object>>
    BY <1>6, FreeWork DEF Closed
  <2>2. queue' \in Seq(TaskType)
    BY <2>1, KeptWaits
  <2> QED
    BY <1>1, <1>2, <2>1, <2>2, ChangeTyped DEF WorkInOrder
<1>7. CASE \/ Revive \/ TellOrNote \/ TellMissed \/ TakeTold \/ NoChange \/ StopDisabled
           \/ StopUsers \/ DropUnwanted \/ BeginDeliver \/ Deliver
  <2>1. /\ Marking
        /\ UNCHANGED <<hub, known, given, plugged, offers, store, settings, platform, bound,
                       queue, starts, timer, running, object>>
        /\ gaveUp' \subseteq gaveUp
        /\ \E b \in BOOLEAN : round' = [round EXCEPT !.changed = b]
    BY <1>7, MarksDo
  <2>2. Fits(work')
    BY <1>7, DoneWork, TellOrNoteWork, TellMissedWork, TakeToldWork, StopUsersWork,
       DropUnwantedWork, BeginDeliverWork, DeliverWork
  <2> QED
    BY <1>1, <1>2, <1>3, <2>1, <2>2, ChangeTyped DEF WorkInOrder, Marking
<1>8. CASE LetStart
  <2>1. PICK x : Becomes(Head(work).e, x)
    BY <1>8, LetStartDoes
  <2>2. DOMAIN entry' = Entry /\ \A f \in Entry : entry'[f] \in EntryType(f[1])
    BY <2>1, BecomesTyped
  <2>3. Fits(work')
    BY <1>8, DoneWork
  <2>4. gaveUp' \subseteq Peripherals
        /\ UNCHANGED <<hub, known, given, plugged, offers, store, settings, platform, bound,
                   queue, round, starts, timer, running, object>>
    BY <1>1, <1>8 DEF LetStart
  <2> QED
    BY <1>1, <1>2, <2>2, <2>3, <2>4, ChangeTyped DEF WorkInOrder
<1>9. CASE CountFailure
  <2>1. PICK x : Becomes(Head(work).e, x)
    BY <1>9, CountFailureDoes
  <2>2. DOMAIN entry' = Entry /\ \A f \in Entry : entry'[f] \in EntryType(f[1])
    BY <2>1, BecomesTyped
  <2>3. Fits(work') /\ Head(work).e \in Entry
    BY <1>9, DoneWork, HeadFits
  <2>4. gaveUp' \subseteq Peripherals
        /\ UNCHANGED <<hub, known, given, plugged, offers, store, settings, platform, bound,
                   queue, round, starts, timer, running, object>>
    BY <1>1, <1>9, <2>3 DEF CountFailure
  <2> QED
    BY <1>1, <1>2, <2>2, <2>3, <2>4, ChangeTyped DEF WorkInOrder
<1>10. CASE CancelStart
  <2>1. PICK x : Becomes(Head(work).e, x) /\ Fits(work')
    BY <1>10, CancelStartDoes
  <2>2. DOMAIN entry' = Entry /\ \A f \in Entry : entry'[f] \in EntryType(f[1])
    BY <2>1, BecomesTyped
  <2>3. starts' \subseteq StartType /\ queue' \in Seq(TaskType)
    <3>1. CASE /\ queue' = Kept(queue, {t \in ToSet(queue) :
                       ~ (t.do = "started" /\ t.e = Head(work).e /\ t.n = entry[Head(work).e].task)})
               /\ starts' \subseteq starts
      BY <1>1, <3>1, KeptWaits
    <3>2. CASE UNCHANGED queue /\ \E s \in starts :
                   starts' = (starts \ {s}) \cup {[s EXCEPT !.at = "left"]}
      BY <1>1, <3>2, NewStartsTyped
    <3> QED
      BY <1>10, <3>1, <3>2 DEF CancelStart
  <2>4. UNCHANGED <<hub, known, given, plugged, offers, store, gaveUp, settings, platform, bound,
                   round, timer, running, object>>
    BY <1>10 DEF CancelStart
  <2> QED
    BY <1>1, <1>2, <2>1, <2>2, <2>3, <2>4, ChangeTyped DEF WorkInOrder
<1>11. CASE CallStop
  <2> DEFINE p == Head(work).e[1]
  <2>1. Marking /\ Fits(work') /\ Head(work).e \in Entry
        /\ object' = [object EXCEPT ![p].call = "stopping"]
    BY <1>11, CallStopDoes
  <2>2. p \in Peripherals
    BY <1>1, <2>1
  <2> HIDE DEF p
  <2>3. object' \in [Peripherals -> ObjectType]
    BY <1>1, <2>1, <2>2, CallBecomes DEF CallNames
  <2>4. UNCHANGED <<hub, known, given, plugged, offers, store, gaveUp, settings, platform, bound,
                   queue, round, starts, timer, running>>
    BY <1>11 DEF CallStop
  <2> QED
    BY <1>1, <1>2, <2>1, <2>3, <2>4, ChangeTyped DEF WorkInOrder, Marking
<1>12. CASE EndStop
  <2> DEFINE p == Head(work).e[1]
  <2>1. PICK x : /\ Becomes(Head(work).e, x)
                 /\ object' = [object EXCEPT ![p].call = "off"] \/ UNCHANGED object
    BY <1>12, EndStopDoes
  <2>2. DOMAIN entry' = Entry /\ \A f \in Entry : entry'[f] \in EntryType(f[1])
    BY <2>1, BecomesTyped
  <2>3. Fits(work') /\ p \in Peripherals
    BY <1>1, <1>12, DoneWork, HeadFits
  <2> HIDE DEF p
  <2>4. object' \in [Peripherals -> ObjectType]
    BY <1>1, <2>1, <2>3, CallBecomes DEF CallNames
  <2>5. UNCHANGED <<hub, known, given, plugged, offers, store, gaveUp, settings, platform, bound,
                   queue, round, starts, timer, running>>
    BY <1>12 DEF EndStop
  <2> QED
    BY <1>1, <1>2, <2>2, <2>3, <2>4, <2>5, ChangeTyped DEF WorkInOrder
<1>13. CASE BeginHook
  <2>1. Fits(work') /\ object' \in [Peripherals -> ObjectType]
    BY <1>13, BeginHookWork, BeginHookDoes
  <2>2. UNCHANGED <<hub, entry, known, given, plugged, offers, store, gaveUp, settings, platform,
                   bound, queue, round, starts, timer, running>>
    BY <1>13 DEF BeginHook
  <2> QED
    BY <1>1, <1>2, <2>1, <2>2, ChangeTyped DEF WorkInOrder
<1>14. CASE EndHook
  <2> DEFINE p == Head(work).e[1]
  <2>1. Fits(work') /\ Head(work).e \in Entry /\ object' = [object EXCEPT ![p].call = "on"]
    BY <1>14, EndHookWork DEF EndHook
  <2>2. p \in Peripherals
    BY <1>1, <2>1
  <2> HIDE DEF p
  <2>3. object' \in [Peripherals -> ObjectType]
    BY <1>1, <2>1, <2>2, CallBecomes DEF CallNames
  <2>4. UNCHANGED <<hub, entry, known, given, plugged, offers, store, gaveUp, settings, platform,
                   bound, queue, round, starts, timer, running>>
    BY <1>14 DEF EndHook
  <2> QED
    BY <1>1, <1>2, <2>1, <2>3, <2>4, ChangeTyped DEF WorkInOrder
<1>15. CASE BeginPass
  <2>1. Fits(work')
    BY <1>15, BeginPassWork
  <2>2. /\ Collect(Present) /\ bound' = Resolved(known', entry')
        /\ \E b \in BOOLEAN : round' = [round EXCEPT !.before = Snapshot, !.changed = b]
        /\ UNCHANGED <<hub, given, plugged, offers, store, gaveUp, settings, platform, queue, starts,
                       timer, running, object>>
    BY <1>15 DEF BeginPass
  <2>3. LivesTyped'
    BY <2>2, PassCollects, TypeIs, CollectTypes, LivesTypedAgain
  <2>4. round' \in RoundType
    BY <1>1, <2>2, SnapshotTyped DEF RoundType
  <2>5. HeldTyped'
    BY <1>1, <2>2, <2>4, BoundTyped, TypesStay DEF HeldTyped, RoundType, StartType
  <2>6. WorldTyped'
    BY <2>2, TypeIs, WorldStays
  <2> QED
    BY <1>1, <1>2, <2>1, <2>2, <2>3, <2>5, <2>6, TypesStay, TypedAgain DEF WorkInOrder
<1>16. CASE EndPass
  <2>1. Fits(work')
    BY <1>16, EndPassWork
  <2>2. PICK S \in SUBSET Entry :
              /\ \A e \in S : /\ e \in CurrentEntries /\ entry[e].state = "waiting"
                              /\ entry[e].task = NoTask =>
                                    NewTask(e) \in Tasks /\ NewTask(e) \notin StartTasks(e)
              /\ DOMAIN entry' = Entry
              /\ \A e \in Entry :
                    IF e \notin S THEN entry'[e] = entry[e]
                    ELSE entry[e].task = NoTask => entry'[e] \in EntryType(e[1])
              /\ starts' = starts \cup {[e |-> e, n |-> NewTask(e), at |-> "spawned"] : e \in S}
              /\ round' = round \/ (round.n < NumPasses /\ round' = [round EXCEPT !.n = round.n + 1])
              /\ timer' = timer \/ timer' \subseteq Entry
    BY <1>16, EndPassDoes DEF StartsApart
  <2>3. \A e \in S : entry[e].task = NoTask
    BY <2>2 DEF StartsApart
  <2>4. \A f \in Entry : entry'[f] \in EntryType(f[1])
    BY <1>1, <2>2, <2>3
  <2>5. starts' \subseteq StartType
    BY <1>1, <2>2, <2>3 DEF StartType
  <2>6. round' \in RoundType
    <3>1. round.n \in 0..NumPasses /\ NumPasses \in Nat
      BY <1>1, Numbers DEF RoundType
    <3>2. round.n < NumPasses => round.n + 1 \in 0..NumPasses
      BY <3>1
    <3> QED
      BY <1>1, <2>2, <3>2 DEF RoundType
  <2>7. UNCHANGED <<hub, known, given, plugged, offers, store, gaveUp, settings, platform, bound,
                   queue, running, object>>
    BY <1>16 DEF EndPass
  <2> QED
    BY <1>1, <1>2, <2>1, <2>2, <2>4, <2>5, <2>6, <2>7, ChangeTyped DEF WorkInOrder
<1>17. ASSUME NEW s \in starts, BeginStart(s)
       PROVE  TypeOK' /\ WorkInOrder'
  <2> DEFINE p == s.e[1]
             x == [call |-> "starting", settings |-> settings[p],
                   platform |-> platform, failed |-> FALSE, quit |-> FALSE]
  <2>1. /\ starts' = (starts \ {s}) \cup {[s EXCEPT !.at = "in"]}
        /\ object' = [object EXCEPT ![p] = x]
        /\ UNCHANGED <<hub, entry, known, given, plugged, offers, store, gaveUp, settings, platform,
                       bound, queue, work, round, timer, running>>
    BY <1>17 DEF BeginStart
  <2>2. starts' \subseteq StartType /\ p \in Peripherals
    BY <1>1, <2>1, NewStartsTyped
  <2>3. settings \in [Peripherals -> 0..1] /\ platform \in 0..1
    BY DEF TypeOK
  <2>4. x \in ObjectType
    BY <2>2, <2>3 DEF ObjectType, Calls!Call
  <2> HIDE DEF x, p
  <2>5. object' \in [Peripherals -> ObjectType]
    BY <1>1, <2>1, <2>2, <2>4
  <2> QED
    BY <1>1, <2>1, <2>2, <2>5, ChangeTyped DEF WorkInOrder
<1>18. ASSUME NEW s \in starts, NEW ok \in BOOLEAN, EndStart(s, ok)
       PROVE  TypeOK' /\ WorkInOrder'
  <2> DEFINE t == [Task("started", s.e) EXCEPT !.n = s.n, !.ok = ok]
             p == s.e[1]
  <2>1. /\ starts' = starts \ {s}
        /\ queue' = Append(queue, t)
        /\ object' = [object EXCEPT ![p].call = "on"] \/ object' = object
        /\ UNCHANGED <<hub, entry, known, given, plugged, offers, store, gaveUp, settings, platform,
                   bound, work, round, timer, running>>
    BY <1>18 DEF EndStart
  <2>2. s.e \in Entry /\ s.n \in Tasks /\ p \in Peripherals
    BY <1>1, NewStartsTyped
  <2>3. t \in TaskType
    BY <2>2 DEF Task, TaskType
  <2> HIDE DEF t, p
  <2>4. queue' \in Seq(TaskType)
    BY <1>1, <2>1, <2>3, SetOfAppend
  <2>5. object' \in [Peripherals -> ObjectType]
    BY <1>1, <2>1, <2>2, CallBecomes DEF CallNames
  <2>6. starts' \subseteq StartType
    BY <1>1, <2>1
  <2> QED
    BY <1>1, <2>1, <2>4, <2>5, <2>6, ChangeTyped DEF WorkInOrder
<1> QED
  BY <1>4, <1>5, <1>6, <1>7, <1>8, <1>9, <1>10, <1>11, <1>12, <1>13, <1>14, <1>15, <1>16, <1>17, <1>18
     DEF Holder, Begins, Ends

-----------------------------------------------------------------------------
(* Starts apart. *)

\* Whose start tasks there are.
LEMMA StartTasksIs ==
    \A e, n : n \in StartTasks(e) <=> \/ \E s \in starts : s.e = e /\ s.n = n
                                      \/ \E t \in Waiting : IsStartOf(t, e, n)
BY DEF StartTasks, Waiting, IsStartOf

\* No start task waits twice in what is left of the queue, or with a task that is none.
LEMMA OnceWhenKept ==
    ASSUME TypeOK, OnceWaiting, NEW K, queue' = Kept(queue, K)
    PROVE  OnceWaiting'
<1>1. queue \in Seq(TaskType)
  BY DEF TypeOK
<1>2. PICK g \in [DOMAIN queue' -> DOMAIN queue] :
                 /\ \A i \in DOMAIN queue' : queue'[i] = queue[g[i]]
                 /\ \A i, j \in DOMAIN queue' : i < j => g[i] < g[j]
  BY <1>1, KeptIs
<1>3. queue' \in Seq(TaskType)
  BY KeptWaits
<1>4. \A i \in DOMAIN queue' : i \in Nat
  BY <1>3
<1>5. \A i \in DOMAIN queue : i \in Nat
  BY <1>1
<1>6. ASSUME NEW i \in DOMAIN queue', NEW j \in DOMAIN queue',
             queue'[i].do = "started", IsStartOf(queue'[j], queue'[i].e, queue'[i].n)
      PROVE  i = j
  <2>1. g[i] = g[j]
    BY <1>2, <1>6 DEF OnceWaiting
  <2>2. g[i] \in Nat /\ g[j] \in Nat
    BY <1>2, <1>5
  <2>3. i \in Nat /\ j \in Nat /\ (i < j => g[i] < g[j]) /\ (j < i => g[j] < g[i])
    BY <1>2, <1>4
  <2> QED
    BY <2>1, <2>2, <2>3
<1> QED
  BY <1>6 DEF OnceWaiting, IsStartOf

\* A start that waits for the lock waits once, also with one task more.
LEMMA OnceWhenAppended ==
    ASSUME TypeOK, OnceWaiting, NEW t \in TaskType, queue' = Append(queue, t),
           t.do = "started" => \A u \in Waiting : ~ IsStartOf(u, t.e, t.n)
    PROVE  OnceWaiting' /\ Waiting' = Waiting \cup {t}
<1>1. queue \in Seq(TaskType)
  BY DEF TypeOK
<1>2. Waiting' = Waiting \cup {t}
  BY <1>1, SetOfAppend DEF Waiting
<1>3. /\ DOMAIN queue = 1..Len(queue) /\ Len(queue) \in Nat /\ DOMAIN queue' = 1..(Len(queue) + 1)
      /\ queue'[Len(queue) + 1] = t /\ \A i \in 1..Len(queue) : queue'[i] = queue[i]
  BY <1>1
<1>4. \A i \in DOMAIN queue' : \/ i \in DOMAIN queue /\ queue'[i] = queue[i] /\ queue'[i] \in Waiting
                               \/ i = Len(queue) + 1 /\ queue'[i] = t
  <2>1. \A i \in DOMAIN queue' : i \in 1..Len(queue) \/ i = Len(queue) + 1
    BY <1>3
  <2> QED
    BY <2>1, <1>3 DEF Waiting, ToSet
<1>5. ASSUME NEW i \in DOMAIN queue', NEW j \in DOMAIN queue',
             queue'[i].do = "started", IsStartOf(queue'[j], queue'[i].e, queue'[i].n)
      PROVE  i = j
  BY <1>4, <1>5 DEF OnceWaiting, IsStartOf
<1> QED
  BY <1>2, <1>5 DEF OnceWaiting, IsStartOf

\* Also with the first one gone.
LEMMA OnceWhenTaken ==
    ASSUME TypeOK, OnceWaiting, queue # <<>>, queue' = Tail(queue)
    PROVE  /\ OnceWaiting' /\ Waiting = {Head(queue)} \cup Waiting'
           /\ Head(queue).do = "started" =>
                 \A t \in Waiting' : ~ IsStartOf(t, Head(queue).e, Head(queue).n)
<1>1. queue \in Seq(TaskType)
  BY DEF TypeOK
<1>2. /\ Waiting = {Head(queue)} \cup Waiting' /\ queue' \in Seq(TaskType)
      /\ Head(queue) = queue[1] /\ Len(queue') = Len(queue) - 1 /\ Len(queue) \in Nat \ {0}
      /\ \A i \in 1..(Len(queue) - 1) : queue'[i] = queue[i + 1]
  BY <1>1, SetOfTail DEF Waiting
<1>3. DOMAIN queue = 1..Len(queue) /\ DOMAIN queue' = 1..(Len(queue) - 1)
  BY <1>1, <1>2
<1>4. \A i \in DOMAIN queue' : i + 1 \in DOMAIN queue /\ queue'[i] = queue[i + 1] /\ i + 1 # 1 /\ i \in Nat
  BY <1>2, <1>3
<1>5. ASSUME NEW i \in DOMAIN queue', NEW j \in DOMAIN queue',
             queue'[i].do = "started", IsStartOf(queue'[j], queue'[i].e, queue'[i].n)
      PROVE  i = j
  <2>1. i + 1 = j + 1
    BY <1>4, <1>5 DEF OnceWaiting, IsStartOf
  <2> QED
    BY <2>1, <1>4
<1>6. ASSUME NEW t \in Waiting', Head(queue).do = "started", IsStartOf(t, Head(queue).e, Head(queue).n)
      PROVE  FALSE
  <2>1. PICK i \in DOMAIN queue' : t = queue'[i]
    BY DEF Waiting, ToSet
  <2>2. 1 \in DOMAIN queue /\ queue[1].do = "started"
    BY <1>2, <1>3, <1>6
  <2>3. i + 1 = 1
    BY <1>2, <1>4, <1>6, <2>1, <2>2 DEF OnceWaiting, IsStartOf
  <2> QED
    BY <2>3, <1>4
<1> QED
  BY <1>2, <1>5, <1>6 DEF OnceWaiting, IsStartOf

\* Starts stay apart when none begins and none is left behind.
LEMMA StartsStayApart ==
    ASSUME TypeOK, StartsApart, hub' = hub, starts' \subseteq starts, OnceWaiting',
           \A t \in Waiting' : t.do = "started" => t \in Waiting,
           \A e \in Entry :
              \/ /\ entry'[e].task = entry[e].task
                 /\ entry'[e].task # NoTask => entry'[e].state = "starting"
              \/ /\ entry'[e].task = NoTask
                 /\ \A s \in starts' : s.e = e => s.at = "left"
                 /\ Tasks \ StartTasks(e)' # {}
    PROVE  StartsApart'
<1>1. Tasks' = Tasks /\ starts \subseteq StartType /\ NoTask \notin Tasks
  BY TypesStay DEF TypeOK, StartType, Tasks, NoTask
<1>2. \A e : StartTasks(e)' \subseteq StartTasks(e)
  <2>1. \A e, n : n \in StartTasks(e)' <=> \/ \E s \in starts' : s.e = e /\ s.n = n
                                           \/ \E t \in Waiting' : IsStartOf(t, e, n)
    BY DEF StartTasks, Waiting, IsStartOf
  <2> QED
    BY <2>1, StartTasksIs DEF IsStartOf
<1>3. ASSUME NEW s \in starts'
      PROVE  /\ s.at = "left" <=> entry'[s.e].task # s.n
             /\ \A t \in starts' : s.e = t.e /\ s.n = t.n => s = t
             /\ \A t \in Waiting' : ~ IsStartOf(t, s.e, s.n)
  <2>1. s.e \in Entry /\ s.n \in Tasks /\ s \in starts
    BY <1>1 DEF StartType
  <2> QED
    BY <1>1, <2>1 DEF StartsApart, IsStartOf
<1>4. ASSUME NEW e \in Entry
      PROVE  /\ entry'[e].task # NoTask => entry'[e].state = "starting"
             /\ entry'[e].task = NoTask => Tasks' \ StartTasks(e)' # {}
  BY <1>1, <1>2 DEF StartsApart
<1> QED
  BY <1>1, <1>3, <1>4 DEF StartsApart, IsStartOf

\* ... or change at all.
LEMMA StartsUntouched ==
    ASSUME TypeOK, StartsApart, hub' = hub, starts' = starts, queue' = queue,
           \A e \in Entry : /\ entry'[e].task = entry[e].task
                            /\ entry'[e].task # NoTask => entry'[e].state = "starting"
    PROVE  StartsApart'
<1>1. OnceWaiting' /\ Waiting' = Waiting
  BY DEF StartsApart, OnceWaiting, IsStartOf, Waiting
<1> QED
  BY <1>1, StartsStayApart

\* Nobody waits for the start of an entry nobody refers to.
LEMMA UnreferredStarts ==
    ASSUME TypeOK, NEW e \in Entry, ~ IsReferred(e)
    PROVE  /\ \A s \in starts : s.e # e
           /\ \A t \in Waiting : t.e # e /\ e \notin t.all
           /\ \A x \in Todo : x.e # e
           /\ StartTasks(e) = {}
<1>1. /\ \A s \in starts : s.e # e
      /\ \A t \in Waiting : t.e # e /\ e \notin t.all
      /\ \A x \in Todo : x.e # e
  BY DEF IsReferred, Waiting, Todo, ToSet
<1>2. \A n : n \notin StartTasks(e)
  BY <1>1, StartTasksIs DEF IsStartOf
<1> QED
  BY <1>1, <1>2

\* Collecting leaves the starts apart: an adopted entry has none.
LEMMA CollectStartsApart ==
    ASSUME TypeOK, StartsApart, Collects, hub' = hub, starts' = starts, queue' = queue
    PROVE  StartsApart'
<1>1. OnceWaiting' /\ Waiting' = Waiting
  BY DEF StartsApart, OnceWaiting, IsStartOf, Waiting
<1>2. \A e : StartTasks(e)' = StartTasks(e)
  BY DEF StartTasks
<1>3. Tasks # {}
  <2>1. hub.tasks \in Nat \ {0}
    BY HubIs DEF TypeOK
  <2>2. 1 \in 1..hub.tasks
    BY <2>1
  <2> QED
    BY <2>2 DEF Tasks
<1>4. ASSUME NEW e \in Entry
      PROVE  \/ /\ entry'[e].task = entry[e].task
                /\ entry'[e].task # NoTask => entry'[e].state = "starting"
             \/ /\ entry'[e].task = NoTask
                /\ \A s \in starts' : s.e = e => s.at = "left"
                /\ Tasks \ StartTasks(e)' # {}
  <2>1. CASE entry'[e] = entry[e]
    BY <2>1 DEF StartsApart
  <2>2. CASE entry'[e] # entry[e]
    <3>1. entry'[e].task = NoTask /\ ~ IsReferred(e)
      BY <2>2, CollectsDo
    <3> QED
      BY <3>1, <1>2, <1>3, UnreferredStarts
  <2> QED
    BY <2>1, <2>2
<1> QED
  BY <1>1, <1>4, StartsStayApart

\* So does asking for a task.
LEMMA AskingStartsApart ==
    ASSUME TypeOK, StartsApart, hub' = hub, starts' = starts, NEW t, Asking(t)
    PROVE  StartsApart'
<1>1. CASE queue' = Append(queue, t) /\ UNCHANGED <<entry, known>>
  <2>1. t \in TaskType /\ t.do # "started"
    BY DEF Asking
  <2>2. OnceWaiting' /\ Waiting' = Waiting \cup {t}
    BY <1>1, <2>1, OnceWhenAppended DEF StartsApart
  <2>3. \A u \in Waiting' : u.do = "started" => u \in Waiting
    BY <2>1, <2>2
  <2>4. \A e \in Entry : /\ entry'[e].task = entry[e].task
                         /\ entry'[e].task # NoTask => entry'[e].state = "starting"
    BY <1>1 DEF StartsApart
  <2> QED
    BY <2>2, <2>3, <2>4, StartsStayApart
<1>2. CASE Collects /\ UNCHANGED queue
  BY <1>2, CollectStartsApart
<1> QED
  BY <1>1, <1>2 DEF Asking

\* While the head is no stop, no stop is to be made and no other failure counted.
LEMMA HeadNotStopping ==
    ASSUME TypeOK, WorkInOrder, work # <<>>, Head(work).do \notin Stops
    PROVE  \A x \in Todo : x.do \notin Stops /\ (x.do = "failed" => x = Head(work))
BY HeadFits

\* The start of an entry cancelled: no task of it is left, or one left behind.
LEMMA CancelStartStarts ==
    ASSUME TypeOK, WorkInOrder, StartsApart, CancelStart
    PROVE  StartsApart'
<1>0. PICK e, n : e = Head(work).e /\ n = entry[e].task
  OBVIOUS
<1>1. PICK x : /\ Becomes(e, x) /\ x.task = NoTask /\ n # NoTask
               /\ x.state = entry[e].state
  BY <1>0, CancelStartDoes
<1>2. hub' = hub
  BY DEF CancelStart
<1>3. e \in Entry /\ entry[e] \in EntryType(e[1])
  BY <1>1, EntryOf DEF Becomes
<1>4. n \in Tasks
  BY <1>0, <1>1, <1>3 DEF EntryType
<1>5. \A f \in Entry : entry'[f] = IF f = e THEN x ELSE entry[f]
  BY <1>1 DEF Becomes
<1>6. /\ starts \subseteq StartType /\ NoTask \notin Tasks /\ Tasks' = Tasks
  BY <1>2, TypesStay DEF TypeOK, StartType, Tasks, NoTask
<1>7. \A f \in Entry : f # e => /\ entry'[f].task = entry[f].task
                                /\ entry'[f].task # NoTask => entry'[f].state = "starting"
  BY <1>5 DEF StartsApart
<1>8. CASE /\ queue' = Kept(queue, {t \in ToSet(queue) : ~ (t.do = "started" /\ t.e = e /\ t.n = n)})
           /\ starts' = {s \in starts : ~ (s.e = e /\ s.n = n)}
  <2>1. Waiting' = {t \in Waiting : ~ IsStartOf(t, e, n)}
    BY <1>8, KeptWaits DEF IsStartOf, Waiting
  <2>2. OnceWaiting'
    BY <1>8, OnceWhenKept DEF StartsApart
  <2>3. n \notin StartTasks(e)'
    <3>1. n \in StartTasks(e)' => \/ \E s \in starts' : s.e = e /\ s.n = n
                                  \/ \E t \in Waiting' : IsStartOf(t, e, n)
      BY DEF StartTasks, Waiting, IsStartOf
    <3> QED
      BY <1>8, <2>1, <3>1
  <2>4. \A s \in starts' : s.e = e => s.at = "left"
    BY <1>0, <1>1, <1>8 DEF StartsApart
  <2>5. \A f \in Entry :
              \/ /\ entry'[f].task = entry[f].task
                 /\ entry'[f].task # NoTask => entry'[f].state = "starting"
              \/ /\ entry'[f].task = NoTask
                 /\ \A s \in starts' : s.e = f => s.at = "left"
                 /\ Tasks \ StartTasks(f)' # {}
    BY <1>1, <1>4, <1>5, <1>7, <2>3, <2>4
  <2>6. starts' \subseteq starts /\ \A t \in Waiting' : t.do = "started" => t \in Waiting
    BY <1>8, <2>1
  <2> QED
    BY <1>2, <2>2, <2>5, <2>6, StartsStayApart
<1>9. CASE /\ Cardinality(StartTasks(e)) < hub.tasks
           /\ \E s \in starts :
                        /\ s.e = e /\ s.n = n /\ s.at = "in"
                        /\ starts' = (starts \ {s}) \cup {[s EXCEPT !.at = "left"]}
           /\ UNCHANGED queue
  <2>1. PICK s \in starts :
                        /\ s.e = e /\ s.n = n /\ s.at = "in"
                        /\ starts' = (starts \ {s}) \cup {[s EXCEPT !.at = "left"]}
    BY <1>9
  <2> DEFINE r == [s EXCEPT !.at = "left"]
  <2>2. r.e = e /\ r.n = n /\ r.at = "left" /\ starts' = (starts \ {s}) \cup {r}
    BY <2>1, NewStartsTyped
  <2> HIDE DEF r
  <2>3. Waiting' = Waiting /\ OnceWaiting'
    BY <1>9 DEF Waiting, StartsApart, OnceWaiting, IsStartOf
  <2>4. \A f, k : k \in StartTasks(f)' <=> k \in StartTasks(f)
    <3>1. \A f, k : k \in StartTasks(f)' <=> \/ \E t \in starts' : t.e = f /\ t.n = k
                                             \/ \E t \in Waiting' : IsStartOf(t, f, k)
      BY DEF StartTasks, Waiting, IsStartOf
    <3>2. \A f, k : (\E t \in starts' : t.e = f /\ t.n = k) <=> (\E t \in starts : t.e = f /\ t.n = k)
      BY <2>1, <2>2
    <3> QED
      BY <2>3, <3>1, <3>2, StartTasksIs
  <2>5. \A f : StartTasks(f)' = StartTasks(f)
    BY <2>4
  <2>6. Tasks \ StartTasks(e) # {}
    <3>1. hub.tasks \in Nat
      BY HubIs DEF TypeOK
    <3> DEFINE k == hub.tasks
    <3>7. k \in Int /\ 1 \in Int /\ (1 > k => k = 0) /\ k - 1 + 1 = k
      BY <3>1
    <3> HIDE DEF k
    <3>8. Cardinality(1..k) = IF 1 > k THEN 0 ELSE k - 1 + 1
      BY <3>7, FS_Interval
    <3>2. Cardinality(1..hub.tasks) = hub.tasks
      BY <3>7, <3>8 DEF k
    <3>3. StartTasks(e) \subseteq Tasks
      BY <1>6, StartTasksIs DEF StartsApart, IsStartOf, StartType
    <3>4. SUFFICES ASSUME Tasks \subseteq StartTasks(e) PROVE FALSE
      OBVIOUS
    <3>5. StartTasks(e) = 1..hub.tasks
      BY <3>3, <3>4 DEF Tasks
    <3>6. Cardinality(StartTasks(e)) = hub.tasks
      BY <3>2, <3>5
    <3> QED
      BY <1>9, <3>1, <3>6
  <2>7. ASSUME NEW t \in starts'
        PROVE  /\ t.at = "left" <=> entry'[t.e].task # t.n
               /\ \A u \in starts' : t.e = u.e /\ t.n = u.n => t = u
               /\ \A u \in Waiting' : ~ IsStartOf(u, t.e, t.n)
    <3>1. \A u \in starts' : \/ u = r
                             \/ u \in starts /\ u # s /\ u.e \in Entry /\ u.n \in Tasks
      BY <1>6, <2>2 DEF StartType
    <3>2. \A u \in Waiting' : ~ IsStartOf(u, e, n)
      BY <2>1, <2>3 DEF StartsApart
    <3>3. entry'[e].task = NoTask
      BY <1>1, <1>3, <1>5
    <3>4. CASE t = r
      <4>1. \A u \in starts : u # s => ~ (u.e = e /\ u.n = n)
        BY <2>1 DEF StartsApart
      <4> QED
        BY <1>1, <2>2, <3>1, <3>2, <3>3, <3>4, <4>1
    <3>5. CASE t # r
      <4>1. t \in starts /\ t # s /\ t.e \in Entry /\ t.n \in Tasks
        BY <3>1, <3>5
      <4>2. ~ (t.e = e /\ t.n = n)
        BY <2>1, <4>1 DEF StartsApart
      <4>3. t.at = "left" <=> entry'[t.e].task # t.n
        <5>1. CASE t.e = e
          <6>1. t.at = "left"
            BY <1>0, <4>1, <4>2, <5>1 DEF StartsApart
          <6> QED
            BY <1>6, <3>3, <4>1, <5>1, <6>1
        <5>2. CASE t.e # e
          BY <1>7, <4>1, <5>2 DEF StartsApart
        <5> QED
          BY <5>1, <5>2
      <4>4. \A u \in starts' : t.e = u.e /\ t.n = u.n => t = u
        BY <2>2, <3>1, <4>1, <4>2 DEF StartsApart
      <4>5. \A u \in Waiting' : ~ IsStartOf(u, t.e, t.n)
        BY <2>3, <4>1 DEF StartsApart
      <4> QED
        BY <4>3, <4>4, <4>5
    <3> QED
      BY <3>4, <3>5
  <2>8. \A t \in Waiting' : t.do = "started" => t.n \in Tasks'
    BY <1>6, <2>3 DEF StartsApart
  <2>9. ASSUME NEW f \in Entry
        PROVE  /\ entry'[f].task # NoTask => entry'[f].state = "starting"
               /\ entry'[f].task = NoTask => Tasks' \ StartTasks(f)' # {}
    BY <1>1, <1>5, <1>6, <1>7, <2>5, <2>6 DEF StartsApart
  <2> QED
    BY <2>3, <2>7, <2>8, <2>9 DEF StartsApart, IsStartOf
<1> QED
  BY <1>0, <1>8, <1>9 DEF CancelStart

\* The starts of a pass are new ones.
LEMMA EndPassStarts ==
    ASSUME TypeOK, WorkInOrder, StartsApart, EndPass
    PROVE  StartsApart'
<1>1. hub' = hub /\ queue' = queue
  BY DEF EndPass
<1>2. PICK S \in SUBSET Entry :
              /\ \A e \in S : /\ entry[e].state = "waiting"
                              /\ entry[e].task = NoTask =>
                                    NewTask(e) \in Tasks /\ NewTask(e) \notin StartTasks(e)
              /\ \A e \in Entry :
                    IF e \notin S THEN entry'[e] = entry[e]
                    ELSE entry'[e].state = "starting" /\ entry'[e].task = NewTask(e)
              /\ starts' = starts \cup {[e |-> e, n |-> NewTask(e), at |-> "spawned"] : e \in S}
  BY EndPassDoes DEF StartsApart
<1>3. \A e \in S : entry[e].task = NoTask /\ NewTask(e) \in Tasks /\ NewTask(e) \notin StartTasks(e)
  BY <1>2 DEF StartsApart
<1>4. Tasks' = Tasks /\ NoTask \notin Tasks /\ starts \subseteq StartType
  BY <1>1, TypesStay DEF TypeOK, StartType, Tasks, NoTask
<1>5. Waiting' = Waiting /\ OnceWaiting'
  BY <1>1 DEF Waiting, StartsApart, OnceWaiting, IsStartOf
<1>6. \A t \in starts' : \/ t \in starts /\ t.e \in Entry /\ t.n \in Tasks
                         \/ t.e \in S /\ t.n = NewTask(t.e) /\ t.at = "spawned"
                            /\ t = [e |-> t.e, n |-> NewTask(t.e), at |-> "spawned"]
  BY <1>2, <1>4 DEF StartType
<1>7. \A t \in starts : t.e \in S => t.n # NewTask(t.e) /\ t.at = "left"
  <2>1. \A t \in starts : t.n \in StartTasks(t.e)
    BY StartTasksIs
  <2> QED
    BY <1>3, <1>4, <2>1 DEF StartsApart, StartType
<1>8. ASSUME NEW t \in starts'
      PROVE  /\ t.at = "left" <=> entry'[t.e].task # t.n
             /\ \A u \in starts' : t.e = u.e /\ t.n = u.n => t = u
             /\ \A u \in Waiting' : ~ IsStartOf(u, t.e, t.n)
  <2>1. CASE t \in starts /\ t.e \in Entry
    <3>1. t.at = "left" <=> entry'[t.e].task # t.n
      BY <1>2, <1>7, <2>1 DEF StartsApart
    <3> QED
      BY <1>5, <1>6, <1>7, <2>1, <3>1 DEF StartsApart
  <2>2. CASE t.e \in S /\ t.n = NewTask(t.e) /\ t.at = "spawned"
             /\ t = [e |-> t.e, n |-> NewTask(t.e), at |-> "spawned"]
    <3>1. entry'[t.e].task = t.n
      BY <1>2, <2>2
    <3>2. \A u \in Waiting' : ~ IsStartOf(u, t.e, t.n)
      BY <1>3, <1>5, <2>2, StartTasksIs
    <3> QED
      BY <1>6, <1>7, <2>2, <3>1, <3>2
  <2> QED
    BY <1>6, <2>1, <2>2
<1>9. ASSUME NEW e \in Entry
      PROVE  /\ entry'[e].task # NoTask => entry'[e].state = "starting"
             /\ entry'[e].task = NoTask => Tasks' \ StartTasks(e)' # {}
  <2>1. CASE e \in S
    BY <1>2, <1>3, <1>4, <2>1
  <2>2. CASE e \notin S
    <3>1. entry'[e] = entry[e]
      BY <1>2, <2>2
    <3>2. \A n : n \in StartTasks(e)' <=> \/ \E s \in starts' : s.e = e /\ s.n = n
                                          \/ \E t \in Waiting' : IsStartOf(t, e, n)
      BY DEF StartTasks, Waiting, IsStartOf
    <3>3. \A s \in starts' : s.e = e => s \in starts
      BY <1>6, <2>2
    <3>4. StartTasks(e)' \subseteq StartTasks(e)
      BY <1>5, <3>2, <3>3, StartTasksIs
    <3> QED
      BY <1>4, <3>1, <3>4 DEF StartsApart
  <2> QED
    BY <2>1, <2>2
<1>10. \A t \in Waiting' : t.do = "started" => t.n \in Tasks'
  BY <1>4, <1>5 DEF StartsApart
<1> QED
  BY <1>5, <1>8, <1>9, <1>10 DEF StartsApart, IsStartOf

\* Taking the lock leaves the starts apart: the one whose start ended has none.
LEMMA AcquireStarts ==
    ASSUME TypeOK, WorkInOrder, StartsApart, Acquire
    PROVE  StartsApart'
<1>0. PICK t : t = Head(queue)
  OBVIOUS
<1> DEFINE x == Ended(entry[t.e], t.ok)
<1>1. /\ queue # <<>> /\ queue' = Tail(queue) /\ hub' = hub /\ starts' = starts /\ t.e \in Entry
      /\ \/ entry' = entry
         \/ t.do = "started" /\ IsItsStart(t) /\ Becomes(t.e, x)
  BY <1>0, AcquireTakes
<1>2. /\ OnceWaiting' /\ Waiting = {t} \cup Waiting'
      /\ t.do = "started" => \A u \in Waiting' : ~ IsStartOf(u, t.e, t.n)
  BY <1>0, <1>1, OnceWhenTaken DEF StartsApart
<1>3. CASE entry' = entry
  <2>1. \A e \in Entry : /\ entry'[e].task = entry[e].task
                         /\ entry'[e].task # NoTask => entry'[e].state = "starting"
    BY <1>3 DEF StartsApart
  <2> QED
    BY <1>1, <1>2, <2>1, StartsStayApart
<1>4. CASE t.do = "started" /\ IsItsStart(t) /\ Becomes(t.e, x)
  <2>1. x.task = NoTask
    <3>1. t \in TaskType /\ t.ok \in BOOLEAN
      BY <1>0, AcquireTakes DEF TaskType
    <3> QED
      BY <1>1, <3>1, EndedTyped
  <2> HIDE DEF x
  <2>2. \A e \in Entry : entry'[e] = IF e = t.e THEN x ELSE entry[e]
    BY <1>4 DEF Becomes
  <2>3. entry[t.e].task = t.n /\ IsStartOf(t, t.e, t.n) /\ t \in Waiting
    BY <1>2, <1>4 DEF IsItsStart, IsStartOf
  <2>4. \A s \in starts : s.e = t.e => s.at = "left"
    BY <2>3 DEF StartsApart
  <2>5. t.n \in Tasks
    BY <1>4, <2>3 DEF StartsApart
  <2>6. t.n \notin StartTasks(t.e)'
    <3>1. t.n \in StartTasks(t.e)' => \/ \E s \in starts' : s.e = t.e /\ s.n = t.n
                                      \/ \E u \in Waiting' : IsStartOf(u, t.e, t.n)
      BY DEF StartTasks, Waiting, IsStartOf
    <3>2. \A s \in starts : ~ (s.e = t.e /\ s.n = t.n)
      BY <2>3 DEF StartsApart
    <3> QED
      BY <1>1, <1>2, <1>4, <3>1, <3>2
  <2>7. \A e \in Entry :
              \/ /\ entry'[e].task = entry[e].task
                 /\ entry'[e].task # NoTask => entry'[e].state = "starting"
              \/ /\ entry'[e].task = NoTask
                 /\ \A s \in starts' : s.e = e => s.at = "left"
                 /\ Tasks \ StartTasks(e)' # {}
    BY <1>1, <2>1, <2>2, <2>4, <2>5, <2>6 DEF StartsApart
  <2> QED
    BY <1>1, <1>2, <2>7, StartsStayApart
<1> QED
  BY <1>1, <1>3, <1>4

\* So does a start that begins.
LEMMA BeginStartStarts ==
    ASSUME TypeOK, StartsApart, NEW s \in starts, BeginStart(s)
    PROVE  StartsApart'
<1> DEFINE r == [s EXCEPT !.at = "in"]
<1>1. s.at = "spawned" /\ starts' = (starts \ {s}) \cup {r} /\ UNCHANGED <<hub, queue, entry>>
  BY DEF BeginStart
<1>2. r.e = s.e /\ r.n = s.n /\ r.at = "in"
  BY NewStartsTyped
<1> HIDE DEF r
<1>3. Tasks' = Tasks
  BY <1>1, TypesStay
<1>4. Waiting' = Waiting /\ OnceWaiting'
  BY <1>1 DEF Waiting, StartsApart, OnceWaiting, IsStartOf
<1>5. \A f, k : k \in StartTasks(f)' <=> k \in StartTasks(f)
  <2>1. \A f, k : k \in StartTasks(f)' <=> \/ \E t \in starts' : t.e = f /\ t.n = k
                                           \/ \E t \in Waiting' : IsStartOf(t, f, k)
    BY DEF StartTasks, Waiting, IsStartOf
  <2>2. \A f, k : (\E t \in starts' : t.e = f /\ t.n = k) <=> (\E t \in starts : t.e = f /\ t.n = k)
    BY <1>1, <1>2
  <2> QED
    BY <1>4, <2>1, <2>2, StartTasksIs
<1>6. ASSUME NEW t \in starts'
      PROVE  /\ t.at = "left" <=> entry'[t.e].task # t.n
             /\ \A u \in starts' : t.e = u.e /\ t.n = u.n => t = u
             /\ \A u \in Waiting' : ~ IsStartOf(u, t.e, t.n)
  BY <1>1, <1>2, <1>4 DEF StartsApart
<1>7. \A f : StartTasks(f)' = StartTasks(f)
  BY <1>5
<1>8. /\ \A t \in Waiting' : t.do = "started" => t.n \in Tasks'
      /\ \A e \in Entry :
          /\ entry'[e].task # NoTask => entry'[e].state = "starting"
          /\ entry'[e].task = NoTask => Tasks' \ StartTasks(e)' # {}
  BY <1>1, <1>3, <1>4, <1>7 DEF StartsApart
<1> QED
  BY <1>4, <1>6, <1>8 DEF StartsApart, IsStartOf

\* And one that ends: it goes to wait for the lock.
LEMMA EndStartStarts ==
    ASSUME TypeOK, StartsApart, NEW s \in starts, NEW ok \in BOOLEAN, EndStart(s, ok)
    PROVE  /\ StartsApart'
           /\ \E t \in TaskType : IsStartOf(t, s.e, s.n) /\ t.ok = ok /\ t.all = {}
                                  /\ Waiting' = Waiting \cup {t}
<1> DEFINE t == [Task("started", s.e) EXCEPT !.n = s.n, !.ok = ok]
<1>1. starts' = starts \ {s} /\ queue' = Append(queue, t) /\ UNCHANGED <<hub, entry>>
  BY DEF EndStart
<1>2. s.e \in Entry /\ s.n \in Tasks
  BY NewStartsTyped
<1>3. t \in TaskType /\ IsStartOf(t, s.e, s.n) /\ t.e = s.e /\ t.n = s.n /\ t.ok = ok /\ t.all = {}
  BY <1>2 DEF Task, TaskType, IsStartOf
<1> HIDE DEF t
<1>4. OnceWaiting' /\ Waiting' = Waiting \cup {t}
  BY <1>1, <1>3, OnceWhenAppended DEF StartsApart
<1>5. Tasks' = Tasks
  BY <1>1, TypesStay
<1>6. \A f, k : k \in StartTasks(f)' <=> k \in StartTasks(f)
  <2>1. \A f, k : k \in StartTasks(f)' <=> \/ \E u \in starts' : u.e = f /\ u.n = k
                                           \/ \E u \in Waiting' : IsStartOf(u, f, k)
    BY DEF StartTasks, Waiting, IsStartOf
  <2>2. \A f, k : IsStartOf(t, f, k) <=> f = s.e /\ k = s.n
    BY <1>3 DEF IsStartOf
  <2>3. \A f, k : (\E u \in starts : u.e = f /\ u.n = k) <=>
                     (\E u \in starts' : u.e = f /\ u.n = k) \/ (f = s.e /\ k = s.n)
    BY <1>1
  <2>4. \A f, k : (\E u \in Waiting' : IsStartOf(u, f, k)) <=>
                     (\E u \in Waiting : IsStartOf(u, f, k)) \/ (f = s.e /\ k = s.n)
    BY <1>4, <2>2
  <2>5. \A f, k : k \in StartTasks(f) <=> \/ \E u \in starts : u.e = f /\ u.n = k
                                          \/ \E u \in Waiting : IsStartOf(u, f, k)
    BY StartTasksIs
  <2> QED
    BY <2>1, <2>3, <2>4, <2>5
<1>7. \A f : StartTasks(f)' = StartTasks(f)
  BY <1>6
<1>8. \A u \in starts' : /\ u.at = "left" <=> entry'[u.e].task # u.n
                         /\ \A v \in starts' : u.e = v.e /\ u.n = v.n => u = v
                         /\ \A v \in Waiting' : ~ IsStartOf(v, u.e, u.n)
  BY <1>1, <1>3, <1>4 DEF StartsApart, IsStartOf
<1>9. /\ \A u \in Waiting' : u.do = "started" => u.n \in Tasks'
      /\ \A e \in Entry :
          /\ entry'[e].task # NoTask => entry'[e].state = "starting"
          /\ entry'[e].task = NoTask => Tasks' \ StartTasks(e)' # {}
  BY <1>1, <1>2, <1>3, <1>4, <1>5, <1>7 DEF StartsApart, IsStartOf
<1>10. StartsApart'
  BY <1>4, <1>8, <1>9 DEF StartsApart, IsStartOf
<1> QED
  BY <1>3, <1>4, <1>10

-----------------------------------------------------------------------------
(* Steps that match. *)

\* What Head(work) asks of its entry.
LEMMA HeadMatches ==
    ASSUME TypeOK, WorkInOrder, StartsApart, StepsMatch, work # <<>>
    PROVE  LET e == Head(work).e
           IN  /\ Head(work).do \in {"stopping", "cancelled"} => IsStarted(e) /\ entry[e].task = NoTask
               /\ Head(work).do \in Hooks \cup {"hook", "missed"} => entry[e].state = "running"
               /\ Head(work).do = "failed" => entry[e].state = "waiting"
               /\ e \in Entry /\ (entry[e].task # NoTask => entry[e].state = "starting")
               /\ ~ IsStarted(e) => entry[e].task = NoTask
<1>1. Head(work) \in Todo /\ Head(work).e \in Entry
  BY HeadFits
<1>2. Head(work).do = "failed" => ~ ToStop(Head(work).e)
  BY HeadNotStopping DEF ToStop, Stops
<1> QED
  BY <1>1, <1>2 DEF StepsMatch, StartsApart, IsStarted, Started

\* Every step of the holder leaves the starts apart.
LEMMA HolderStarts ==
    ASSUME TypeOK, WorkInOrder, StartsApart, StepsMatch, Holder
    PROVE  StartsApart'
<1>1. \A e \in Entry : entry[e].task # NoTask => entry[e].state = "starting"
  BY DEF StartsApart
<1>2. CASE SettleChange
  <2>1. UNCHANGED <<hub, starts>> /\ QueueRefresh(Present)
    BY <1>2 DEF SettleChange
  <2>2. Asking(Refresh)
    BY <2>1, ThereAre, RefreshAsks
  <2> QED
    BY <2>1, <2>2, AskingStartsApart
<1>3. CASE Closed
  <2>1. UNCHANGED <<hub, entry>> /\ starts' \subseteq starts
        /\ queue' = Kept(queue, {t \in ToSet(queue) : t.do \in {"boot", "close"}})
    BY <1>3 DEF Closed
  <2>2. OnceWaiting' /\ \A t \in Waiting' : t \in Waiting
    BY <2>1, OnceWhenKept, KeptWaits DEF StartsApart
  <2> QED
    BY <1>1, <2>1, <2>2, StartsStayApart
<1>4. CASE \/ Revive \/ TellOrNote \/ TellMissed \/ TakeTold \/ NoChange \/ StopDisabled
           \/ StopUsers \/ DropUnwanted \/ BeginDeliver \/ Deliver
  <2>1. Marking /\ UNCHANGED <<hub, starts, queue>>
    BY <1>4, MarksDo
  <2> QED
    BY <1>1, <2>1, StartsUntouched DEF Marking
<1>5. ASSUME NEW e, NEW x, Becomes(e, x), x.task = entry[e].task,
             x.task = NoTask, UNCHANGED <<hub, starts, queue>>
      PROVE  StartsApart'
  <2>1. \A f \in Entry : entry'[f] = IF f = e THEN x ELSE entry[f]
    BY <1>5 DEF Becomes
  <2> QED
    BY <1>1, <1>5, <2>1, StartsUntouched
<1>6. CASE LetStart
  <2>1. UNCHANGED <<hub, starts, queue>>
    BY <1>6 DEF LetStart
  <2>2. PICK x : /\ Becomes(Head(work).e, x) /\ x.task = entry[Head(work).e].task
                 /\ entry[Head(work).e].state \notin Started
    BY <1>6, LetStartDoes
  <2>3. entry[Head(work).e].task = NoTask
    BY <1>1, <2>2 DEF Becomes, Started
  <2> QED
    BY <1>5, <2>1, <2>2, <2>3
<1>7. CASE CountFailure
  <2>1. UNCHANGED <<hub, starts, queue>> /\ work # <<>>
    BY <1>7 DEF CountFailure, HeadIs
  <2>2. PICK x : /\ Becomes(Head(work).e, x) /\ x.task = entry[Head(work).e].task
                 /\ Head(work).do = "failed"
    BY <1>7, CountFailureDoes
  <2>3. entry[Head(work).e].task = NoTask
    BY <1>1, <2>1, <2>2, HeadMatches DEF Becomes
  <2> QED
    BY <1>5, <2>1, <2>2, <2>3
<1>8. CASE EndStop
  <2>1. UNCHANGED <<hub, starts, queue>>
    BY <1>8 DEF EndStop
  <2>2. PICK x : /\ Becomes(Head(work).e, x) /\ x.task = entry[Head(work).e].task
                 /\ work # <<>>
                 /\ Head(work).do = "stopping" \/ ~ IsStarted(Head(work).e)
    BY <1>8, EndStopDoes
  <2>3. entry[Head(work).e].task = NoTask
    BY <2>2, HeadMatches
  <2> QED
    BY <1>5, <2>1, <2>2, <2>3
<1>9. CASE CallStop
  <2>1. Marking /\ UNCHANGED <<hub, starts, queue>>
    BY <1>9, CallStopDoes DEF CallStop
  <2> QED
    BY <1>1, <2>1, StartsUntouched DEF Marking
<1>10. CASE BeginHook \/ EndHook
  <2>1. UNCHANGED <<hub, starts, queue, entry>>
    BY <1>10 DEF BeginHook, EndHook
  <2> QED
    BY <1>1, <2>1, StartsUntouched
<1>11. CASE BeginPass
  <2>1. Collects /\ UNCHANGED <<hub, starts, queue>>
    BY <1>11, PassCollects DEF BeginPass
  <2> QED
    BY <2>1, CollectStartsApart
<1> QED
  BY <1>2, <1>3, <1>4, <1>6, <1>7, <1>8, <1>9, <1>10, <1>11, AcquireStarts, CancelStartStarts,
     EndPassStarts DEF Holder

\* Steps go on matching when the entries they are about stay as they are, and new steps match.
LEMMA StepsStayMatched ==
    ASSUME TypeOK, WorkInOrder, StepsMatch, work # <<>>,
           \A x \in Todo' :
              \/ /\ x \in Rest
                 /\ entry'[x.e].state = entry[x.e].state /\ entry'[x.e].task = entry[x.e].task
                 /\ x.do = "failed" /\ IsStarted(x.e) =>
                        \/ \E y \in Todo' : y.do \in Stops /\ y.e = x.e
                        \/ Head(work).e # x.e /\ Rest \subseteq Todo'
              \/ /\ x.do \in {"stopping", "cancelled"} => entry'[x.e].state \in Started /\ entry'[x.e].task = NoTask
                 /\ x.do \in Hooks \cup {"hook", "missed"} => entry'[x.e].state = "running"
                 /\ x.do = "failed" => \/ /\ entry'[x.e].state \in Started
                                          /\ \E y \in Todo' : y.do \in Stops /\ y.e = x.e
                                       \/ entry'[x.e].state = "waiting"
    PROVE  StepsMatch'
<1> SUFFICES ASSUME NEW x \in Todo'
             PROVE  /\ x.do \in {"stopping", "cancelled"} => entry'[x.e].state \in Started /\ entry'[x.e].task = NoTask
                    /\ x.do \in Hooks \cup {"hook", "missed"} => entry'[x.e].state = "running"
                    /\ x.do = "failed" => \/ /\ entry'[x.e].state \in Started
                                             /\ \E y \in Todo' : y.do \in Stops /\ y.e = x.e
                                          \/ entry'[x.e].state = "waiting"
  BY DEF StepsMatch, IsStarted, ToStop
<1>1. CASE /\ x \in Rest
           /\ entry'[x.e].state = entry[x.e].state /\ entry'[x.e].task = entry[x.e].task
           /\ x.do = "failed" /\ IsStarted(x.e) =>
                        \/ \E y \in Todo' : y.do \in Stops /\ y.e = x.e
                        \/ Head(work).e # x.e /\ Rest \subseteq Todo'
  <2>1. x \in Todo /\ Todo = {Head(work)} \cup Rest
    BY <1>1, HeadFits
  <2>2. x.do = "failed" /\ IsStarted(x.e) /\ ToStop(x.e) =>
            \E y \in Todo' : y.do \in Stops /\ y.e = x.e
    BY <1>1, <2>1 DEF ToStop
  <2> QED
    BY <1>1, <2>1, <2>2 DEF StepsMatch, IsStarted
<1> QED
  BY <1>1

\* ... or when nothing is done.
LEMMA StepsUntouched ==
    ASSUME TypeOK, StepsMatch, work' = work,
           \A x \in Todo : entry'[x.e].state = entry[x.e].state /\ entry'[x.e].task = entry[x.e].task
    PROVE  StepsMatch'
<1>1. Todo' = Todo
  BY DEF Todo
<1> QED
  BY <1>1 DEF StepsMatch, IsStarted, ToStop

\* The steps to be made are steps.
LEMMA TodoTyped ==
    ASSUME TypeOK
    PROVE  \A x \in Todo : x \in StepType /\ x.e \in Entry
<1>1. work \in Seq(StepType)
  BY DEF TypeOK
<1>2. \A i \in DOMAIN work : work[i] \in StepType
  BY <1>1
<1> QED
  BY <1>2 DEF Todo, ToSet, StepType

\* Collecting leaves alone every entry a step is about.
LEMMA CollectKeepsSteps ==
    ASSUME TypeOK, Collects
    PROVE  \A x \in Todo : entry'[x.e] = entry[x.e]
<1> SUFFICES ASSUME NEW x \in Todo PROVE entry'[x.e] = entry[x.e]
  OBVIOUS
<1>1. x.e \in Entry
  BY TodoTyped
<1>2. IsReferred(x.e)
  BY <1>1, UnreferredStarts
<1> QED
  BY <1>1, <1>2, CollectsDo

\* Steps that ask nothing of their entries.
Free(x) == x.do \notin {"stopping", "cancelled", "hook", "missed", "failed"} \cup Hooks

\* Steps that match any state match.
LEMMA FreeSteps ==
    ASSUME \A x \in Todo' : Free(x)
    PROVE  StepsMatch'
BY DEF Free, StepsMatch

\* Which ones do.
LEMMA FreeNames ==
    /\ \A e \in Entry : Free(Stop(e)) /\ Free(StopTo(e, "disabled"))
    /\ \A e \in Entry : \A do \in {"revive", "platform", "enable", "settings", "fail", "quit", "deliver"} :
          Free(Step(do, e))
    /\ Free(Pass) /\ Free(Settle)
    /\ Free(Step("drop", NoEntry)) /\ Free(Step("moves", NoEntry))
    /\ Free(Step("start", NoEntry)) /\ Free(Step("closed", NoEntry))
BY DEF Free, Step, Stop, StopTo, Pass, Settle, Hooks

\* The steps a task is made of do.
LEMMA StepsOfFree ==
    ASSUME TypeOK, NEW t \in TaskType, t.do # "started"
    PROVE  \A y \in ToSet(StepsOf(t)) : Free(y)
<1>0. t.e \in Entry
  BY DEF TaskType
<1>1. ToSet(StepsOf(t)) =
                CASE t.do \in {"boot", "refresh"} -> {Pass}
                  [] t.do = "close" -> {Stop(e) : e \in {f \in CurrentEntries : IsStarted(f)}}
                                       \cup {Step("closed", NoEntry)}
                  [] t.do = "disable" -> {StopTo(t.e, "disabled"), Settle}
                  [] t.do = "restart" -> {Stop(t.e), Step("revive", t.e), Settle}
                  [] t.do = "platform" -> {Step("platform", e) : e \in t.all} \cup {Settle}
                  [] OTHER -> {Step(t.do, t.e), Settle}
  BY StepsOfFit
<1>2. /\ t.do \in {"boot", "refresh", "close", "enable", "disable", "restart", "settings",
                   "platform", "fail", "quit"}
      /\ t.all \subseteq Entry /\ CurrentEntries \subseteq Entry
  BY CurrentTyped DEF TaskType
<1>3. CASE t.do \in {"boot", "refresh"}
  BY <1>1, <1>3, FreeNames
<1>4. CASE t.do = "close"
  BY <1>1, <1>2, <1>4, FreeNames
<1>5. CASE t.do = "disable"
  BY <1>0, <1>1, <1>5, FreeNames
<1>6. CASE t.do = "restart"
  BY <1>0, <1>1, <1>6, FreeNames
<1>7. CASE t.do = "platform"
  BY <1>1, <1>2, <1>7, FreeNames
<1>8. CASE t.do \in {"enable", "settings", "fail", "quit"}
  BY <1>0, <1>1, <1>8, FreeNames
<1> QED
  BY <1>2, <1>3, <1>4, <1>5, <1>6, <1>7, <1>8

\* The first steps of a task match the state their entry is in.
LEMMA AcquireMatches ==
    ASSUME TypeOK, WorkInOrder, StartsApart, Acquire
    PROVE  StepsMatch'
<1>0. PICK t : t = Head(queue)
  OBVIOUS
<1> DEFINE x == Ended(entry[t.e], t.ok)
<1>1. /\ t \in TaskType /\ t.e \in Entry /\ t \in Waiting
      /\ \/ Todo' = {}
         \/ /\ t.do = "started" /\ IsItsStart(t) /\ Becomes(t.e, x)
            /\ Todo' = IF x.state = "running" THEN {Step("missed", t.e), Settle}
                       ELSE IF x.stoppedWith.stopped THEN {Stop(t.e), Settle}
                       ELSE {Stop(t.e), Step("failed", t.e), Settle}
         \/ t.do # "started" /\ Todo' = ToSet(StepsOf(t))
  BY <1>0, AcquireTakes
<1>2. CASE Todo' = {}
  BY <1>2, FreeSteps
<1>3. CASE /\ t.do = "started" /\ IsItsStart(t) /\ Becomes(t.e, x)
           /\ Todo' = IF x.state = "running" THEN {Step("missed", t.e), Settle}
                       ELSE IF x.stoppedWith.stopped THEN {Stop(t.e), Settle}
                       ELSE {Stop(t.e), Step("failed", t.e), Settle}
  <2>1. x.state = "running" \/ x.state = entry[t.e].state
    BY <1>1, EndedTyped DEF TaskType
  <2>2. entry[t.e].state = "starting"
    <3>1. entry[t.e].task \in Tasks
      BY <1>1, <1>3 DEF StartsApart, IsItsStart
    <3> QED
      BY <1>1, <3>1 DEF StartsApart, Tasks, NoTask
  <2>3. entry'[t.e].state = x.state
    BY <1>3 DEF Becomes
  <2> HIDE DEF x
  <2>4. CASE x.state = "running"
    <3>1. Todo' = {Step("missed", t.e), Settle} /\ Step("missed", t.e).e = t.e
      BY <1>1, <1>3, <2>4, StepTyped DEF DoNames
    <3>2. \A y \in Todo' : Free(y) \/ (y.do = "missed" /\ entry'[y.e].state = "running")
      BY <1>1, <2>3, <2>4, <3>1, FreeNames, StepTyped DEF DoNames
    <3> QED
      BY <3>2 DEF StepsMatch, Free, Hooks
  <2>5. CASE x.state # "running" /\ x.stoppedWith.stopped
    <3>1. Todo' = {Stop(t.e), Settle}
      BY <1>3, <2>5
    <3> QED
      BY <1>1, <3>1, FreeNames, FreeSteps
  <2>6. CASE x.state # "running" /\ ~ x.stoppedWith.stopped
    <3>1. Todo' = {Stop(t.e), Step("failed", t.e), Settle} /\ entry'[t.e].state \in Started
      BY <1>3, <2>1, <2>2, <2>3, <2>6 DEF Started
    <3>2. /\ Stop(t.e).do \in Stops /\ Stop(t.e).e = t.e /\ Step("failed", t.e).e = t.e
          /\ Step("failed", t.e).do = "failed"
      BY <1>1, StepTyped DEF DoNames, Stops
    <3>3. \A y \in Todo' : \/ Free(y)
                           \/ /\ y.do = "failed" /\ entry'[y.e].state \in Started
                              /\ \E z \in Todo' : z.do \in Stops /\ z.e = y.e
      BY <1>1, <3>1, <3>2, FreeNames
    <3> QED
      BY <3>3 DEF StepsMatch, Free, Hooks, ToStop, IsStarted
  <2> QED
    BY <2>4, <2>5, <2>6
<1>4. CASE t.do # "started" /\ Todo' = ToSet(StepsOf(t))
  BY <1>1, <1>4, StepsOfFree, FreeSteps
<1> QED
  BY <1>1, <1>2, <1>3, <1>4

\* The steps still match after a step of a stop.
LEMMA StopsMatch ==
    ASSUME TypeOK, WorkInOrder, StartsApart, StepsMatch,
           StopUsers \/ CancelStart \/ CallStop \/ EndStop \/ StopDisabled
    PROVE  StepsMatch'
<1>0. PICK e : e = Head(work).e
  OBVIOUS
<1>1. /\ work # <<>> /\ Head(work).do \in Stops
  BY DEF StopUsers, CancelStart, CallStop, EndStop, StopDisabled, HeadIs, StopsEntry, Stops
<1>2. /\ Todo = {Head(work)} \cup Rest /\ e \in Entry
      /\ \A x \in Rest : x.do \notin {"stopping", "cancelled", "hook", "missed"} \cup Hooks
      /\ Head(work).to = "disabled" => \A x \in Rest : x.do = "settle"
      /\ Head(work).to \in {"waiting", "disabled"}
  BY <1>0, <1>1, HeadFits, HeadTyped DEF Ongoing, Stops, Hooks
<1>3. \A x \in Todo : x \in StepType /\ x.e \in Entry
  BY TodoTyped
<1>4. \A x \in Rest : x.do = "failed" => (IsStarted(x.e) /\ ToStop(x.e)) \/ entry[x.e].state = "waiting"
  BY <1>2 DEF StepsMatch
<1>5. \A x \in Rest : x.do = "failed" /\ IsStarted(x.e) /\ x.e # e =>
          \E y \in Rest : y.do \in Stops /\ y.e = x.e
  BY <1>0, <1>2, <1>4 DEF ToStop, IsStarted, Started
<1>6. CASE StopUsers
  <2>1. /\ InsideUsers(e) \subseteq Entry /\ Todo' = {Stop(u) : u \in InsideUsers(e)} \cup Todo
        /\ Head(work).do = "stop"
    BY <1>0, <1>6, StopUsersWork
  <2>2. UNCHANGED entry
    BY <1>6 DEF StopUsers
  <2>3. \A x \in Todo' : x \in Rest \/ Free(x)
    BY <1>2, <2>1, FreeNames DEF Free, Hooks
  <2> QED
    BY <1>1, <1>2, <1>4, <2>1, <2>2, <2>3 DEF StepsMatch, Free, ToStop, IsStarted
<1>7. ASSUME NEW do \in {"cancelled", "stopping"},
             Todo' = {[Head(work) EXCEPT !.do = do]} \cup Rest,
             \A f \in Entry : entry'[f].state = entry[f].state,
             entry'[e].task = NoTask, IsStarted(e)
      PROVE  StepsMatch'
  <2> DEFINE h == [Head(work) EXCEPT !.do = do]
  <2>1. h.do = do /\ h.e = e
    BY <1>0, <1>1, HeadFits DEF StepType
  <2>2. h \in Todo' /\ Todo' = {h} \cup Rest /\ h.do \in Stops
    BY <1>7, <2>1 DEF Stops
  <2> HIDE DEF h
  <2>3. ASSUME NEW x \in Rest, x.do = "failed"
        PROVE  \/ entry'[x.e].state \in Started /\ \E y \in Todo' : y.do \in Stops /\ y.e = x.e
               \/ entry'[x.e].state = "waiting"
    <3>1. x.e \in Entry
      BY <1>2, <1>3
    <3>2. CASE x.e = e
      BY <1>2, <1>7, <2>1, <2>2, <3>2 DEF IsStarted
    <3>3. CASE x.e # e
      BY <1>4, <1>5, <1>7, <2>2, <2>3, <3>1, <3>3 DEF IsStarted
    <3> QED
      BY <3>2, <3>3
  <2>4. \A x \in Todo' : x \in Rest \/ x = h
    BY <2>2
  <2>5. entry'[e].state \in Started
    BY <1>2, <1>7 DEF IsStarted
  <2> QED
    BY <1>2, <1>7, <2>1, <2>3, <2>4, <2>5 DEF StepsMatch, ToStop, IsStarted, Hooks
<1>8. CASE CancelStart
  <2>1. PICK x : /\ Becomes(e, x) /\ x.state = entry[e].state /\ x.task = NoTask
                 /\ entry[e].task # NoTask
                 /\ Todo' = {[Head(work) EXCEPT !.do = "cancelled"]} \cup Rest
    BY <1>0, <1>8, CancelStartDoes
  <2>2. IsStarted(e)
    BY <1>2, <2>1 DEF StartsApart, IsStarted, Started
  <2>3. /\ \A f \in Entry : entry'[f].state = entry[f].state
        /\ entry'[e].task = NoTask
    BY <1>2, <2>1 DEF Becomes
  <2> QED
    BY <1>7, <2>1, <2>2, <2>3
<1>9. CASE CallStop
  <2>1. /\ Marking /\ Todo' = {[Head(work) EXCEPT !.do = "stopping"]} \cup Rest
        /\ \/ Head(work).do = "cancelled"
           \/ IsStarted(e) /\ entry[e].task = NoTask
    BY <1>0, <1>9, CallStopDoes
  <2>2. IsStarted(e) /\ entry[e].task = NoTask
    BY <1>0, <1>1, <2>1, HeadMatches
  <2> QED
    BY <1>2, <1>7, <2>1, <2>2 DEF Marking
<1>10. CASE EndStop
  <2>1. PICK x : /\ Becomes(e, x) /\ x.state = Head(work).to
    BY <1>0, <1>10, EndStopDoes
  <2>2. Todo' = Rest
    BY <1>10, DoneWork
  <2>3. ASSUME NEW y \in Rest, y.do = "failed"
        PROVE  \/ entry'[y.e].state \in Started /\ \E z \in Todo' : z.do \in Stops /\ z.e = y.e
               \/ entry'[y.e].state = "waiting"
    <3>1. y.e \in Entry
      BY <1>2, <1>3
    <3>2. CASE y.e = e
      <4>1. Head(work).to = "waiting"
        BY <1>2, <2>3
      <4> QED
        BY <1>2, <2>1, <3>2, <4>1 DEF Becomes
    <3>3. CASE y.e # e
      <4>1. entry'[y.e] = entry[y.e]
        BY <2>1, <3>1, <3>3 DEF Becomes
      <4> QED
        BY <1>4, <1>5, <2>2, <2>3, <3>3, <4>1 DEF IsStarted
    <3> QED
      BY <3>2, <3>3
  <2> QED
    BY <1>2, <2>2, <2>3 DEF StepsMatch, ToStop, IsStarted, Hooks
<1>11. CASE StopDisabled
  <2>1. Todo' = Rest
    BY <1>11, DoneWork
  <2>2. UNCHANGED entry /\ entry[e].state = "disabled"
    BY <1>0, <1>11 DEF StopDisabled, StopsEntry
  <2>3. \A x \in Rest : x.do = "failed" /\ IsStarted(x.e) => x.e # e
    BY <2>2 DEF IsStarted, Started
  <2> QED
    BY <1>2, <1>4, <1>5, <2>1, <2>2, <2>3 DEF StepsMatch, ToStop, IsStarted, Hooks
<1> QED
  BY <1>6, <1>8, <1>9, <1>10, <1>11

\* What the changes and the hooks leave of the work matches, too.
LEMMA StepsMarked ==
    ASSUME TypeOK, WorkInOrder, StepsMatch, work # <<>>, Head(work).do \notin Stops,
           \A e \in Entry : entry'[e].state = entry[e].state /\ entry'[e].task = entry[e].task,
           \A x \in Todo' :
              \/ x \in Rest
              \/ Free(x)
              \/ /\ x.do \in Hooks \cup {"hook"}
                 /\ x.e \in Entry /\ entry[x.e].state = "running"
              \/ /\ x.do = "failed" /\ x.e \in Entry /\ IsStarted(x.e)
                 /\ \E y \in Todo' : y.do \in Stops /\ y.e = x.e
    PROVE  StepsMatch'
<1>1. \A x \in Rest : x \in Todo /\ x.e \in Entry /\ x.do # "failed"
  <2>1. Todo = {Head(work)} \cup Rest /\ \A x \in Rest : x.do # "failed"
    BY HeadFits
  <2> QED
    BY <2>1, TodoTyped
<1>2. \A x \in Rest :
         /\ x.do \in {"stopping", "cancelled"} =>
               entry'[x.e].state \in Started /\ entry'[x.e].task = NoTask
         /\ x.do \in Hooks \cup {"hook", "missed"} => entry'[x.e].state = "running"
  BY <1>1 DEF StepsMatch, IsStarted
<1>3. \A x \in Todo' :
         x.do = "failed" => /\ entry'[x.e].state \in Started
                            /\ \E y \in Todo' : y.do \in Stops /\ y.e = x.e
  BY <1>1 DEF Free, Hooks, IsStarted
<1>4. \A x \in Todo' :
         /\ x.do \in {"stopping", "cancelled"} =>
               entry'[x.e].state \in Started /\ entry'[x.e].task = NoTask
         /\ x.do \in Hooks \cup {"hook", "missed"} => entry'[x.e].state = "running"
  BY <1>2 DEF Free, Hooks
<1> QED
  BY <1>3, <1>4 DEF StepsMatch, IsStarted, ToStop

\* A hook to be called is named as such.
LEMMA HookNamed ==
    \A e \in Entry : \A do \in Hooks : Step(do, e).do = do /\ Step(do, e).e = e
BY StepTyped DEF DoNames, Hooks

\* After a change.
LEMMA ChangesMatch ==
    ASSUME TypeOK, WorkInOrder, StartsApart, StepsMatch,
           Revive \/ TellOrNote \/ TellMissed \/ TakeTold \/ NoChange \/ Deliver
    PROVE  StepsMatch'
<1>0. PICK e : e = Head(work).e
  OBVIOUS
<1>1. /\ work # <<>>
      /\ Head(work).do \in {"revive", "settings", "platform", "missed", "fail", "quit", "enable", "deliver"}
  BY DEF Revive, TellOrNote, TellMissed, TakeTold, NoChange, Deliver, HeadIs
<1>2. /\ e \in Entry /\ Head(work).do \notin Stops
      /\ \A f \in Entry : entry'[f].state = entry[f].state /\ entry'[f].task = entry[f].task
  BY <1>0, <1>1, HeadFits, MarksDo DEF Stops, Marking
<1>3. CASE Revive \/ NoChange
  <2>1. Todo' = Rest
    BY <1>3, DoneWork
  <2> QED
    BY <1>1, <1>2, <2>1, StepsMarked
<1>4. CASE TellOrNote
  <2>1. \/ /\ entry[e].state = "running"
           /\ \E do \in Hooks : Todo' = {Step(do, e)} \cup Rest
        \/ Todo' = Rest
    BY <1>0, <1>4, TellOrNoteWork DEF Hooks
  <2>2. \A do \in Hooks : Step(do, e).do = do /\ Step(do, e).e = e
    BY <1>2, HookNamed
  <2> QED
    BY <1>1, <1>2, <2>1, <2>2, StepsMarked
<1>5. CASE TellMissed
  <2>1. \A x \in Todo' : x \in Rest \/ \E do \in Hooks : x = Step(do, e)
    BY <1>0, <1>5, TellMissedWork DEF Hooks
  <2>2. \A do \in Hooks : Step(do, e).do = do /\ Step(do, e).e = e
    BY <1>2, HookNamed
  <2>3. entry[e].state = "running"
    BY <1>0, <1>1, <1>5, TellMissedWork, HeadMatches
  <2> QED
    BY <1>1, <1>2, <2>1, <2>2, <2>3, StepsMarked
<1>6. CASE TakeTold
  <2>1. /\ entry[e].state = "running"
        /\ \/ Todo' = {Stop(e), Step("failed", e)} \cup Rest
           \/ Todo' = {Stop(e)} \cup Rest
    BY <1>0, <1>6, TakeToldWork
  <2>2. /\ Free(Stop(e)) /\ Stop(e).do \in Stops /\ Stop(e).e = e
        /\ Step("failed", e).do = "failed" /\ Step("failed", e).e = e
    BY <1>2, StepTyped, FreeNames DEF DoNames, Stops
  <2>3. IsStarted(e)
    BY <2>1 DEF IsStarted, Started
  <2>4. \A x \in Todo' :
              \/ x \in Rest
              \/ Free(x)
              \/ /\ x.do = "failed" /\ x.e \in Entry /\ IsStarted(x.e)
                 /\ \E y \in Todo' : y.do \in Stops /\ y.e = x.e
    BY <1>2, <2>1, <2>2, <2>3
  <2> QED
    BY <1>1, <1>2, <2>4, StepsMarked
<1>7. CASE Deliver
  <2>1. /\ \A x \in Todo' : x \in Rest \/ x = Step("tell_need", e)
        /\ Todo' # Rest => entry[e].state = "running"
    BY <1>0, <1>7, DeliverWork
  <2>2. Step("tell_need", e).do \in Hooks /\ Step("tell_need", e).e = e
    BY <1>2, StepTyped DEF DoNames, Hooks
  <2>3. \A x \in Todo' :
              \/ x \in Rest
              \/ /\ x.do \in Hooks \cup {"hook"}
                 /\ x.e \in Entry /\ entry[x.e].state = "running"
    BY <1>2, <2>1, <2>2
  <2> QED
    BY <1>1, <1>2, <2>3, StepsMarked
<1> QED
  BY <1>3, <1>4, <1>5, <1>6, <1>7

\* After a hook's begin and its end.
LEMMA HooksMatch ==
    ASSUME TypeOK, WorkInOrder, StartsApart, StepsMatch, BeginHook \/ EndHook
    PROVE  StepsMatch'
<1>0. PICK e : e = Head(work).e
  OBVIOUS
<1>1. /\ work # <<>> /\ Head(work).do \in Hooks \cup {"hook"} /\ UNCHANGED entry
  BY DEF BeginHook, EndHook, HeadIs
<1>2. e \in Entry /\ entry[e].state = "running" /\ Head(work).do \notin Stops
  BY <1>0, <1>1, HeadMatches DEF Stops, Hooks
<1>3. CASE BeginHook
  <2>1. Todo' = {Step("hook", e)} \cup Rest /\ Step("hook", e).do = "hook" /\ Step("hook", e).e = e
    BY <1>0, <1>2, <1>3, BeginHookWork, StepTyped DEF DoNames
  <2> QED
    BY <1>1, <1>2, <2>1, StepsMarked
<1>4. CASE EndHook
  <2>1. PICK past \in SUBSET Rest :
              \/ Todo' = Rest
              \/ Todo' = {Stop(e)} \cup past
              \/ Todo' = {Stop(e), Step("failed", e)} \cup past
    BY <1>0, <1>4, EndHookWork
  <2>2. /\ Free(Stop(e)) /\ Stop(e).do \in Stops /\ Stop(e).e = e
        /\ Step("failed", e).do = "failed" /\ Step("failed", e).e = e
    BY <1>2, StepTyped, FreeNames DEF DoNames, Stops
  <2>3. IsStarted(e)
    BY <1>2 DEF IsStarted, Started
  <2>4. \A x \in Todo' :
              \/ x \in Rest
              \/ Free(x)
              \/ /\ x.do = "failed" /\ x.e \in Entry /\ IsStarted(x.e)
                 /\ \E y \in Todo' : y.do \in Stops /\ y.e = x.e
    BY <1>2, <2>1, <2>2, <2>3
  <2> QED
    BY <1>1, <1>2, <2>4, StepsMarked
<1> QED
  BY <1>3, <1>4

\* After the steps of a pass.
LEMMA PassesMatch ==
    ASSUME TypeOK, WorkInOrder, BeginPass \/ DropUnwanted \/ BeginDeliver \/ EndPass \/ SettleChange \/ Closed
    PROVE  StepsMatch'
<1>1. CASE BeginPass
  <2>1. Todo' = {Stop(e) : e \in Gone} \cup {Step("drop", NoEntry)} /\ Gone \subseteq Entry
    BY <1>1, BeginPassWork
  <2>2. \A x \in Todo' : Free(x)
    BY <2>1, FreeNames
  <2> QED
    BY <2>2, FreeSteps
<1>2. CASE DropUnwanted
  <2>1. \E S \in SUBSET Entry : Todo' = {Stop(e) : e \in S} \cup {Step("moves", NoEntry)}
    BY <1>2, DropUnwantedWork
  <2>2. \A x \in Todo' : Free(x)
    BY <2>1, FreeNames
  <2> QED
    BY <2>2, FreeSteps
<1>3. CASE BeginDeliver
  <2>1. /\ Todo' = {Step("deliver", e) : e \in CurrentEntries} \cup {Step("start", NoEntry)}
        /\ CurrentEntries \subseteq Entry
    BY <1>3, BeginDeliverWork
  <2>2. \A x \in Todo' : Free(x)
    BY <2>1, FreeNames
  <2> QED
    BY <2>2, FreeSteps
<1>4. CASE EndPass
  <2>1. Todo' \subseteq {Pass}
    BY <1>4, EndPassWork
  <2> QED
    BY <2>1, FreeNames, FreeSteps
<1>5. CASE SettleChange \/ Closed
  <2>1. Todo' = {}
    BY <1>5, FreeWork
  <2> QED
    BY <2>1, FreeSteps
<1> QED
  BY <1>1, <1>2, <1>3, <1>4, <1>5

\* After a change of state.
LEMMA StatesMatch ==
    ASSUME TypeOK, WorkInOrder, StartsApart, StepsMatch, LetStart \/ CountFailure
    PROVE  StepsMatch'
<1>0. PICK e : e = Head(work).e
  OBVIOUS
<1>1. PICK x : /\ Becomes(e, x) /\ work # <<>>
               /\ \/ entry[e].state \notin Started /\ Head(work).do \in {"enable", "settings"}
                  \/ Head(work).do = "failed"
  BY <1>0, LetStartDoes, CountFailureDoes, DoneWork
<1>2. Todo' = Rest
  BY DoneWork
<1>3. Head(work).do \notin Stops \cup Hooks \cup {"hook"}
  BY <1>1 DEF Stops, Hooks
<1>4. \A y \in Rest : y.do \notin Ongoing \cup {"missed", "failed"} \cup Stops \cup Hooks
  BY <1>1, <1>3, HeadFits
<1> QED
  BY <1>2, <1>4, FreeSteps DEF Free, Ongoing

-----------------------------------------------------------------------------
(* The first layer holds. *)

\* The first layer.
Steady == TypeOK /\ WorkInOrder /\ StartsApart /\ StepsMatch

\* It holds at first.
LEMMA SteadyAtFirst ==
    ASSUME Init
    PROVE  Steady
<1>1. hub \in Hubs /\ hub.home \in World /\ hub.given \subseteq Peripherals /\ hub.tasks \in Nat \ {0}
  BY HubsAssumption DEF Init
<1>2. hub.home.offers \subseteq Endpoints
  BY <1>1 DEF World
<1>3. 1 \in Lives /\ 0 \in 0..NumPasses /\ 1 \in Tasks /\ NoEntry \in Entry
  <2>1. 1 \in Lives /\ 0 \in 0..NumPasses /\ 1 \in Tasks
    BY <1>1, BoundsAssumption DEF Lives, Tasks
  <2>2. 1 \in Peripherals
    BY BoundsAssumption, NumAssumption DEF Peripherals
  <2> QED
    BY <2>1, <2>2 DEF NoEntry, Entry
<1>4. /\ DOMAIN entry = Entry
      /\ \A e \in Entry : /\ entry[e] \in EntryType(e[1])
                          /\ entry[e].state = "waiting" /\ entry[e].task = NoTask
  <2>1. \A e \in Entry : entry[e] = NewEntry(e[1], "waiting") /\ e[1] \in Peripherals
    BY DEF Init, Entry
  <2>2. "waiting" \in State
    BY DEF State
  <2>3. \A p \in Peripherals : /\ NewEntry(p, "waiting") \in EntryType(p)
                               /\ NewEntry(p, "waiting").state = "waiting"
                               /\ NewEntry(p, "waiting").task = NoTask
    BY <1>1, <2>2, NewTyped
  <2> QED
    BY <2>1, <2>3 DEF Init
<1>5. LivesTyped
  BY <1>1, <1>3, <1>4 DEF LivesTyped, Init
<1>6. WorldTyped
  <2>1. object \in [Peripherals -> ObjectType]
    BY DEF Init, ObjectType, Calls!Call
  <2>2. settings \in [Peripherals -> 0..1] /\ platform \in 0..1
    BY DEF Init
  <2>3. plugged \subseteq Children /\ offers \subseteq Endpoints /\ given \subseteq Peripherals
    BY <1>1, <1>2 DEF Init
  <2>4. store = {} /\ gaveUp = {} /\ timer = {} /\ running = FALSE
    BY DEF Init
  <2> QED
    BY <2>1, <2>2, <2>3, <2>4 DEF WorldTyped
<1>7. HeldTyped
  <2>1. \A p \in Peripherals : Unlinked(p) \in LinksOf(p)
    BY <1>1, NewTyped DEF State
  <2>2. bound.wanted \subseteq Peripherals /\ \A p \in Peripherals : bound.links[p] \in LinksOf(p)
    BY <2>1 DEF Init
  <2>3. round \in RoundType
    BY <1>3 DEF RoundType, Init
  <2> QED
    BY <2>2, <2>3 DEF HeldTyped, Init
<1>8. TypeOK
  BY <1>5, <1>6, <1>7, TypeIs DEF Init
<1>9. Todo = {} /\ Waiting = {}
  BY DEF Init, Todo, Waiting, ToSet
<1>10. WorkInOrder
  BY OrderlyFew DEF WorkInOrder, Init
<1>11. StartsApart
  <2>1. \A e \in Entry : StartTasks(e) = {}
    BY <1>9, StartTasksIs DEF Init
  <2>2. OnceWaiting
    BY DEF OnceWaiting, Init
  <2> QED
    BY <1>3, <1>4, <1>9, <2>1, <2>2 DEF StartsApart, Init
<1> QED
  BY <1>8, <1>9, <1>10, <1>11 DEF Steady, StepsMatch

\* What changes while the holder awaits, or nobody holds the lock.
LEMMA OthersMatch ==
    ASSUME Steady, Called \/ Boot \/ Retry \/ Begins \/ Ends
    PROVE  WorkInOrder' /\ StepsMatch'
<1>1. \A x \in Todo : x \in StepType /\ x.e \in Entry
  BY TodoTyped DEF Steady
<1>2. CASE Called \/ Boot \/ Retry
  <2>1. work' = work /\ ((\E t : Asking(t)) \/ Noting)
    BY <1>2, CallsDo DEF Steady
  <2>2. \A x \in Todo : entry'[x.e].state = entry[x.e].state /\ entry'[x.e].task = entry[x.e].task
    BY <1>1, <2>1, CollectKeepsSteps DEF Asking, Noting, Steady
  <2> QED
    BY <2>1, <2>2, StepsUntouched DEF Steady, WorkInOrder
<1>3. CASE Begins \/ Ends
  <2>1. UNCHANGED <<work, entry>>
    BY <1>3 DEF Begins, Ends, BeginStart, EndStart
  <2> QED
    BY <2>1, StepsUntouched DEF Steady, WorkInOrder
<1> QED
  BY <1>2, <1>3

\* The calls from outside leave the starts apart.
LEMMA CallsStarts ==
    ASSUME Steady, Called \/ Boot \/ Retry
    PROVE  StartsApart'
<1>1. UNCHANGED <<hub, starts>> /\ ((\E t : Asking(t)) \/ Noting)
  BY CallsDo DEF Steady
<1>2. CASE \E t : Asking(t)
  BY <1>1, <1>2, AskingStartsApart DEF Steady
<1>3. CASE Noting
  <2>1. \A e \in Entry : entry[e].task # NoTask => entry[e].state = "starting"
    BY DEF Steady, StartsApart
  <2> QED
    BY <1>1, <1>3, <2>1, StartsUntouched DEF Steady, Noting
<1> QED
  BY <1>1, <1>2, <1>3

\* The holder's steps leave its steps matched.
LEMMA HolderMatches ==
    ASSUME Steady, Holder
    PROVE  StepsMatch'
BY AcquireMatches, StopsMatch, ChangesMatch, HooksMatch, PassesMatch, StatesMatch DEF Steady, Holder

\* Every step keeps it.
LEMMA SteadyStays ==
    ASSUME Steady, [Next]_vars
    PROVE  Steady'
<1>1. CASE Holder
  <2>1. TypeOK' /\ WorkInOrder'
    BY <1>1, HolderTyped DEF Steady
  <2>2. StartsApart' /\ StepsMatch'
    BY <1>1, HolderStarts, HolderMatches DEF Steady
  <2> QED
    BY <2>1, <2>2 DEF Steady
<1>2. CASE Begins \/ Ends
  <2>1. TypeOK'
    BY <1>2, HolderTyped DEF Steady
  <2>2. StartsApart'
    BY <1>2, BeginStartStarts, EndStartStarts DEF Steady, Begins, Ends
  <2> QED
    BY <1>2, <2>1, <2>2, OthersMatch DEF Steady
<1>3. CASE Called \/ Boot \/ Retry
  <2>1. TypeOK'
    BY <1>3, CallsTyped DEF Steady
  <2> QED
    BY <1>3, <2>1, CallsStarts, OthersMatch DEF Steady
<1>4. CASE UNCHANGED vars
  <2>1. UNCHANGED <<hub, entry, known, given, plugged, offers, store, gaveUp, settings>>
        /\ UNCHANGED <<platform, bound, queue, work, round, starts, timer, running, object>>
    BY <1>4 DEF vars
  <2>2. TypeOK'
    <3>1. LivesTyped' /\ WorldTyped' /\ HeldTyped'
      <4>1. LivesTyped /\ WorldTyped /\ HeldTyped
        BY TypeIs DEF Steady
      <4>2. WorldTyped' /\ HeldTyped'
        BY <2>1, <4>1, WorldStays, HeldStays
      <4>3. LivesTyped'
        BY <2>1, <4>1, LivesTypedAgain DEF LivesTyped
      <4> QED
        BY <4>2, <4>3
    <3>2. (queue \in Seq(TaskType))' /\ (work \in Seq(StepType))'
      BY <2>1, TypeIs, TypesStay DEF Steady
    <3> QED
      BY <3>1, <3>2, TypedAgain
  <2>3. WorkInOrder'
    BY <2>1 DEF Steady, WorkInOrder
  <2>4. StartsApart'
    <3>1. \A e \in Entry : entry[e].task # NoTask => entry[e].state = "starting"
      BY DEF Steady, StartsApart
    <3> QED
      BY <2>1, <3>1, StartsUntouched DEF Steady
  <2>5. StepsMatch'
    BY <2>1, StepsUntouched DEF Steady
  <2> QED
    BY <2>2, <2>3, <2>4, <2>5 DEF Steady
<1> QED
  BY <1>1, <1>2, <1>3, <1>4 DEF Next

\* So it always holds.
LEMMA AlwaysSteady == Spec => []Steady
<1>1. Init => Steady
  BY SteadyAtFirst
<1>2. Steady /\ [Next]_vars => Steady'
  BY SteadyStays
<1> QED
  BY <1>1, <1>2, PTL DEF Spec

\* Every variable is always of its type, for any hubs, any number of passes and of lives: in
\* particular the runtime never holds a task or a step about what is no entry, and a start it
\* spawns always finds a number.
THEOREM Types == Spec => []TypeOK
BY AlwaysSteady, PTL DEF Steady
=============================================================================
