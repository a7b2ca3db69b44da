--------------------------- MODULE BindingProofs ---------------------------
(***************************************************************************)
(* Theorems about Binding, for any number of peripherals and endpoints and *)
(* any worlds: single-use endpoints are held once, what should run is      *)
(* grounded, one given first wins, the rounds arrive at what the function  *)
(* Resolve gives, and what runs on demand is wanted while it is used.      *)
(***************************************************************************)
EXTENDS BindingUsers, FiniteSetTheorems, WellFoundedInduction, TLAPS

\* What this round has not come to yet holds nothing.
NotYet ==
    \A p \in Peripherals : \A i \in DOMAIN world.needs[p] :
        p > owner \/ (p = owner /\ i >= need) => holds[p][i] = {}

\* Need i of p is served as it may be.
Served(p, i) ==
    /\ world.needs[p][i].required => holds[p][i] # {}
    /\ \A e \in holds[p][i] : world.provider[e] \in among \ {p}

\* The ones bound are wanted, behind the owner, and each need of them is served; so
\* are the needs of a wanted owner that went through.
BoundAreServed ==
    /\ wanted \subseteq alive
    /\ \A p \in bound : /\ p \in wanted /\ p < owner
                        /\ \A i \in DOMAIN world.needs[p] : Served(p, i)
    /\ owner \in wanted => \A i \in DOMAIN world.needs[owner] : i < need => Served(owner, i)

\* What is concluded stays: nothing widens, nobody is left unbound.
Concluded ==
    done => owner = NumPeripherals + 1 /\ used \subseteq wanted /\ wanted \subseteq bound

IInv == TypeOK /\ HeldOnce /\ TakenIsHeld /\ NotYet

-----------------------------------------------------------------------------
(* The operators a step is made of. *)

\* The needs of a peripheral in a world.
LEMMA NeedShape ==
    ASSUME NEW w \in World, NEW p \in Peripherals, NEW i \in DOMAIN w.needs[p]
    PROVE  /\ i \in Nat \ {0}
           /\ w.needs[p][i] \in Need
           /\ w.provider \in [Endpoints -> Peripherals]
<1>1. w.needs[p] \in Seq(Need)
  BY DEF World
<1>2. QED
  BY <1>1 DEF World

\* What a need is given is an endpoint it accepts, of another one that may serve, that
\* nobody took.
LEMMA ChosenIsFree ==
    ASSUME NEW w \in World, NEW p \in Peripherals, NEW i \in DOMAIN w.needs[p],
           NEW S \in SUBSET Peripherals,
           NEW t \in [Endpoints -> Peripherals \cup {Nobody}]
    PROVE  /\ Chosen(w, p, i, S, t) \subseteq Endpoints
           /\ \A e \in Chosen(w, p, i, S, t) :
                t[e] = Nobody /\ w.provider[e] \in S \ {p}
<1>1. w.needs[p][i].accepts \subseteq Endpoints
  BY NeedShape DEF Need
<1>2. QED
  BY <1>1 DEF Chosen, Candidates

\* Taking marks the single-use ones among the chosen, and changes nothing else.
LEMMA TakeMarks ==
    ASSUME NEW w, NEW p \in Peripherals, NEW C \in SUBSET Endpoints,
           NEW t \in [Endpoints -> Peripherals \cup {Nobody}]
    PROVE  /\ Take(w, p, C, t) \in [Endpoints -> Peripherals \cup {Nobody}]
           /\ \A e \in Endpoints :
                Take(w, p, C, t)[e] = IF e \in C \ w.shared THEN p ELSE t[e]
BY DEF Take

\* Giving back frees what the owner took, and nothing else.
LEMMA GiveBackFrees ==
    ASSUME NEW p \in Peripherals, NEW t \in [Endpoints -> Peripherals \cup {Nobody}]
    PROVE  /\ GiveBack(p, t) \in [Endpoints -> Peripherals \cup {Nobody}]
           /\ \A e \in Endpoints :
                GiveBack(p, t)[e] = IF t[e] = p THEN Nobody ELSE t[e]
BY DEF GiveBack

-----------------------------------------------------------------------------
(* Types. *)

\* The variables keep their types, whatever the worlds.
LEMMA InitType == Init => TypeOK
<1> SUFFICES ASSUME Init PROVE TypeOK
  OBVIOUS
<1>1. world \in World /\ alive \in SUBSET Peripherals /\ wanted \in SUBSET Peripherals
  BY WorldsAssumption DEF Init
<1>2. owner \in 1..(NumPeripherals + 1) /\ need \in Nat \ {0}
  BY NumAssumption DEF Init
<1>3. /\ DOMAIN holds = Peripherals
      /\ \A p \in Peripherals : holds[p] \in [DOMAIN world.needs[p] -> SUBSET Endpoints]
  BY DEF Init
<1>4. taken \in [Endpoints -> Peripherals \cup {Nobody}]
  BY DEF Init, NoTakers
<1> QED
  BY <1>1, <1>2, <1>3, <1>4 DEF Init, TypeOK

LEMMA NextType == TypeOK /\ [Next]_vars => TypeOK'
<1> SUFFICES ASSUME TypeOK, [Next]_vars PROVE TypeOK'
  OBVIOUS
<1>a. owner \in Peripherals => owner + 1 \in 1..(NumPeripherals + 1)
  BY NumAssumption DEF Peripherals, TypeOK
<1>b. 1 \in 1..(NumPeripherals + 1)
  BY NumAssumption
<1>1. CASE SkipUnwanted
  BY <1>1, <1>a DEF SkipUnwanted, NextOwner, TypeOK
<1>2. CASE BindNeed
  <2> DEFINE C == Chosen(world, owner, need, among, taken)
  <2>1. /\ owner \in Peripherals /\ need \in DOMAIN world.needs[owner]
        /\ holds' = [holds EXCEPT ![owner][need] = C]
        /\ taken' = Take(world, owner, C, taken)
        /\ need' = need + 1
        /\ UNCHANGED <<world, alive, leftOut, wanted, owner, bound, done>>
    BY <1>2 DEF BindNeed, IsBinding
  <2>2. C \subseteq Endpoints
    BY <2>1, ChosenIsFree DEF TypeOK, among
  <2>3. taken' \in [Endpoints -> Peripherals \cup {Nobody}]
    BY <2>1, <2>2, TakeMarks DEF TypeOK
  <2>4. /\ DOMAIN holds' = Peripherals
        /\ \A p \in Peripherals : holds'[p] \in [DOMAIN world.needs[p] -> SUBSET Endpoints]
    BY <2>1, <2>2 DEF TypeOK
  <2>5. need' \in Nat \ {0}
    BY <2>1 DEF TypeOK
  <2> QED
    BY <2>1, <2>3, <2>4, <2>5 DEF TypeOK
<1>3. CASE FailOwner
  <2>1. /\ owner \in Peripherals
        /\ holds' = [holds EXCEPT ![owner] = NoHolds[owner]]
        /\ taken' = GiveBack(owner, taken)
        /\ NextOwner
        /\ UNCHANGED <<world, alive, leftOut, wanted, bound, done>>
    BY <1>3 DEF FailOwner, IsBinding
  <2>2. taken' \in [Endpoints -> Peripherals \cup {Nobody}]
    BY <2>1, GiveBackFrees DEF TypeOK
  <2>3. /\ DOMAIN holds' = Peripherals
        /\ \A p \in Peripherals : holds'[p] \in [DOMAIN world.needs[p] -> SUBSET Endpoints]
    BY <2>1 DEF TypeOK, NoHolds
  <2> QED
    BY <2>1, <2>2, <2>3, <1>a DEF TypeOK, NextOwner
<1>4. CASE BindOwnerDone
  BY <1>4, <1>a DEF BindOwnerDone, IsBinding, NextOwner, TypeOK
<1>c. ASSUME NewRound, UNCHANGED world
      PROVE  /\ owner' \in 1..(NumPeripherals + 1) /\ need' \in Nat \ {0}
             /\ bound' \in SUBSET Peripherals
             /\ DOMAIN holds' = Peripherals
             /\ \A p \in Peripherals : holds'[p] \in [DOMAIN world'.needs[p] -> SUBSET Endpoints]
             /\ taken' \in [Endpoints -> Peripherals \cup {Nobody}]
  BY <1>c, <1>b DEF NewRound, NoHolds, NoTakers
<1>5. CASE WidenWanted
  <2>1. used \subseteq Peripherals
    BY DEF used, HeldBy, TypeOK, World
  <2> QED
    BY <1>5, <1>c, <2>1 DEF WidenWanted, TypeOK
<1>6. CASE LeaveOut
  BY <1>6, <1>c DEF LeaveOut, TypeOK
<1>7. CASE Conclude
  BY <1>7 DEF Conclude, TypeOK
<1>8. CASE UNCHANGED vars
  BY <1>8 DEF vars, TypeOK
<1> QED
  BY <1>1, <1>2, <1>3, <1>4, <1>5, <1>6, <1>7, <1>8 DEF Next

\* Type correctness of the computation.
THEOREM TypeCorrect == Spec => []TypeOK
BY InitType, NextType, PTL DEF Spec

-----------------------------------------------------------------------------
(* Single-use endpoints: what is marked taken is what is held, so nothing held is   *)
(* free to be chosen again.                                                          *)

\* A round that holds nothing and marks nothing keeps to everything about holding.
LEMMA EmptyRound ==
    ASSUME /\ \A p \in Peripherals : \A i \in DOMAIN world.needs[p] : holds[p][i] = {}
           /\ DOMAIN holds = Peripherals
           /\ \A p \in Peripherals : DOMAIN holds[p] = DOMAIN world.needs[p]
           /\ taken = NoTakers
    PROVE  HeldOnce /\ TakenIsHeld /\ NotYet
<1>1. \A p \in Peripherals, e \in Endpoints : ~ Holds(p, e)
  BY DEF Holds, HeldBy
<1>2. \A p \in Peripherals, e \in Endpoints : taken[e] # p
  BY NumAssumption DEF NoTakers, Nobody, Peripherals
<1> QED
  BY <1>1, <1>2 DEF HeldOnce, TakenIsHeld, NotYet

LEMMA InitInv == Init => IInv
<1> SUFFICES ASSUME Init PROVE IInv
  OBVIOUS
<1>1. TypeOK
  BY InitType
<1>2. HeldOnce /\ TakenIsHeld /\ NotYet
  BY EmptyRound DEF Init
<1> QED
  BY <1>1, <1>2 DEF IInv

\* The needs that hold an endpoint are what Holds speaks of.
LEMMA HoldsSome ==
    ASSUME TypeOK
    PROVE  \A p \in Peripherals, e \in Endpoints :
               Holds(p, e) <=> \E i \in DOMAIN world.needs[p] : e \in holds[p][i]
BY DEF TypeOK, Holds, HeldBy

\* The step that binds a need keeps single-use endpoints apart: what it is given was
\* free, so nobody held it.
LEMMA BindNeedInv == IInv /\ BindNeed => (HeldOnce /\ TakenIsHeld /\ NotYet)'
<1> SUFFICES ASSUME IInv, BindNeed PROVE (HeldOnce /\ TakenIsHeld /\ NotYet)'
  OBVIOUS
<1> DEFINE C == Chosen(world, owner, need, among, taken)
<1>1. TypeOK /\ HeldOnce /\ TakenIsHeld /\ NotYet
  BY DEF IInv
<1>2. /\ owner \in Peripherals /\ need \in DOMAIN world.needs[owner]
      /\ holds' = [holds EXCEPT ![owner][need] = C]
      /\ taken' = Take(world, owner, C, taken)
      /\ need' = need + 1
      /\ UNCHANGED <<world, alive, leftOut, wanted, owner, bound, done>>
  BY DEF BindNeed, IsBinding
<1>3. C \subseteq Endpoints /\ \A e \in C : taken[e] = Nobody
  BY <1>1, <1>2, ChosenIsFree DEF TypeOK, among
<1>4. \A p \in Peripherals : Nobody # p
  BY NumAssumption DEF Nobody, Peripherals
<1>5. \A e \in C \ world.shared : \A p \in Peripherals :
          \A i \in DOMAIN world.needs[p] : e \notin holds[p][i]
  BY <1>1, <1>3, <1>4, HoldsSome DEF TakenIsHeld
<1>6. holds[owner][need] = {}
  <2>1. need >= need
    BY <1>1 DEF TypeOK
  <2> QED
    BY <2>1, <1>1, <1>2 DEF NotYet
<1>7. \A p \in Peripherals : \A i \in DOMAIN world.needs[p] :
          holds'[p][i] = IF p = owner /\ i = need THEN C ELSE holds[p][i]
  BY <1>1, <1>2 DEF TypeOK
<1>8. TypeOK'
  BY <1>1, NextType DEF Next
<1>9. HeldOnce'
  BY <1>1, <1>2, <1>5, <1>7 DEF HeldOnce
<1>10. \A e \in Endpoints : taken'[e] = IF e \in C \ world.shared THEN owner ELSE taken[e]
  <2>1. taken \in [Endpoints -> Peripherals \cup {Nobody}]
    BY <1>1 DEF TypeOK
  <2> HIDE DEF C
  <2> QED
    BY <2>1, <1>2, <1>3, TakeMarks
<1>11. TakenIsHeld'
  <2> SUFFICES ASSUME NEW e \in Endpoints, NEW p \in Peripherals
               PROVE  taken'[e] = p <=> e \notin world.shared /\ Holds(p, e)'
    BY <1>2 DEF TakenIsHeld
  <2>1. Holds(p, e)' <=> \E i \in DOMAIN world.needs[p] : e \in holds'[p][i]
    BY <1>8, <1>2 DEF TypeOK, Holds, HeldBy
  <2>2. Holds(p, e) <=> \E i \in DOMAIN world.needs[p] : e \in holds[p][i]
    BY <1>1, HoldsSome
  <2>3. Holds(p, e)' <=> Holds(p, e) \/ (p = owner /\ e \in C)
    BY <2>1, <2>2, <1>2, <1>6, <1>7
  <2>4. taken[e] = p <=> e \notin world.shared /\ Holds(p, e)
    BY <1>1 DEF TakenIsHeld
  <2>5. CASE e \in C \ world.shared
    BY <2>2, <2>3, <2>5, <1>5, <1>10
  <2>6. CASE e \notin C \ world.shared
    BY <2>3, <2>4, <2>6, <1>10
  <2> QED
    BY <2>5, <2>6
<1>12. NotYet'
  <2> SUFFICES ASSUME NEW p \in Peripherals, NEW i \in DOMAIN world.needs[p],
                      p > owner \/ (p = owner /\ i >= need + 1)
               PROVE  holds'[p][i] = {}
    BY <1>2 DEF NotYet
  <2>1. i \in Nat /\ need \in Nat /\ p \in Nat /\ owner \in Nat
    BY <1>1, <1>2, NeedShape DEF TypeOK, Peripherals
  <2> QED
    BY <2>1, <1>1, <1>7 DEF NotYet
<1> QED
  BY <1>9, <1>11, <1>12

\* The step that fails an owner returns all it took: nothing it held stays marked.
LEMMA FailOwnerInv == IInv /\ FailOwner => (HeldOnce /\ TakenIsHeld /\ NotYet)'
<1> SUFFICES ASSUME IInv, FailOwner PROVE (HeldOnce /\ TakenIsHeld /\ NotYet)'
  OBVIOUS
<1>1. TypeOK /\ HeldOnce /\ TakenIsHeld /\ NotYet
  BY DEF IInv
<1>2. /\ owner \in Peripherals
      /\ holds' = [holds EXCEPT ![owner] = NoHolds[owner]]
      /\ taken' = GiveBack(owner, taken)
      /\ owner' = owner + 1 /\ need' = 1
      /\ UNCHANGED <<world, alive, leftOut, wanted, bound, done>>
  BY DEF FailOwner, IsBinding, NextOwner
<1>3. \A p \in Peripherals : \A i \in DOMAIN world.needs[p] :
          holds'[p][i] = IF p = owner THEN {} ELSE holds[p][i]
  BY <1>1, <1>2 DEF TypeOK, NoHolds
<1>4. TypeOK'
  BY <1>1, NextType DEF Next
<1>5. HeldOnce'
  BY <1>1, <1>2, <1>3 DEF HeldOnce
<1>6. \A e \in Endpoints : taken'[e] = IF taken[e] = owner THEN Nobody ELSE taken[e]
  BY <1>1, <1>2, GiveBackFrees DEF TypeOK
<1>7. TakenIsHeld'
  <2> SUFFICES ASSUME NEW e \in Endpoints, NEW p \in Peripherals
               PROVE  taken'[e] = p <=> e \notin world.shared /\ Holds(p, e)'
    BY <1>2 DEF TakenIsHeld
  <2>1. Holds(p, e)' <=> \E i \in DOMAIN world.needs[p] : e \in holds'[p][i]
    BY <1>4, <1>2 DEF TypeOK, Holds, HeldBy
  <2>2. Holds(p, e)' <=> p # owner /\ Holds(p, e)
    BY <2>1, <1>1, <1>3, HoldsSome
  <2>3. taken[e] = p <=> e \notin world.shared /\ Holds(p, e)
    BY <1>1 DEF TakenIsHeld
  <2>4. Nobody # p
    BY NumAssumption DEF Nobody, Peripherals
  <2> QED
    BY <2>2, <2>3, <2>4, <1>6
<1>8. NotYet'
  <2> SUFFICES ASSUME NEW p \in Peripherals, NEW i \in DOMAIN world.needs[p],
                      p >= owner + 1
               PROVE  holds'[p][i] = {}
    BY <1>2 DEF NotYet, Peripherals
  <2> QED
    BY <1>1, <1>3 DEF NotYet, TypeOK, Peripherals
<1> QED
  BY <1>5, <1>7, <1>8

LEMMA NextInv == IInv /\ [Next]_vars => IInv'
<1> SUFFICES ASSUME IInv, [Next]_vars PROVE IInv'
  OBVIOUS
<1>1. TypeOK /\ TypeOK' /\ HeldOnce /\ TakenIsHeld /\ NotYet
  BY NextType DEF IInv
<1>2. ASSUME UNCHANGED <<world, holds, taken>>,
             owner' = owner + 1 \/ (owner' = owner /\ need' = need),
             owner \in Peripherals \/ owner' = owner
      PROVE  IInv'
  <2>1. HeldOnce'
    BY <1>1, <1>2 DEF HeldOnce
  <2>2. TakenIsHeld'
    BY <1>1, <1>2 DEF TakenIsHeld, Holds, HeldBy
  <2>3. NotYet'
    BY <1>1, <1>2 DEF NotYet, TypeOK, Peripherals
  <2> QED
    BY <1>1, <2>1, <2>2, <2>3 DEF IInv
<1>3. ASSUME NewRound, UNCHANGED world
      PROVE  IInv'
  <2>1. /\ \A p \in Peripherals : \A i \in DOMAIN world'.needs[p] : holds'[p][i] = {}
        /\ DOMAIN holds' = Peripherals
        /\ \A p \in Peripherals : DOMAIN holds'[p] = DOMAIN world'.needs[p]
        /\ taken' = NoTakers
    BY <1>3 DEF NewRound, NoHolds
  <2>2. (HeldOnce /\ TakenIsHeld /\ NotYet)'
    <3>1. \A p \in Peripherals, e \in Endpoints : ~ Holds(p, e)'
      BY <2>1 DEF Holds, HeldBy
    <3>2. \A p \in Peripherals, e \in Endpoints : taken'[e] # p
      BY <2>1, NumAssumption DEF NoTakers, Nobody, Peripherals
    <3> QED
      BY <3>1, <3>2, <2>1 DEF HeldOnce, TakenIsHeld, NotYet
  <2> QED
    BY <1>1, <2>2 DEF IInv
<1>4. CASE SkipUnwanted
  BY <1>4, <1>2 DEF SkipUnwanted, NextOwner
<1>5. CASE BindNeed
  BY <1>5, <1>1, BindNeedInv DEF IInv
<1>6. CASE FailOwner
  BY <1>6, <1>1, FailOwnerInv DEF IInv
<1>7. CASE BindOwnerDone
  BY <1>7, <1>2 DEF BindOwnerDone, IsBinding, NextOwner
<1>8. CASE WidenWanted
  BY <1>8, <1>3 DEF WidenWanted
<1>9. CASE LeaveOut
  BY <1>9, <1>3 DEF LeaveOut
<1>10. CASE Conclude
  BY <1>10, <1>2 DEF Conclude
<1>11. CASE UNCHANGED vars
  BY <1>11, <1>2 DEF vars
<1> QED
  BY <1>4, <1>5, <1>6, <1>7, <1>8, <1>9, <1>10, <1>11 DEF Next

\* No single-use endpoint is ever bound twice.
THEOREM SingleUse == Spec => []HeldOnce
<1>1. IInv => HeldOnce
  BY DEF IInv
<1> QED
  BY InitInv, NextInv, <1>1, PTL DEF Spec

\* What is marked taken is exactly what is held: a failed owner leaks nothing.
THEOREM NothingLeaks == Spec => []TakenIsHeld
<1>1. IInv => TakenIsHeld
  BY DEF IInv
<1> QED
  BY InitInv, NextInv, <1>1, PTL DEF Spec

-----------------------------------------------------------------------------
(* What should run can. *)

GInv == IInv /\ BoundAreServed /\ Concluded

LEMMA InitGrounded == Init => GInv
<1> SUFFICES ASSUME Init PROVE GInv
  OBVIOUS
<1>1. IInv
  BY InitInv
<1>2. BoundAreServed
  <2>1. \A i \in DOMAIN world.needs[owner] : owner \in wanted => ~ (i < need)
    <3> SUFFICES ASSUME NEW i \in DOMAIN world.needs[owner], owner \in wanted
                 PROVE  ~ (i < 1)
      BY DEF Init
    <3>1. owner \in Peripherals /\ world \in World
      BY <1>1 DEF IInv, TypeOK
    <3> QED
      BY <3>1, NeedShape
  <2> QED
    BY <2>1 DEF Init, BoundAreServed
<1> QED
  BY <1>1, <1>2 DEF GInv, Concluded, Init

\* A new round has bound nobody and served nothing yet.
LEMMA NewRoundGrounded ==
    ASSUME GInv, NewRound, IInv', UNCHANGED <<world, alive>>, ~ done',
           wanted' \subseteq alive
    PROVE  GInv'
<1>1. \A i \in DOMAIN world'.needs[owner'] : owner' \in wanted' => ~ (i < need')
  <2> SUFFICES ASSUME NEW i \in DOMAIN world.needs[1], 1 \in Peripherals
               PROVE  ~ (i < 1)
    BY DEF NewRound, IInv, TypeOK
  <2>1. world \in World
    BY DEF GInv, IInv, TypeOK
  <2> QED
    BY <2>1, NeedShape
<1>2. BoundAreServed'
  BY <1>1 DEF NewRound, BoundAreServed
<1> QED
  BY <1>2 DEF GInv, Concluded

\* What is done with the turn of an owner keeps what was served before it.
LEMMA NextOwnerGrounded ==
    ASSUME GInv, IInv', NextOwner, owner \in Peripherals,
           UNCHANGED <<world, alive, leftOut, wanted, done>>,
           bound' = bound
             \/ /\ bound' = bound \cup {owner} /\ owner \in wanted
                /\ \A i \in DOMAIN world.needs[owner] : Served(owner, i),
           \A p \in Peripherals : p \in bound' => holds'[p] = holds[p]
    PROVE  GInv'
<1>1. TypeOK /\ BoundAreServed /\ Concluded
  BY DEF GInv, IInv
<1>2. owner < owner' /\ need' = 1 /\ ~ done /\ owner \in Nat
  BY <1>1, NumAssumption DEF NextOwner, Concluded, Peripherals, TypeOK
<1>3. \A p \in bound' : /\ p \in wanted' /\ p < owner'
                        /\ \A i \in DOMAIN world.needs[p] : Served(p, i)
  <2>1. \A p \in bound : p \in Nat /\ p < owner
    BY <1>1 DEF BoundAreServed, TypeOK, Peripherals
  <2> QED
    BY <2>1, <1>1, <1>2 DEF BoundAreServed, NextOwner
<1>4. \A p \in bound' : \A i \in DOMAIN world'.needs[p] : Served(p, i)'
  <2>1. bound' \subseteq Peripherals
    BY DEF IInv, TypeOK
  <2> QED
    BY <2>1, <1>3 DEF Served, among
<1>5. owner' \in wanted' => \A i \in DOMAIN world'.needs[owner'] : ~ (i < need')
  <2> SUFFICES ASSUME owner' \in wanted', NEW i \in DOMAIN world.needs[owner']
               PROVE  ~ (i < 1)
    BY <1>2
  <2>1. owner' \in Peripherals /\ world \in World
    BY <1>1 DEF TypeOK, IInv
  <2> QED
    BY <2>1, NeedShape
<1>6. BoundAreServed'
  BY <1>1, <1>3, <1>4, <1>5 DEF BoundAreServed
<1> QED
  BY <1>2, <1>6 DEF GInv, Concluded

LEMMA NextGrounded == GInv /\ [Next]_vars => GInv'
<1> SUFFICES ASSUME GInv, [Next]_vars PROVE GInv'
  OBVIOUS
<1>1. TypeOK /\ BoundAreServed /\ Concluded /\ IInv'
  BY NextInv DEF GInv, IInv
<1>2. CASE SkipUnwanted
  BY <1>1, <1>2, NextOwnerGrounded DEF SkipUnwanted
<1>3. CASE BindNeed
  <2> DEFINE C == Chosen(world, owner, need, among, taken)
  <2>1. /\ owner \in Peripherals /\ owner \in wanted
        /\ need \in DOMAIN world.needs[owner]
        /\ C # {} \/ ~ world.needs[owner][need].required
        /\ holds' = [holds EXCEPT ![owner][need] = C]
        /\ need' = need + 1
        /\ UNCHANGED <<world, alive, leftOut, wanted, owner, bound, done>>
    BY <1>3 DEF BindNeed, IsBinding
  <2>2. \A e \in C : world.provider[e] \in among \ {owner}
    BY <1>1, <2>1, ChosenIsFree DEF TypeOK, among
  <2>3. \A p \in Peripherals : \A i \in DOMAIN world.needs[p] :
            holds'[p][i] = IF p = owner /\ i = need THEN C ELSE holds[p][i]
    BY <1>1, <2>1 DEF TypeOK
  <2>4. \A p \in bound : p \in Peripherals /\ p # owner
    BY <1>1, <2>1 DEF BoundAreServed, TypeOK, Peripherals
  <2>5. \A p \in bound : \A i \in DOMAIN world.needs[p] : Served(p, i)'
    BY <1>1, <2>1, <2>3, <2>4 DEF BoundAreServed, Served, among
  <2>6. ASSUME NEW i \in DOMAIN world.needs[owner], i < need + 1
        PROVE  Served(owner, i)'
    <3> HIDE DEF C
    <3>1. CASE i = need
      <4>1. holds'[owner][i] = C
        BY <2>1, <2>3, <3>1
      <4>2. world' = world /\ among' = among
        BY <2>1 DEF among
      <4> QED
        BY <4>1, <4>2, <3>1, <2>1, <2>2 DEF Served
    <3>2. CASE i # need
      <4>a. i \in Nat /\ need \in Nat
        BY <1>1, <2>1, NeedShape DEF TypeOK
      <4>1. i < need
        BY <4>a, <2>6, <3>2
      <4>2. Served(owner, i)
        BY <4>1, <1>1, <2>1 DEF BoundAreServed
      <4> QED
        BY <4>2, <3>2, <2>1, <2>3 DEF Served, among
    <3> QED
      BY <3>1, <3>2
  <2>7. BoundAreServed'
    BY <1>1, <2>1, <2>5, <2>6 DEF BoundAreServed
  <2>8. Concluded'
    BY <1>1, <2>1, NumAssumption DEF Concluded, Peripherals
  <2> QED
    BY <1>1, <2>7, <2>8 DEF GInv
<1>4. CASE FailOwner
  <2>1. \A p \in bound : p # owner
    BY <1>1 DEF BoundAreServed, TypeOK, Peripherals
  <2>2. \A p \in Peripherals : p \in bound' => holds'[p] = holds[p]
    BY <1>1, <1>4, <2>1 DEF FailOwner, TypeOK
  <2> QED
    BY <1>1, <1>4, <2>2, NextOwnerGrounded DEF FailOwner, IsBinding
<1>5. CASE BindOwnerDone
  <2>1. \A i \in DOMAIN world.needs[owner] : Served(owner, i)
    <3>1. /\ owner \in wanted /\ need \notin DOMAIN world.needs[owner]
          /\ world.needs[owner] \in Seq(Need) /\ need \in Nat \ {0}
      BY <1>1, <1>5 DEF TypeOK, World, BindOwnerDone, IsBinding
    <3>2. DOMAIN world.needs[owner] = 1..Len(world.needs[owner])
          /\ Len(world.needs[owner]) \in Nat
      BY <3>1
    <3>3. \A i \in DOMAIN world.needs[owner] : i < need
      BY <3>1, <3>2
    <3> QED
      BY <1>1, <3>1, <3>3 DEF BoundAreServed
  <2> QED
    BY <1>1, <1>5, <2>1, NextOwnerGrounded DEF BindOwnerDone, IsBinding
<1>6. CASE WidenWanted
  <2>1. used \subseteq alive
    BY <1>1 DEF used, HeldBy, BoundAreServed, Served, among, TypeOK
  <2>2. /\ wanted' \subseteq alive /\ ~ done' /\ NewRound
        /\ UNCHANGED <<world, alive>>
    BY <1>1, <1>6, <2>1 DEF WidenWanted, RoundOver, BoundAreServed
  <2> QED
    BY <1>1, <2>2, NewRoundGrounded
<1>7. CASE LeaveOut
  <2>1. /\ wanted' \subseteq alive /\ ~ done' /\ NewRound
        /\ UNCHANGED <<world, alive>>
    BY <1>1, <1>7 DEF LeaveOut, RoundOver
  <2> QED
    BY <1>1, <2>1, NewRoundGrounded
<1>8. CASE Conclude
  BY <1>1, <1>8 DEF Conclude, RoundOver, GInv, BoundAreServed, Served, Concluded, used, among
<1>9. CASE UNCHANGED vars
  BY <1>1, <1>9 DEF vars, GInv, BoundAreServed, Served, Concluded, used, among
<1> QED
  BY <1>2, <1>3, <1>4, <1>5, <1>6, <1>7, <1>8, <1>9 DEF Next

\* Whatever should run is bound to what should run too, in every world.
THEOREM WantedIsGrounded == Spec => []Grounded
<1>1. GInv => Grounded
  <2> SUFFICES ASSUME GInv, done, NEW p \in wanted
               PROVE  /\ p \in alive /\ p \in bound
                      /\ \A i \in DOMAIN world.needs[p] :
                           /\ world.needs[p][i].required => holds[p][i] # {}
                           /\ \A e \in holds[p][i] :
                                world.provider[e] \in (wanted \cap alive) \ {p}
    BY DEF Grounded
  <2>1. p \in bound /\ p \in alive /\ wanted \subseteq alive /\ p \in Peripherals
    BY DEF GInv, IInv, TypeOK, Concluded, BoundAreServed
  <2>2. \A i \in DOMAIN world.needs[p] : Served(p, i)
    BY <2>1 DEF GInv, BoundAreServed
  <2>3. \A i \in DOMAIN world.needs[p] : \A e \in holds[p][i] : world.provider[e] \in used
    BY <2>1 DEF used, HeldBy, GInv, IInv, TypeOK
  <2> QED
    BY <2>1, <2>2, <2>3 DEF Served, among, GInv, Concluded
<1> QED
  BY InitGrounded, NextGrounded, <1>1, PTL DEF Spec

-----------------------------------------------------------------------------
(* One given first wins. *)

\* What need i of p could have had went to p or to one before it, or the need is for
\* one and has an earlier one.
FirstServed(p, i) ==
    \A f \in Candidates(world, p, i, among) \ holds[p][i] :
        \/ taken[f] \in 1..p
        \/ ~ world.needs[p][i].many /\ \E e \in holds[p][i] : e < f

\* That is so of the needs of the bound, and of those the owner went through.
FirstsServed ==
    /\ \A p \in bound : \A i \in DOMAIN world.needs[p] : FirstServed(p, i)
    /\ owner \in wanted => \A i \in DOMAIN world.needs[owner] : i < need => FirstServed(owner, i)

FInv == GInv /\ FirstsServed

\* A set of naturals that is not empty has a first one, and CHOOSE finds it.
LEMMA FirstIs ==
    ASSUME NEW S \in SUBSET Nat, S # {}
    PROVE  LET first == CHOOSE t \in S : \A u \in S : t <= u
           IN  first \in S /\ \A u \in S : first <= u
<1> DEFINE Less == {ss \in Nat \X Nat : ss[1] < ss[2]}
<1>1. IsWellFoundedOn(Less, Nat)
  BY NatLessThanWellFounded, Zenon DEF OpToRel
<1>2. PICK t \in S : \A u \in S : ~ (<<u, t>> \in Less)
  BY <1>1, WFMin
<1>3. \A u \in S : t <= u
  <2> SUFFICES ASSUME NEW u \in S PROVE ~ (u < t)
    OBVIOUS
  <2>1. u < t => <<u, t>> \in Less
    OBVIOUS
  <2>2. QED
    BY <1>2, <2>1
<1>4. QED
  BY <1>3

\* A candidate nobody took that a need did not get is after one it got, and the need
\* is for one only.
LEMMA ChosenIsFirst ==
    ASSUME NEW w \in World, NEW p \in Peripherals, NEW i \in DOMAIN w.needs[p],
           NEW S \in SUBSET Peripherals,
           NEW t \in [Endpoints -> Peripherals \cup {Nobody}],
           NEW f \in Candidates(w, p, i, S) \ Chosen(w, p, i, S, t), t[f] = Nobody
    PROVE  ~ w.needs[p][i].many /\ \E e \in Chosen(w, p, i, S, t) : e < f
<1> DEFINE free == {e \in Candidates(w, p, i, S) : t[e] = Nobody}
<1>1. f \in free
  OBVIOUS
<1>2. ~ w.needs[p][i].many
  BY <1>1 DEF Chosen
<1>3. free \subseteq Nat
  <2>1. w.needs[p][i].accepts \subseteq Endpoints
    BY NeedShape DEF Need
  <2> QED
    BY <2>1 DEF Candidates, Endpoints
<1>4. PICK e \in free : \A u \in free : e <= u
  <2> HIDE DEF free
  <2> QED
    BY <1>1, <1>3, FirstIs
<1>5. e \in Chosen(w, p, i, S, t)
  BY <1>2, <1>4 DEF Chosen
<1>6. e # f /\ e <= f /\ e \in Nat /\ f \in Nat
  BY <1>1, <1>3, <1>4, <1>5
<1> QED
  BY <1>2, <1>5, <1>6

\* Who took an endpoint holds it, so it is the owner or one before it.
LEMMA TakersComeBefore ==
    ASSUME IInv, NEW e \in Endpoints, taken[e] # Nobody
    PROVE  taken[e] \in Peripherals /\ taken[e] <= owner
<1>1. TypeOK /\ TakenIsHeld /\ NotYet
  BY DEF IInv
<1>2. taken[e] \in Peripherals
  BY <1>1 DEF TypeOK
<1>3. PICK i \in DOMAIN world.needs[taken[e]] : e \in holds[taken[e]][i]
  BY <1>1, <1>2, HoldsSome DEF TakenIsHeld
<1>4. ~ (taken[e] > owner)
  BY <1>1, <1>2, <1>3 DEF NotYet
<1> QED
  BY <1>1, <1>2, <1>4 DEF TypeOK, Peripherals

\* No need of the one a turn begins with is gone through.
LEMMA NoneGoneThrough ==
    ASSUME TypeOK, owner \in wanted, need = 1, NEW i \in DOMAIN world.needs[owner]
    PROVE  ~ (i < need)
<1>1. owner \in Peripherals /\ world \in World
  BY DEF TypeOK
<1> QED
  BY <1>1, NeedShape

LEMMA InitFirsts == Init => FInv
<1> SUFFICES ASSUME Init PROVE FInv
  OBVIOUS
<1>1. GInv /\ TypeOK
  BY InitGrounded, InitType
<1> QED
  BY <1>1, NoneGoneThrough DEF FInv, FirstsServed, Init

\* A step that begins a turn and disturbs nothing the bound hold or lack.
LEMMA TurnFirsts ==
    ASSUME FInv, GInv', need' = 1, UNCHANGED <<world, alive, leftOut>>,
           \A p \in bound' : \A i \in DOMAIN world.needs[p] :
               holds'[p][i] = holds[p][i] /\ FirstServed(p, i),
           \A p \in bound', f \in Endpoints : taken[f] \in 1..p => taken'[f] = taken[f]
    PROVE  FInv'
<1>1. TypeOK' /\ TypeOK
  BY DEF FInv, GInv, IInv
<1>2. \A p \in bound' : \A i \in DOMAIN world'.needs[p] : FirstServed(p, i)'
  <2> SUFFICES ASSUME NEW p \in bound', NEW i \in DOMAIN world.needs[p],
                      NEW f \in Candidates(world, p, i, among) \ holds[p][i]
               PROVE  \/ taken'[f] \in 1..p
                      \/ ~ world.needs[p][i].many /\ \E e \in holds[p][i] : e < f
    BY DEF FirstServed, among
  <2>1. p \in Peripherals /\ world \in World
    BY <1>1 DEF TypeOK
  <2>2. f \in Endpoints
    BY <2>1, NeedShape DEF Candidates, Need
  <2> QED
    BY <2>2 DEF FirstServed
<1>3. owner' \in wanted' => \A i \in DOMAIN world'.needs[owner'] : ~ (i < need')
  <2> SUFFICES ASSUME owner' \in wanted', NEW i \in DOMAIN world'.needs[owner']
               PROVE  ~ (i < 1)
    OBVIOUS
  <2>1. owner' \in Peripherals /\ world' \in World
    BY <1>1 DEF TypeOK
  <2> QED
    BY <2>1, NeedShape
<1> QED
  BY <1>2, <1>3 DEF FInv, FirstsServed

\* Binding a need leaves what others took alone, and gives its owner the first there is.
LEMMA BindNeedFirsts == FInv /\ BindNeed => FirstsServed'
<1> SUFFICES ASSUME FInv, BindNeed PROVE FirstsServed'
  OBVIOUS
<1> DEFINE C == Chosen(world, owner, need, among, taken)
<1>1. IInv /\ TypeOK /\ BoundAreServed /\ FirstsServed
  BY DEF FInv, GInv, IInv
<1>2. /\ owner \in Peripherals /\ owner \in wanted
      /\ need \in DOMAIN world.needs[owner]
      /\ holds' = [holds EXCEPT ![owner][need] = C]
      /\ taken' = Take(world, owner, C, taken)
      /\ need' = need + 1
      /\ UNCHANGED <<world, alive, leftOut, wanted, owner, bound, done>>
  BY DEF BindNeed, IsBinding
<1>3. C \subseteq Endpoints /\ \A e \in C : taken[e] = Nobody
  BY <1>1, <1>2, ChosenIsFree DEF TypeOK, among
<1>4. \A p \in Peripherals : \A i \in DOMAIN world.needs[p] :
          holds'[p][i] = IF p = owner /\ i = need THEN C ELSE holds[p][i]
  BY <1>1, <1>2 DEF TypeOK
<1>5. \A f \in Endpoints : taken[f] # Nobody => taken'[f] = taken[f]
  <2>1. taken \in [Endpoints -> Peripherals \cup {Nobody}]
    BY <1>1 DEF TypeOK
  <2>2. \A f \in Endpoints : taken'[f] = IF f \in C \ world.shared THEN owner ELSE taken[f]
    <3> HIDE DEF C
    <3> QED
      BY <2>1, <1>2, <1>3, TakeMarks
  <2> HIDE DEF C
  <2> QED
    BY <2>2, <1>3
<1>6. ASSUME NEW p \in Peripherals, NEW i \in DOMAIN world.needs[p],
             FirstServed(p, i), ~ (p = owner /\ i = need)
      PROVE  FirstServed(p, i)'
  <2> SUFFICES ASSUME NEW f \in Candidates(world, p, i, among) \ holds[p][i]
               PROVE  \/ taken'[f] \in 1..p
                      \/ ~ world.needs[p][i].many /\ \E e \in holds[p][i] : e < f
    BY <1>2, <1>4, <1>6 DEF FirstServed, among
  <2>1. f \in Endpoints
    BY <1>1, NeedShape DEF Candidates, Need, TypeOK
  <2>2. taken[f] \in 1..p => taken'[f] = taken[f]
    BY <2>1, <1>5 DEF Nobody
  <2> QED
    BY <2>2, <1>6 DEF FirstServed
<1>7. ASSUME NEW i \in DOMAIN world.needs[owner], i = need
      PROVE  FirstServed(owner, i)'
  <2> SUFFICES ASSUME NEW f \in Candidates(world, owner, need, among) \ C
               PROVE  \/ taken'[f] \in 1..owner
                      \/ ~ world.needs[owner][need].many /\ \E e \in C : e < f
    <3>1. holds'[owner][i] = C
      BY <1>2, <1>4, <1>7
    <3>2. world' = world /\ owner' = owner /\ among' = among
      BY <1>2 DEF among
    <3> HIDE DEF C
    <3> QED
      BY <3>1, <3>2, <1>7 DEF FirstServed
  <2>1. f \in Endpoints
    BY <1>1, <1>2, NeedShape DEF Candidates, Need, TypeOK
  <2>2. CASE taken[f] = Nobody
    BY <2>2, <1>1, <1>2, ChosenIsFirst DEF TypeOK, among
  <2>3. CASE taken[f] # Nobody
    <3>1. taken[f] \in Peripherals /\ taken[f] <= owner
      BY <2>1, <2>3, <1>1, TakersComeBefore
    <3> QED
      BY <2>1, <2>3, <3>1, <1>2, <1>5 DEF Peripherals
  <2> QED
    BY <2>2, <2>3
<1>8. \A p \in bound : p \in Peripherals /\ p # owner
  BY <1>1, <1>2 DEF BoundAreServed, TypeOK, Peripherals
<1>9. \A p \in bound : \A i \in DOMAIN world.needs[p] : FirstServed(p, i)'
  BY <1>1, <1>6, <1>8 DEF FirstsServed
<1>10. \A i \in DOMAIN world.needs[owner] : i < need + 1 => FirstServed(owner, i)'
  <2> SUFFICES ASSUME NEW i \in DOMAIN world.needs[owner], i < need + 1
               PROVE  FirstServed(owner, i)'
    OBVIOUS
  <2>1. CASE i # need
    <3>1. i \in Nat /\ need \in Nat
      BY <1>1, <1>2, NeedShape DEF TypeOK
    <3>2. i < need
      BY <2>1, <3>1
    <3>3. FirstServed(owner, i)
      BY <3>2, <1>1, <1>2 DEF FirstsServed
    <3> QED
      BY <2>1, <3>3, <1>2, <1>6
  <2>2. CASE i = need
    BY <2>2, <1>7
  <2> QED
    BY <2>1, <2>2
<1> QED
  BY <1>2, <1>9, <1>10 DEF FirstsServed

LEMMA NextFirsts == FInv /\ [Next]_vars => FInv'
<1> SUFFICES ASSUME FInv, [Next]_vars PROVE FInv'
  OBVIOUS
<1>1. GInv' /\ TypeOK /\ BoundAreServed /\ FirstsServed /\ Concluded
  BY NextGrounded DEF FInv, GInv, IInv
<1>2. CASE SkipUnwanted
  BY <1>1, <1>2, TurnFirsts DEF SkipUnwanted, NextOwner, FirstsServed
<1>3. CASE BindNeed
  BY <1>1, <1>3, BindNeedFirsts DEF FInv
<1>4. CASE FailOwner
  <2>1. \A p \in bound : p \in Peripherals /\ p < owner
    BY <1>1 DEF BoundAreServed, TypeOK
  <2>2. /\ owner \in Peripherals
        /\ holds' = [holds EXCEPT ![owner] = NoHolds[owner]]
        /\ taken' = GiveBack(owner, taken)
        /\ need' = 1
        /\ UNCHANGED <<world, alive, leftOut, bound>>
    BY <1>4 DEF FailOwner, IsBinding, NextOwner
  <2>3. \A p \in bound : holds'[p] = holds[p]
    BY <1>1, <2>1, <2>2 DEF TypeOK, Peripherals
  <2>4. \A p \in bound, f \in Endpoints : taken[f] \in 1..p => taken'[f] = taken[f]
    <3> SUFFICES ASSUME NEW p \in bound, NEW f \in Endpoints, taken[f] \in 1..p
                 PROVE  taken'[f] = taken[f]
      OBVIOUS
    <3>1. taken[f] # owner
      BY <2>1, <2>2 DEF Peripherals
    <3> QED
      BY <1>1, <2>2, <3>1, GiveBackFrees DEF TypeOK
  <2> QED
    BY <1>1, <2>2, <2>3, <2>4, TurnFirsts DEF FirstsServed
<1>5. CASE BindOwnerDone
  <2>1. /\ owner \in wanted /\ need \notin DOMAIN world.needs[owner]
        /\ world.needs[owner] \in Seq(Need) /\ need \in Nat \ {0}
    BY <1>1, <1>5 DEF TypeOK, World, BindOwnerDone, IsBinding
  <2>2. DOMAIN world.needs[owner] = 1..Len(world.needs[owner])
        /\ Len(world.needs[owner]) \in Nat
    BY <2>1
  <2>3. \A i \in DOMAIN world.needs[owner] : i < need
    BY <2>1, <2>2
  <2>4. \A i \in DOMAIN world.needs[owner] : FirstServed(owner, i)
    BY <1>1, <2>1, <2>3 DEF FirstsServed
  <2> QED
    BY <1>1, <1>5, <2>4, TurnFirsts DEF BindOwnerDone, NextOwner, FirstsServed
<1>6. CASE WidenWanted \/ LeaveOut
  <2>1. bound' = {} /\ need' = 1 /\ TypeOK'
    BY <1>1, <1>6 DEF WidenWanted, LeaveOut, NewRound, GInv, IInv
  <2>2. owner' \in wanted' => \A i \in DOMAIN world'.needs[owner'] : ~ (i < need')
    <3> SUFFICES ASSUME owner' \in wanted', NEW i \in DOMAIN world'.needs[owner']
                 PROVE  ~ (i < 1)
      BY <2>1
    <3>1. owner' \in Peripherals /\ world' \in World
      BY <2>1 DEF TypeOK
    <3> QED
      BY <3>1, NeedShape
  <2> QED
    BY <1>1, <2>1, <2>2 DEF FInv, FirstsServed
<1>7. CASE Conclude
  BY <1>1, <1>7 DEF Conclude, FInv, FirstsServed, FirstServed, among
<1>8. CASE UNCHANGED vars
  BY <1>1, <1>8 DEF vars, FInv, FirstsServed, FirstServed, among
<1> QED
  BY <1>2, <1>3, <1>4, <1>5, <1>6, <1>7, <1>8 DEF Next

\* In every world an endpoint goes to the first given that needs it: whoever lacks it
\* has an earlier one, or sees it with an owner before it.
THEOREM FirstComesFirst == Spec => []GivenFirstWins
<1>1. FInv => GivenFirstWins
  BY DEF FInv, FirstsServed, FirstServed, GivenFirstWins
<1> QED
  BY InitFirsts, NextFirsts, <1>1, PTL DEF Spec

-----------------------------------------------------------------------------
(* The rounds and the function.  What a recursive function computes is unfolded by an    *)
(* argument of its own for each form of recursion: by number, and along growing sets.    *)

\* What holds at first, and of each number if it holds of the one before, holds up to N.
LEMMA CountsUp ==
    ASSUME NEW N \in Nat, NEW T, 0 \in T, \A n \in 1..N : n - 1 \in T => n \in T
    PROVE  \A n \in 0..N : n \in T
<1> DEFINE Bad == {n \in 0..N : n \notin T}
<1> SUFFICES ASSUME Bad # {} PROVE FALSE
  OBVIOUS
<1>1. Bad \subseteq Nat
  OBVIOUS
<1>2. PICK m \in Bad : \A u \in Bad : m <= u
  <2> HIDE DEF Bad
  <2> QED
    BY <1>1, FirstIs
<1>3. m \in 1..N /\ m - 1 \in 0..N /\ m - 1 \notin Bad
  BY <1>2
<1> QED
  BY <1>2, <1>3

\* f is built from a by F, from one number to the next.
IsBuilt(f, N, V, a, F) ==
    f \in [0..N -> V] /\ f[0] = a /\ \A n \in 1..N : f[n] = F[<<n, f[n - 1]>>]

\* What is built from one number to the next exists.
LEMMA StepsUnfold ==
    ASSUME NEW N \in Nat, NEW V, NEW a \in V, NEW F \in [(1..N) \X V -> V]
    PROVE  \E f : IsBuilt(f, N, V, a, F)
<1> DEFINE Built(n, f) == f[0] = a /\ \A k \in 1..n : f[k] = F[<<k, f[k - 1]>>]
           T == {n \in 0..N : \E f \in [0..n -> V] : Built(n, f)}
<1>1. 0 \in T
  <2>1. [k \in 0..0 |-> a] \in [0..0 -> V] /\ Built(0, [k \in 0..0 |-> a]) /\ 0 \in 0..N
    OBVIOUS
  <2> HIDE DEF Built
  <2> QED
    BY <2>1
<1>2. ASSUME NEW m \in 1..N, m - 1 \in T
      PROVE  m \in T
  <2>1. PICK f \in [0..(m - 1) -> V] : Built(m - 1, f)
    BY <1>2
  <2>2. m - 1 \in 0..(m - 1) /\ f[m - 1] \in V /\ F[<<m, f[m - 1]>>] \in V
    BY <2>1
  <2> DEFINE g == [k \in 0..m |-> IF k = m THEN F[<<m, f[m - 1]>>] ELSE f[k]]
  <2>3. g \in [0..m -> V]
    BY <2>2
  <2>4. g[m] = F[<<m, f[m - 1]>>] /\ \A k \in 0..(m - 1) : g[k] = f[k]
    OBVIOUS
  <2>5. ASSUME NEW k \in 1..m PROVE g[k] = F[<<k, g[k - 1]>>]
    <3>1. k - 1 \in 0..(m - 1)
      OBVIOUS
    <3>2. CASE k = m
      <4> HIDE DEF g
      <4> QED
        BY <3>1, <3>2, <2>4
    <3>3. CASE k \in 1..(m - 1)
      <4>1. g[k] = f[k] /\ g[k - 1] = f[k - 1] /\ f[k] = F[<<k, f[k - 1]>>]
        BY <3>1, <3>3, <2>1, <2>4
      <4> HIDE DEF g
      <4> QED
        BY <4>1
    <3> QED
      BY <3>2, <3>3
  <2>6. g[0] = a
    BY <2>1, <2>4
  <2> HIDE DEF g
  <2> QED
    BY <2>3, <2>5, <2>6
<1>3. \A n \in 0..N : n \in T
  <2> HIDE DEF T
  <2> QED
    BY <1>1, <1>2, CountsUp
<1>4. PICK f \in [0..N -> V] : Built(N, f)
  BY <1>3
<1>5. IsBuilt(f, N, V, a, F)
  BY <1>4 DEF IsBuilt
<1> QED
  BY <1>5

\* Each one of D is an end, or there is a smaller one of D to go on with.
Shrinks(D, size, N, ends, next) ==
    \A x \in D : size[x] \in 0..N /\ (x \in ends \/ (next[x] \in D /\ size[next[x]] < size[x]))

\* f goes on from each one to the next until it ends.
GoesOn(f, D, ends, last, next) ==
    \A x \in D : f[x] = IF x \in ends THEN last[x] ELSE f[next[x]]

\* It is a function that does.
IsGoing(f, D, ends, last, next) ==
    DOMAIN f = D /\ GoesOn(f, D, ends, last, next) /\ f = [x \in D |-> f[x]]

\* What goes on to a smaller one, until it ends, exists.
LEMMA ShrinkingUnfolds ==
    ASSUME NEW N \in Nat, NEW D, NEW size, NEW ends, NEW last, NEW next,
           Shrinks(D, size, N, ends, next)
    PROVE  \E f : IsGoing(f, D, ends, last, next)
<1> DEFINE At(f, x) == IF x \in ends THEN last[x] ELSE f[next[x]]
           Small(n) == {x \in D : size[x] <= n}
           T == {n \in 0..N : \E f : f = [x \in Small(n) |-> At(f, x)]}
<1>1. \A x \in D : size[x] \in 0..N
  BY DEF Shrinks
<1>2. \A x \in D : x \notin ends => next[x] \in D /\ size[next[x]] < size[x]
  BY DEF Shrinks
<1>3. 0 \in T
  <2> DEFINE f == [x \in Small(0) |-> last[x]]
  <2>1. \A x \in Small(0) : x \in ends
    BY <1>1, <1>2
  <2>2. f = [x \in Small(0) |-> At(f, x)]
    <3> HIDE DEF Small
    <3> QED
      BY <2>1
  <2>3. 0 \in 0..N
    OBVIOUS
  <2> HIDE DEF f, At, Small
  <2> QED
    BY <2>2, <2>3
<1>4. ASSUME NEW m \in 1..N, m - 1 \in T
      PROVE  m \in T
  <2>1. PICK f : f = [x \in Small(m - 1) |-> At(f, x)]
    BY <1>4
  <2> DEFINE g == [x \in Small(m) |-> At(f, x)]
  <2>2. \A x \in Small(m) : x \notin ends => next[x] \in Small(m - 1)
    BY <1>1, <1>2
  <2>3. \A x \in Small(m - 1) : x \in Small(m) /\ g[x] = f[x]
    <3>1. \A x \in Small(m - 1) : x \in Small(m)
      BY <1>1
    <3>2. \A x \in Small(m - 1) : f[x] = At(f, x)
      <4> HIDE DEF At, Small
      <4> QED
        BY <2>1
    <3> HIDE DEF At, Small
    <3> QED
      BY <3>1, <3>2
  <2>4. ASSUME NEW x \in Small(m)
        PROVE  At(f, x) = At(g, x)
    <3>1. x \notin ends => g[next[x]] = f[next[x]]
      <4> HIDE DEF g, Small
      <4> QED
        BY <2>2, <2>3
    <3> HIDE DEF g, Small
    <3> QED
      BY <3>1
  <2>5. g = [x \in Small(m) |-> At(g, x)]
    <3>1. g = [x \in Small(m) |-> At(f, x)]
      OBVIOUS
    <3> HIDE DEF g, At, Small
    <3> QED
      BY <3>1, <2>4
  <2>6. m \in 0..N
    OBVIOUS
  <2> HIDE DEF g, At, Small
  <2> QED
    BY <2>5, <2>6
<1>5. N \in T
  <2> HIDE DEF T
  <2>1. \A n \in 0..N : n \in T
    BY <1>3, <1>4, CountsUp
  <2> QED
    BY <2>1
<1>6. Small(N) = D
  BY <1>1
<1>7. PICK f : f = [x \in Small(N) |-> At(f, x)]
  BY <1>5
<1>8. f = [x \in D |-> At(f, x)]
  <2> HIDE DEF Small, At
  <2> QED
    BY <1>6, <1>7
<1>9. DOMAIN f = D /\ f = [x \in D |-> f[x]] /\ \A x \in D : f[x] = At(f, x)
  <2> HIDE DEF At
  <2> QED
    BY <1>8
<1> QED
  BY <1>9 DEF GoesOn, IsGoing

\* It is what an end gives.
LEMMA ShrinkingEnds ==
    ASSUME NEW N \in Nat, NEW D, NEW size, NEW ends, NEW last, NEW next,
           Shrinks(D, size, N, ends, next), NEW f, GoesOn(f, D, ends, last, next)
    PROVE  \A x \in D : \E y \in D : y \in ends /\ f[x] = last[y]
<1> DEFINE Fine(x) == \E y \in D : y \in ends /\ f[x] = last[y]
           T == {n \in 0..N : \A x \in D : size[x] <= n => Fine(x)}
<1>1. \A x \in D : size[x] \in 0..N
  BY DEF Shrinks
<1>2. \A x \in D : x \notin ends => next[x] \in D /\ size[next[x]] < size[x]
  BY DEF Shrinks
<1>3. \A x \in D : x \in ends => Fine(x)
  BY DEF GoesOn
<1>4. \A x \in D : x \notin ends /\ Fine(next[x]) => Fine(x)
  BY DEF GoesOn
<1> HIDE DEF Fine
<1>5. 0 \in T
  <2>1. \A x \in D : size[x] <= 0 => x \in ends
    BY <1>1, <1>2
  <2> QED
    BY <2>1, <1>3
<1>6. ASSUME NEW m \in 1..N, m - 1 \in T
      PROVE  m \in T
  <2>1. \A x \in D : size[x] <= m /\ x \notin ends => next[x] \in D /\ size[next[x]] <= m - 1
    BY <1>1, <1>2
  <2>2. \A x \in D : size[x] <= m => Fine(x)
    BY <2>1, <1>3, <1>4, <1>6
  <2> QED
    BY <2>2
<1>7. N \in T
  <2> HIDE DEF T
  <2>1. \A n \in 0..N : n \in T
    BY <1>5, <1>6, CountsUp
  <2> QED
    BY <2>1
<1>8. \A x \in D : Fine(x)
  BY <1>1, <1>7
<1> QED
  BY <1>8 DEF Fine

\* Each set of G is an end, or there is a larger one to go on with.
Grows(G, ends, next) ==
    \A S \in G : S \in ends \/ (next[S] \in G /\ S \subseteq next[S] /\ next[S] # S)

\* How much of P a set lacks.
Lacks(P) == [S \in SUBSET P |-> Cardinality(P \ S)]

\* The larger set lacks less.
LEMMA LargerLacksLess ==
    ASSUME NEW P, IsFiniteSet(P), NEW S \in SUBSET P, NEW L \in SUBSET P, S \subseteq L
    PROVE  /\ Lacks(P)[S] \in 0..Cardinality(P) /\ Lacks(P)[L] \in 0..Cardinality(P)
           /\ Lacks(P)[L] <= Lacks(P)[S]
           /\ S # L => Lacks(P)[L] < Lacks(P)[S]
<1> DEFINE A == P \ S
           B == P \ L
           N == Cardinality(P)
<1>1. A \in SUBSET P /\ B \in SUBSET A /\ (S # L => B # A)
  OBVIOUS
<1>2. Lacks(P)[S] = Cardinality(A) /\ Lacks(P)[L] = Cardinality(B)
  BY DEF Lacks
<1> HIDE DEF A, B
<1>3. IsFiniteSet(A) /\ Cardinality(A) <= N
  BY <1>1, FS_Subset
<1>4. /\ IsFiniteSet(B) /\ Cardinality(B) <= Cardinality(A)
      /\ Cardinality(B) = Cardinality(A) => B = A
  BY <1>1, <1>3, FS_Subset
<1>5. N \in Nat /\ Cardinality(A) \in Nat /\ Cardinality(B) \in Nat
  BY <1>3, <1>4, FS_CardinalityType
<1> HIDE DEF N
<1>6. /\ Cardinality(A) \in 0..N /\ Cardinality(B) \in 0..N
      /\ A # B => Cardinality(B) < Cardinality(A)
  BY <1>3, <1>4, <1>5
<1> QED
  BY <1>1, <1>2, <1>4, <1>6 DEF N

\* What grows comes closer to all of it.
LEMMA GrowthShrinks ==
    ASSUME NEW P, IsFiniteSet(P), NEW ends, NEW next, NEW G \in SUBSET (SUBSET P),
           Grows(G, ends, next)
    PROVE  Cardinality(P) \in Nat /\ Shrinks(G, Lacks(P), Cardinality(P), ends, next)
<1>1. ASSUME NEW S \in G
      PROVE  /\ Lacks(P)[S] \in 0..Cardinality(P)
             /\ S \in ends \/ (next[S] \in G /\ Lacks(P)[next[S]] < Lacks(P)[S])
  <2>1. S \in SUBSET P /\ Lacks(P)[S] \in 0..Cardinality(P)
    BY LargerLacksLess
  <2>2. CASE S \notin ends
    <3>1. next[S] \in G /\ next[S] \in SUBSET P /\ S \subseteq next[S] /\ next[S] # S
      BY <2>2 DEF Grows
    <3>2. Lacks(P)[next[S]] < Lacks(P)[S]
      BY <2>1, <3>1, LargerLacksLess
    <3> QED
      BY <2>1, <3>1, <3>2
  <2> QED
    BY <2>1, <2>2
<1>2. Cardinality(P) \in Nat
  BY FS_CardinalityType
<1> QED
  BY <1>1, <1>2 DEF Shrinks

\* What goes on from a set to a larger one, until it ends, exists.
LEMMA GrowthUnfolds ==
    ASSUME NEW P, IsFiniteSet(P), NEW ends, NEW last, NEW next, Grows(SUBSET P, ends, next)
    PROVE  \E f : IsGoing(f, SUBSET P, ends, last, next)
<1> DEFINE D == SUBSET P
           N == Cardinality(P)
           size == Lacks(P)
<1>1. D \in SUBSET D
  OBVIOUS
<1>2. N \in Nat /\ Shrinks(D, size, N, ends, next)
  BY <1>1, GrowthShrinks
<1> HIDE DEF D, N, size
<1>3. \E f : IsGoing(f, D, ends, last, next)
  BY <1>2, ShrinkingUnfolds
<1> QED
  BY <1>3 DEF D

\* What a growth ends in.
LEMMA GrowthEnds ==
    ASSUME NEW P, IsFiniteSet(P), NEW ends, NEW last, NEW next, NEW G \in SUBSET (SUBSET P),
           Grows(G, ends, next), NEW f, GoesOn(f, G, ends, last, next)
    PROVE  \A S \in G : \E X \in G : X \in ends /\ f[S] = last[X]
<1> DEFINE N == Cardinality(P)
           size == Lacks(P)
<1>1. N \in Nat /\ Shrinks(G, size, N, ends, next)
  BY GrowthShrinks
<1> HIDE DEF N, size
<1> QED
  BY <1>1, ShrinkingEnds

-----------------------------------------------------------------------------
(* Resolve, unfolded. *)

\* What those of S provide.
Provided(w, S) == {e \in Endpoints : w.provider[e] \in S}

Takers == [Endpoints -> Peripherals \cup {Nobody}]

\* The turn of an owner so far.
Turn(w, p, S) ==
    [bound : BOOLEAN, holds : [DOMAIN w.needs[p] -> SUBSET Provided(w, S)], taken : Takers]

\* The turns of BindOwner, need by need.
OwnerUpTo(w, p, S, before) ==
    LET upTo[n \in 0..Len(w.needs[p])] ==
            IF n = 0 THEN [bound |-> TRUE, holds |-> Unbound(w, p), taken |-> before]
            ELSE BindNext(w, p, n, S, upTo[n - 1])
    IN  upTo

\* One more need leaves a turn a turn.
LEMMA TurnGoesOn ==
    ASSUME NEW w \in World, NEW p \in Peripherals, NEW S \in SUBSET Peripherals,
           NEW so \in Turn(w, p, S), NEW i \in DOMAIN w.needs[p]
    PROVE  BindNext(w, p, i, S, so) \in Turn(w, p, S)
<1> DEFINE C == Chosen(w, p, i, S, so.taken)
<1>1. /\ so.taken \in Takers /\ so.bound \in BOOLEAN
      /\ so.holds \in [DOMAIN w.needs[p] -> SUBSET Provided(w, S)]
  BY DEF Turn
<1>2. C \subseteq Endpoints /\ \A e \in C : w.provider[e] \in S
  BY <1>1, ChosenIsFree DEF Takers
<1> HIDE DEF C
<1>3. C \subseteq Provided(w, S)
  BY <1>2 DEF Provided
<1>4. Take(w, p, C, so.taken) \in Takers /\ GiveBack(p, so.taken) \in Takers
  BY <1>1, <1>2, TakeMarks, GiveBackFrees DEF Takers
<1>5. /\ Unbound(w, p) \in [DOMAIN w.needs[p] -> SUBSET Provided(w, S)]
      /\ [so.holds EXCEPT ![i] = C] \in [DOMAIN w.needs[p] -> SUBSET Provided(w, S)]
  BY <1>1, <1>3 DEF Unbound
<1>6. BindNext(w, p, i, S, so) = BindTo(w, p, i, C, so)
  BY DEF BindNext, C
<1> QED
  BY <1>4, <1>5, <1>6 DEF BindTo, Turn

\* The turn of an owner, need by need.
LEMMA TurnUnfolds ==
    ASSUME NEW w \in World, NEW p \in Peripherals, NEW S \in SUBSET Peripherals,
           NEW before \in Takers
    PROVE  LET v == OwnerUpTo(w, p, S, before)
           IN  /\ v[0] = [bound |-> TRUE, holds |-> Unbound(w, p), taken |-> before]
               /\ \A n \in 1..Len(w.needs[p]) : v[n] = BindNext(w, p, n, S, v[n - 1])
               /\ \A n \in 0..Len(w.needs[p]) : v[n] \in Turn(w, p, S)
               /\ BindOwner(w, p, S, before) = v[Len(w.needs[p])]
<1> DEFINE N == Len(w.needs[p])
           V == Turn(w, p, S)
           a == [bound |-> TRUE, holds |-> Unbound(w, p), taken |-> before]
           F == [x \in (1..N) \X V |-> BindNext(w, p, x[1], S, x[2])]
           At(f, n) == IF n = 0 THEN a ELSE BindNext(w, p, n, S, f[n - 1])
           v == OwnerUpTo(w, p, S, before)
<1>1. N \in Nat /\ DOMAIN w.needs[p] = 1..N
  <2>1. w.needs[p] \in Seq(Need)
    BY DEF World
  <2> QED
    BY <2>1
<1>2. a \in V
  <2>1. Unbound(w, p) \in [DOMAIN w.needs[p] -> SUBSET Provided(w, S)]
    BY DEF Unbound
  <2> QED
    BY <2>1 DEF Turn
<1>3. v = CHOOSE f : f = [n \in 0..N |-> At(f, n)]
  BY DEF OwnerUpTo
<1> HIDE DEF N, V, a, v
<1>4. \A n \in 1..N, so \in V : BindNext(w, p, n, S, so) \in V
  BY <1>1, TurnGoesOn DEF V
<1>5. F \in [(1..N) \X V -> V]
  BY <1>4
<1>6. PICK f \in [0..N -> V] : f[0] = a /\ \A n \in 1..N : f[n] = F[<<n, f[n - 1]>>]
  <2> HIDE DEF F
  <2>1. N \in Nat
    BY <1>1
  <2>2. PICK f : IsBuilt(f, N, V, a, F)
    BY <2>1, <1>2, <1>5, StepsUnfold
  <2> QED
    BY <2>2 DEF IsBuilt
<1>7. ASSUME NEW n \in 0..N PROVE f[n] = At(f, n)
  <2>1. CASE n = 0
    BY <2>1, <1>6
  <2>2. CASE n # 0
    <3>1. n \in 1..N /\ n - 1 \in 0..N
      BY <2>2, <1>1
    <3>2. f[n - 1] \in V /\ f[n] = F[<<n, f[n - 1]>>]
      BY <3>1, <1>6
    <3>3. F[<<n, f[n - 1]>>] = BindNext(w, p, n, S, f[n - 1])
      BY <3>1, <3>2
    <3> HIDE DEF F
    <3> QED
      BY <2>2, <3>2, <3>3
  <2> QED
    BY <2>1, <2>2
<1>8. f = [n \in 0..N |-> At(f, n)]
  <2> HIDE DEF At
  <2> QED
    BY <1>6, <1>7
<1>9. v = [n \in 0..N |-> At(v, n)]
  <2> HIDE DEF At
  <2> QED
    BY <1>3, <1>8
<1>10. \A n \in 0..N : v[n] = At(v, n)
  <2> HIDE DEF At
  <2> QED
    BY <1>9
<1>11. v[0] = a /\ \A n \in 1..N : v[n] = BindNext(w, p, n, S, v[n - 1])
  <2>1. 0 \in 0..N /\ \A n \in 1..N : n \in 0..N /\ n # 0
    BY <1>1
  <2> QED
    BY <2>1, <1>10
<1>12. \A n \in 0..N : v[n] \in V
  <2> DEFINE T == {n \in 0..N : v[n] \in V}
  <2>1. 0 \in T
    BY <1>1, <1>2, <1>11
  <2>2. \A n \in 1..N : n - 1 \in T => n \in T
    BY <1>1, <1>4, <1>11
  <2> HIDE DEF T
  <2>3. \A n \in 0..N : n \in T
    BY <1>1, <2>1, <2>2, CountsUp
  <2> QED
    BY <2>3 DEF T
<1>13. BindOwner(w, p, S, before) = v[N]
  BY DEF BindOwner, OwnerUpTo, v, N
<1> QED
  BY <1>11, <1>12, <1>13 DEF N, V, a, v

\* A turn starts with nothing bound.
LEMMA TurnStarts ==
    ASSUME NEW w \in World, NEW p \in Peripherals, NEW S \in SUBSET Peripherals,
           NEW before \in Takers
    PROVE  OwnerUpTo(w, p, S, before)[0] =
               [bound |-> TRUE, holds |-> Unbound(w, p), taken |-> before]
BY TurnUnfolds

\* A turn goes on with the next need.
LEMMA TurnNext ==
    ASSUME NEW w \in World, NEW p \in Peripherals, NEW S \in SUBSET Peripherals,
           NEW before \in Takers, NEW n \in 1..Len(w.needs[p])
    PROVE  OwnerUpTo(w, p, S, before)[n] =
               BindNext(w, p, n, S, OwnerUpTo(w, p, S, before)[n - 1])
BY TurnUnfolds

\* What an owner may hold.
Holdings(w, S) == UNION {[D -> SUBSET Provided(w, S)] : D \in {DOMAIN w.needs[p] : p \in Peripherals}}

\* A round so far.
SoFar(w, S) ==
    {so \in [bound : SUBSET Peripherals, holds : [Peripherals -> Holdings(w, S)], taken : Takers] :
        \A p \in Peripherals : so.holds[p] \in [DOMAIN w.needs[p] -> SUBSET Provided(w, S)]}

\* The turns of Bind, owner by owner.
BindUpTo(w, W, S) ==
    LET upTo[n \in 0..NumPeripherals] ==
            IF n = 0 THEN [bound |-> {}, holds |-> [p \in Peripherals |-> Unbound(w, p)],
                           taken |-> NoTakers]
            ELSE IF n \in W THEN AddOwner(w, n, S, upTo[n - 1])
            ELSE upTo[n - 1]
    IN  upTo

\* A round is one when each part of it is.
LEMMA RoundParts ==
    ASSUME NEW w, NEW S, NEW b \in SUBSET Peripherals, NEW t \in Takers, NEW h,
           h = [p \in Peripherals |-> h[p]],
           \A p \in Peripherals : h[p] \in [DOMAIN w.needs[p] -> SUBSET Provided(w, S)]
    PROVE  [bound |-> b, holds |-> h, taken |-> t] \in SoFar(w, S)
<1>1. \A p \in Peripherals : h[p] \in Holdings(w, S)
  BY DEF Holdings
<1>2. h \in [Peripherals -> Holdings(w, S)]
  <2> HIDE DEF Holdings
  <2> QED
    BY <1>1
<1> DEFINE so == [bound |-> b, holds |-> h, taken |-> t]
<1>3. so \in [bound : SUBSET Peripherals, holds : [Peripherals -> Holdings(w, S)], taken : Takers]
  BY <1>2
<1>4. so.holds = h
  OBVIOUS
<1> HIDE DEF so
<1>5. so \in SoFar(w, S)
  BY <1>3, <1>4 DEF SoFar
<1> QED
  BY <1>5 DEF so

\* One more owner leaves a round a round.
LEMMA RoundGoesOn ==
    ASSUME NEW w \in World, NEW p \in Peripherals, NEW S \in SUBSET Peripherals,
           NEW so \in SoFar(w, S)
    PROVE  AddOwner(w, p, S, so) \in SoFar(w, S)
<1> DEFINE v == OwnerUpTo(w, p, S, so.taken)
           mine == BindOwner(w, p, S, so.taken)
<1>1. /\ so.bound \in SUBSET Peripherals /\ so.taken \in Takers
      /\ DOMAIN so.holds = Peripherals
      /\ \A q \in Peripherals : so.holds[q] \in [DOMAIN w.needs[q] -> SUBSET Provided(w, S)]
  BY DEF SoFar
<1>2. mine \in Turn(w, p, S)
  <2>1. Len(w.needs[p]) \in 0..Len(w.needs[p])
    <3>1. w.needs[p] \in Seq(Need)
      BY DEF World
    <3> QED
      BY <3>1
  <2>2. \A n \in 0..Len(w.needs[p]) : v[n] \in Turn(w, p, S)
    BY <1>1, TurnUnfolds
  <2>3. mine = v[Len(w.needs[p])]
    BY DEF BindOwner, OwnerUpTo
  <2> HIDE DEF mine, v
  <2> QED
    BY <2>1, <2>2, <2>3
<1> HIDE DEF mine
<1>3. /\ mine.taken \in Takers
      /\ mine.holds \in [DOMAIN w.needs[p] -> SUBSET Provided(w, S)]
  BY <1>2 DEF Turn
<1> DEFINE h == [so.holds EXCEPT ![p] = mine.holds]
           b == IF mine.bound THEN so.bound \cup {p} ELSE so.bound
<1>4. b \in SUBSET Peripherals
  BY <1>1
<1>5. h = [q \in Peripherals |-> h[q]]
  BY <1>1
<1>6. \A q \in Peripherals : h[q] \in [DOMAIN w.needs[q] -> SUBSET Provided(w, S)]
  BY <1>1, <1>3
<1>7. AddOwner(w, p, S, so) = [bound |-> b, holds |-> h, taken |-> mine.taken]
  BY DEF AddOwner, Added, mine
<1> HIDE DEF b, h
<1>8. [bound |-> b, holds |-> h, taken |-> mine.taken] \in SoFar(w, S)
  <2> DEFINE t == mine.taken
  <2>1. t \in Takers
    BY <1>3
  <2> HIDE DEF t
  <2>2. [bound |-> b, holds |-> h, taken |-> t] \in SoFar(w, S)
    BY <2>1, <1>4, <1>5, <1>6, RoundParts
  <2> QED
    BY <2>2 DEF t
<1> QED
  BY <1>7, <1>8

\* Nobody had a turn yet.
NoneBound(w) ==
    [bound |-> {}, holds |-> [p \in Peripherals |-> Unbound(w, p)], taken |-> NoTakers]

\* A round, owner by owner.
LEMMA RoundUnfolds ==
    ASSUME NEW w \in World, NEW W \in SUBSET Peripherals, NEW S \in SUBSET Peripherals
    PROVE  LET u == BindUpTo(w, W, S)
           IN  /\ u[0] = NoneBound(w)
               /\ \A n \in Peripherals :
                     u[n] = IF n \in W THEN AddOwner(w, n, S, u[n - 1]) ELSE u[n - 1]
               /\ \A n \in 0..NumPeripherals : u[n] \in SoFar(w, S)
               /\ Bind(w, W, S) = u[NumPeripherals]
<1> DEFINE N == NumPeripherals
           V == SoFar(w, S)
           a == [bound |-> {}, holds |-> [p \in Peripherals |-> Unbound(w, p)], taken |-> NoTakers]
           Go(n, so) == IF n \in W THEN AddOwner(w, n, S, so) ELSE so
           F == [x \in (1..N) \X V |-> Go(x[1], x[2])]
           At(f, n) == IF n = 0 THEN a ELSE Go(n, f[n - 1])
           u == BindUpTo(w, W, S)
<1>1. N \in Nat /\ Peripherals = 1..N
  BY NumAssumption DEF Peripherals
<1>2. a \in V
  <2> DEFINE h == [p \in Peripherals |-> Unbound(w, p)]
  <2>1. \A p \in Peripherals : h[p] \in [DOMAIN w.needs[p] -> SUBSET Provided(w, S)]
    BY DEF Unbound
  <2>2. NoTakers \in Takers /\ {} \in SUBSET Peripherals
    BY DEF NoTakers, Takers
  <2>3. h = [p \in Peripherals |-> h[p]]
    OBVIOUS
  <2> HIDE DEF h
  <2>4. [bound |-> {}, holds |-> h, taken |-> NoTakers] \in SoFar(w, S)
    BY <2>1, <2>2, <2>3, RoundParts
  <2> QED
    BY <2>4 DEF h
<1>3. u = CHOOSE f : f = [n \in 0..N |-> At(f, n)]
  BY DEF BindUpTo
<1>4. \A n \in 1..N, so \in V : Go(n, so) \in V
  BY <1>1, RoundGoesOn
<1> HIDE DEF N, V, a, u, Go
<1>5. F \in [(1..N) \X V -> V]
  BY <1>4
<1>6. PICK f \in [0..N -> V] : f[0] = a /\ \A n \in 1..N : f[n] = F[<<n, f[n - 1]>>]
  <2> HIDE DEF F
  <2>1. N \in Nat
    BY <1>1
  <2>2. PICK f : IsBuilt(f, N, V, a, F)
    BY <2>1, <1>2, <1>5, StepsUnfold
  <2> QED
    BY <2>2 DEF IsBuilt
<1>7. ASSUME NEW n \in 0..N PROVE f[n] = At(f, n)
  <2>1. CASE n = 0
    BY <2>1, <1>6
  <2>2. CASE n # 0
    <3>1. n \in 1..N /\ n - 1 \in 0..N
      BY <2>2, <1>1
    <3>2. f[n - 1] \in V /\ f[n] = F[<<n, f[n - 1]>>]
      BY <3>1, <1>6
    <3>3. F[<<n, f[n - 1]>>] = Go(n, f[n - 1])
      BY <3>1, <3>2
    <3> HIDE DEF F
    <3> QED
      BY <2>2, <3>2, <3>3
  <2> QED
    BY <2>1, <2>2
<1>8. f = [n \in 0..N |-> At(f, n)]
  <2> HIDE DEF At
  <2> QED
    BY <1>6, <1>7
<1>9. u = [n \in 0..N |-> At(u, n)]
  <2> HIDE DEF At
  <2> QED
    BY <1>3, <1>8
<1>10. \A n \in 0..N : u[n] = At(u, n)
  <2> HIDE DEF At
  <2> QED
    BY <1>9
<1>11. u[0] = a /\ \A n \in 1..N : u[n] = Go(n, u[n - 1])
  <2>1. 0 \in 0..N /\ \A n \in 1..N : n \in 0..N /\ n # 0
    BY <1>1
  <2> QED
    BY <2>1, <1>10
<1>12. \A n \in 0..N : u[n] \in V
  <2> DEFINE T == {n \in 0..N : u[n] \in V}
  <2>1. 0 \in T
    BY <1>1, <1>2, <1>11
  <2>2. \A n \in 1..N : n - 1 \in T => n \in T
    BY <1>1, <1>4, <1>11
  <2> HIDE DEF T
  <2>3. \A n \in 0..N : n \in T
    BY <1>1, <2>1, <2>2, CountsUp
  <2> QED
    BY <2>3 DEF T
<1>13. Bind(w, W, S) = u[N]
  BY DEF Bind, BindUpTo, u, N
<1> QED
  BY <1>1, <1>11, <1>12, <1>13 DEF N, V, a, u, Go, NoneBound

\* What a round binds is provided by those that may serve.
LEMMA UsedMayServe ==
    ASSUME NEW w \in World, NEW W \in SUBSET Peripherals, NEW S \in SUBSET Peripherals
    PROVE  Used(w, Bind(w, W, S)) \subseteq S
<1> DEFINE b == Bind(w, W, S)
<1>1. b \in SoFar(w, S)
  <2> DEFINE u == BindUpTo(w, W, S)
  <2>1. \A n \in 0..NumPeripherals : u[n] \in SoFar(w, S)
    BY RoundUnfolds
  <2>2. b = u[NumPeripherals]
    BY RoundUnfolds
  <2>3. NumPeripherals \in 0..NumPeripherals
    BY NumAssumption
  <2> HIDE DEF b, u
  <2> QED
    BY <2>1, <2>2, <2>3
<1> HIDE DEF b
<1>2. /\ b.bound \subseteq Peripherals
      /\ \A p \in Peripherals : b.holds[p] \in [DOMAIN w.needs[p] -> SUBSET Provided(w, S)]
  BY <1>1 DEF SoFar
<1>3. \A p \in b.bound : HeldBy(b.holds, p) \subseteq Provided(w, S)
  BY <1>2 DEF HeldBy
<1>4. \A e \in Provided(w, S) : w.provider[e] \in S
  BY DEF Provided
<1> QED
  BY <1>3, <1>4 DEF Used, b

\* Widen, from any set of wanted ones.
From(w, S) ==
    LET from[wide \in SUBSET Peripherals] ==
            LET b == Bind(w, wide, S)
            IN  IF Used(w, b) \subseteq wide THEN [wanted |-> wide, bind |-> b]
                ELSE from[wide \cup Used(w, b)]
    IN  from

\* The peripherals are finitely many.
LEMMA FinitelyMany == IsFiniteSet(Peripherals)
BY NumAssumption, FS_Interval DEF Peripherals

\* Widening, step by step, and what it ends in: among those that may serve.
LEMMA WidenUnfolds ==
    ASSUME NEW w \in World, NEW S \in SUBSET Peripherals
    PROVE  LET f == From(w, S)
           IN  /\ \A W \in SUBSET Peripherals :
                     f[W] = IF Used(w, Bind(w, W, S)) \subseteq W
                            THEN [wanted |-> W, bind |-> Bind(w, W, S)]
                            ELSE f[W \cup Used(w, Bind(w, W, S))]
               /\ \A W \in SUBSET S : \E X \in SUBSET S :
                     /\ Used(w, Bind(w, X, S)) \subseteq X
                     /\ f[W] = [wanted |-> X, bind |-> Bind(w, X, S)]
               /\ Widen(w, S) = f[S \ w.onDemand]
<1> DEFINE P == Peripherals
           U(W) == Used(w, Bind(w, W, S))
           ends == {W \in SUBSET P : U(W) \subseteq W}
           last == [W \in SUBSET P |-> [wanted |-> W, bind |-> Bind(w, W, S)]]
           next == [W \in SUBSET P |-> W \cup U(W)]
           At(f, W) == IF U(W) \subseteq W THEN [wanted |-> W, bind |-> Bind(w, W, S)]
                       ELSE f[W \cup U(W)]
           r == From(w, S)
<1>1. \A W \in SUBSET P : U(W) \subseteq S
  BY UsedMayServe
<1>2. r = CHOOSE f : f = [W \in SUBSET P |-> At(f, W)]
  BY DEF From
<1>3. Widen(w, S) = r[S \ w.onDemand]
  BY DEF Widen, From
<1> HIDE DEF U, r
<1>4. Grows(SUBSET P, ends, next)
  BY <1>1 DEF Grows
<1>5. \A W \in SUBSET P : /\ W \in ends <=> U(W) \subseteq W
                          /\ next[W] = W \cup U(W)
                          /\ last[W] = [wanted |-> W, bind |-> Bind(w, W, S)]
  OBVIOUS
<1> HIDE DEF ends, next, last
<1>6. PICK f : IsGoing(f, SUBSET P, ends, last, next)
  <2>1. IsFiniteSet(P)
    BY FinitelyMany
  <2> HIDE DEF P
  <2> QED
    BY <2>1, <1>4, GrowthUnfolds
<1>7. f = [W \in SUBSET P |-> At(f, W)]
  <2>1. \A W \in SUBSET P : f[W] = At(f, W)
    BY <1>5, <1>6 DEF GoesOn, IsGoing
  <2> HIDE DEF At, P
  <2> QED
    BY <1>6, <2>1 DEF IsGoing
<1>8. r = [W \in SUBSET P |-> At(r, W)]
  <2> HIDE DEF At, P
  <2> QED
    BY <1>2, <1>7
<1>9. \A W \in SUBSET P : r[W] = At(r, W)
  <2> HIDE DEF At, P
  <2> QED
    BY <1>8
<1>10. ASSUME NEW W \in SUBSET S
       PROVE  \E X \in SUBSET S : U(X) \subseteq X /\ r[W] = [wanted |-> X, bind |-> Bind(w, X, S)]
  <2> DEFINE G == SUBSET S
  <2>1. IsFiniteSet(P) /\ G \in SUBSET (SUBSET P) /\ W \in G
    BY FinitelyMany
  <2>2. Grows(G, ends, next)
    <3>1. ASSUME NEW V \in G, V \notin ends
          PROVE  next[V] \in G /\ V \subseteq next[V] /\ next[V] # V
      <4>1. V \in SUBSET S /\ V \in SUBSET P
        BY <2>1
      <4>2. U(V) \subseteq S /\ ~ (U(V) \subseteq V) /\ next[V] = V \cup U(V)
        BY <3>1, <4>1, <1>1, <1>5
      <4> QED
        BY <4>1, <4>2
    <3> HIDE DEF G
    <3> QED
      BY <3>1 DEF Grows
  <2>3. GoesOn(r, G, ends, last, next)
    BY <2>1, <1>5, <1>9 DEF GoesOn
  <2>4. \A V \in G : V \in SUBSET S /\ last[V] = [wanted |-> V, bind |-> Bind(w, V, S)]
    BY <2>1, <1>5
  <2> HIDE DEF G, P
  <2>5. PICK X \in G : X \in ends /\ r[W] = last[X]
    BY <2>1, <2>2, <2>3, GrowthEnds
  <2>6. last[X] = [wanted |-> X, bind |-> Bind(w, X, S)]
    BY <2>4
  <2>7. X \in SUBSET S /\ X \in SUBSET P
    BY <2>4, <2>5 DEF P
  <2>8. U(X) \subseteq X
    BY <2>5, <2>7, <1>5
  <2> QED
    BY <2>5, <2>6, <2>7, <2>8
<1> QED
  BY <1>3, <1>9, <1>10 DEF r, U

\* Widening ends with all that is used wanted.
LEMMA WidenEnds ==
    ASSUME NEW w \in World, NEW S \in SUBSET Peripherals
    PROVE  \E X \in SUBSET S : /\ Used(w, Bind(w, X, S)) \subseteq X
                              /\ Widen(w, S) = [wanted |-> X, bind |-> Bind(w, X, S)]
<1> DEFINE f == From(w, S)
           W == S \ w.onDemand
<1>1. \A V \in SUBSET S : \E X \in SUBSET S :
          /\ Used(w, Bind(w, X, S)) \subseteq X
          /\ f[V] = [wanted |-> X, bind |-> Bind(w, X, S)]
  BY WidenUnfolds
<1>2. Widen(w, S) = f[W] /\ W \in SUBSET S
  BY WidenUnfolds
<1> HIDE DEF f, W
<1> QED
  BY <1>1, <1>2

\* Resolve, from any set of those left out.
Without(w, alive_) ==
    LET without[out \in SUBSET Peripherals] ==
            LET r == Widen(w, alive_ \ out)
                unbound == r.wanted \ r.bind.bound
            IN  IF unbound = {}
                THEN [wanted |-> r.wanted, holds |-> r.bind.holds, taken |-> r.bind.taken]
                ELSE without[out \cup unbound]
    IN  without

\* Leaving out, step by step.
LEMMA ResolveUnfolds ==
    ASSUME NEW w \in World, NEW A \in SUBSET Peripherals
    PROVE  LET f == Without(w, A)
           IN  /\ \A L \in SUBSET Peripherals :
                     LET r == Widen(w, A \ L)
                     IN  f[L] = IF r.wanted \ r.bind.bound = {}
                                THEN [wanted |-> r.wanted, holds |-> r.bind.holds,
                                      taken |-> r.bind.taken]
                                ELSE f[L \cup (r.wanted \ r.bind.bound)]
               /\ Resolve(w, A) = f[{}]
<1> DEFINE P == Peripherals
           R(L) == Widen(w, A \ L)
           Left(L) == R(L).wanted \ R(L).bind.bound
           End(L) == [wanted |-> R(L).wanted, holds |-> R(L).bind.holds, taken |-> R(L).bind.taken]
           ends == {L \in SUBSET P : Left(L) = {}}
           last == [L \in SUBSET P |-> End(L)]
           next == [L \in SUBSET P |-> L \cup Left(L)]
           At(f, L) == IF Left(L) = {} THEN End(L) ELSE f[L \cup Left(L)]
           r == Without(w, A)
<1>1. ASSUME NEW L \in SUBSET P PROVE Left(L) \subseteq A \ L
  <2>1. PICK X \in SUBSET (A \ L) : Widen(w, A \ L) = [wanted |-> X, bind |-> Bind(w, X, A \ L)]
    BY WidenEnds
  <2> QED
    BY <2>1
<1>2. r = CHOOSE f : f = [L \in SUBSET P |-> At(f, L)]
  BY DEF Without
<1>3. Resolve(w, A) = r[{}]
  BY DEF Resolve, Without
<1> HIDE DEF Left, End, r
<1>4. \A L \in SUBSET P : /\ L \in ends <=> Left(L) = {}
                          /\ next[L] = L \cup Left(L)
                          /\ last[L] = End(L)
  OBVIOUS
<1> HIDE DEF ends, next, last
<1>5. Grows(SUBSET P, ends, next)
  BY <1>1, <1>4 DEF Grows
<1>6. PICK f : IsGoing(f, SUBSET P, ends, last, next)
  <2>1. IsFiniteSet(P)
    BY FinitelyMany
  <2> HIDE DEF P
  <2> QED
    BY <2>1, <1>5, GrowthUnfolds
<1>7. f = [L \in SUBSET P |-> At(f, L)]
  <2>1. \A L \in SUBSET P : f[L] = At(f, L)
    BY <1>4, <1>6 DEF GoesOn, IsGoing
  <2> HIDE DEF At, P
  <2> QED
    BY <1>6, <2>1 DEF IsGoing
<1>8. r = [L \in SUBSET P |-> At(r, L)]
  <2> HIDE DEF At, P
  <2> QED
    BY <1>2, <1>7
<1>9. \A L \in SUBSET P : r[L] = At(r, L)
  <2> HIDE DEF At, P
  <2> QED
    BY <1>8
<1> QED
  BY <1>3, <1>9 DEF r, Left, End

-----------------------------------------------------------------------------
(* The steps do what the function does. *)

\* What a round did so far is what Bind does up to that need of that owner.
RoundIs(w, W, S, o, n, b, h, t) ==
    LET u == BindUpTo(w, W, S)[o - 1]
    IN  /\ b = u.bound
        /\ h = [p \in Peripherals |-> h[p]]
        /\ \A p \in Peripherals \ {o} : h[p] = u.holds[p]
        /\ o \notin W => h = u.holds /\ t = u.taken
        /\ o \in W => /\ n - 1 \in 0..Len(w.needs[o])
                      /\ OwnerUpTo(w, o, S, u.taken)[n - 1] =
                            [bound |-> TRUE, holds |-> h[o], taken |-> t]

\* The round is where Bind is, the rounds where Widen and Resolve are.
Agrees ==
    /\ RoundIs(world, wanted, among, owner, need, bound, holds, taken)
    /\ From(world, among)[wanted] = Widen(world, among)
    /\ Without(world, alive)[leftOut] = Resolve(world, alive)

AInv == GInv /\ Agrees

\* The turn of an owner begins where the one before it ended.
LEMMA TurnBegins ==
    ASSUME NEW w \in World, NEW W \in SUBSET Peripherals, NEW S \in SUBSET Peripherals,
           NEW o \in 1..(NumPeripherals + 1), NEW b, NEW h, NEW t,
           b = BindUpTo(w, W, S)[o - 1].bound, h = BindUpTo(w, W, S)[o - 1].holds,
           t = BindUpTo(w, W, S)[o - 1].taken,
           o \in Peripherals => \A i \in DOMAIN w.needs[o] : h[o][i] = {}
    PROVE  RoundIs(w, W, S, o, 1, b, h, t)
<1> DEFINE u == BindUpTo(w, W, S)[o - 1]
<1>1. u \in SoFar(w, S)
  <2>1. o - 1 \in 0..NumPeripherals
    BY NumAssumption
  <2>2. \A n \in 0..NumPeripherals : BindUpTo(w, W, S)[n] \in SoFar(w, S)
    BY RoundUnfolds
  <2> QED
    BY <2>1, <2>2
<1>2. b = u.bound /\ h = u.holds /\ t = u.taken
  OBVIOUS
<1> HIDE DEF u
<1>3. /\ u.taken \in Takers
      /\ \A p \in Peripherals : u.holds[p] \in [DOMAIN w.needs[p] -> SUBSET Provided(w, S)]
      /\ u.holds = [p \in Peripherals |-> u.holds[p]]
  BY <1>1 DEF SoFar
<1>4. ASSUME o \in W
      PROVE  /\ 0 \in 0..Len(w.needs[o])
             /\ OwnerUpTo(w, o, S, u.taken)[0] = [bound |-> TRUE, holds |-> h[o], taken |-> t]
  <2>1. o \in Peripherals
    BY <1>4
  <2>2. Len(w.needs[o]) \in Nat
    <3>1. w.needs[o] \in Seq(Need)
      BY <2>1 DEF World
    <3> QED
      BY <3>1
  <2>3. h[o] = Unbound(w, o)
    <3>1. h[o] \in [DOMAIN w.needs[o] -> SUBSET Provided(w, S)]
      BY <2>1, <1>2, <1>3
    <3>2. \A i \in DOMAIN w.needs[o] : h[o][i] = {}
      BY <2>1
    <3> QED
      BY <3>1, <3>2 DEF Unbound
  <2>4. OwnerUpTo(w, o, S, u.taken)[0] =
            [bound |-> TRUE, holds |-> Unbound(w, o), taken |-> u.taken]
    <3> DEFINE x == u.taken
    <3>1. x \in Takers
      BY <1>3
    <3> HIDE DEF x
    <3>2. OwnerUpTo(w, o, S, x)[0] = [bound |-> TRUE, holds |-> Unbound(w, o), taken |-> x]
      BY <2>1, <3>1, TurnStarts
    <3> QED
      BY <3>2 DEF x
  <2> QED
    BY <2>2, <2>3, <2>4, <1>2
<1>5. 1 - 1 = 0
  OBVIOUS
<1>6. h = [p \in Peripherals |-> h[p]]
  BY <1>2, <1>3
<1> QED
  BY <1>2, <1>4, <1>5, <1>6 DEF RoundIs, u

\* An owner left out stays so to the end of its turn.
LEMMA LeftOutStays ==
    ASSUME NEW w \in World, NEW p \in Peripherals, NEW S \in SUBSET Peripherals,
           NEW before \in Takers, NEW n \in 0..Len(w.needs[p]),
           ~ OwnerUpTo(w, p, S, before)[n].bound
    PROVE  BindOwner(w, p, S, before) = OwnerUpTo(w, p, S, before)[n]
<1> DEFINE v == OwnerUpTo(w, p, S, before)
           N == Len(w.needs[p])
           T == {k \in 0..N : k < n \/ v[k] = v[n]}
<1>1. N \in Nat
  <2>1. w.needs[p] \in Seq(Need)
    BY DEF World
  <2> QED
    BY <2>1
<1>2. \A k \in 1..N : v[k] = BindNext(w, p, k, S, v[k - 1])
  BY TurnUnfolds
<1>3. BindOwner(w, p, S, before) = v[N]
  BY DEF BindOwner, OwnerUpTo
<1>4. ~ v[n].bound /\ n \in 0..N
  OBVIOUS
<1> HIDE DEF v, N
<1>5. 0 \in T
  BY <1>1, <1>4
<1>6. ASSUME NEW k \in 1..N, k - 1 \in T PROVE k \in T
  <2>1. CASE k < n
    BY <2>1, <1>1
  <2>2. CASE k = n
    BY <2>2, <1>1
  <2>3. CASE k > n
    <3>1. v[k - 1] = v[n]
      BY <2>3, <1>1, <1>4, <1>6
    <3>2. v[k] = v[n]
      BY <3>1, <1>2, <1>4 DEF BindNext, BindTo
    <3> QED
      BY <3>2, <1>1
  <2> QED
    BY <2>1, <2>2, <2>3, <1>1, <1>4
<1>7. \A k \in 0..N : k \in T
  <2> HIDE DEF T
  <2> QED
    BY <1>1, <1>5, <1>6, CountsUp
<1>8. v[N] = v[n]
  BY <1>1, <1>4, <1>7
<1> QED
  BY <1>3, <1>8 DEF v

\* The round is over: what it did is what Bind does.
LEMMA RoundDone ==
    ASSUME AInv, owner = NumPeripherals + 1
    PROVE  /\ Bind(world, wanted, among).bound = bound
           /\ Bind(world, wanted, among).holds = holds
           /\ Bind(world, wanted, among).taken = taken
           /\ Used(world, Bind(world, wanted, among)) = used
<1>1. world \in World /\ wanted \in SUBSET Peripherals /\ among \in SUBSET Peripherals
  BY DEF AInv, GInv, IInv, TypeOK, among
<1>2. owner \notin wanted /\ owner - 1 = NumPeripherals
  BY <1>1, NumAssumption DEF Peripherals
<1>3. Bind(world, wanted, among) = BindUpTo(world, wanted, among)[owner - 1]
  <2>1. Bind(world, wanted, among) = BindUpTo(world, wanted, among)[NumPeripherals]
    BY DEF Bind, BindUpTo
  <2> QED
    BY <2>1, <1>2
<1> DEFINE b == Bind(world, wanted, among)
<1>4. b.bound = bound /\ b.holds = holds /\ b.taken = taken
  BY <1>2, <1>3 DEF AInv, Agrees, RoundIs
<1> HIDE DEF b
<1>5. Used(world, b) = used
  BY <1>4 DEF Used, used
<1> QED
  BY <1>4, <1>5 DEF b

\* The turn of the owner, from what the round did before it.
LEMMA TurnIs ==
    ASSUME AInv, IsBinding
    PROVE  LET u == BindUpTo(world, wanted, among)[owner - 1]
               v == OwnerUpTo(world, owner, among, u.taken)
           IN  /\ u \in SoFar(world, among) /\ u.taken \in Takers
               /\ owner \in Peripherals /\ owner \in wanted
               /\ bound = u.bound /\ holds = [p \in Peripherals |-> holds[p]]
               /\ \A p \in Peripherals \ {owner} : holds[p] = u.holds[p]
               /\ need - 1 \in 0..Len(world.needs[owner])
               /\ Len(world.needs[owner]) \in Nat
               /\ DOMAIN world.needs[owner] = 1..Len(world.needs[owner])
               /\ v[need - 1] = [bound |-> TRUE, holds |-> holds[owner], taken |-> taken]
               /\ BindUpTo(world, wanted, among)[owner] = AddOwner(world, owner, among, u)
<1> DEFINE u == BindUpTo(world, wanted, among)[owner - 1]
<1>1. /\ world \in World /\ wanted \in SUBSET Peripherals /\ among \in SUBSET Peripherals
      /\ owner \in Peripherals /\ owner \in wanted
  BY DEF AInv, GInv, IInv, TypeOK, among, IsBinding
<1>2. owner - 1 \in 0..NumPeripherals
  BY <1>1, NumAssumption DEF Peripherals
<1>3. u \in SoFar(world, among)
  <2>1. \A n \in 0..NumPeripherals : BindUpTo(world, wanted, among)[n] \in SoFar(world, among)
    BY <1>1, RoundUnfolds
  <2> QED
    BY <2>1, <1>2
<1>4. BindUpTo(world, wanted, among)[owner] = AddOwner(world, owner, among, u)
  <2>1. \A n \in Peripherals :
           BindUpTo(world, wanted, among)[n] =
               IF n \in wanted THEN AddOwner(world, n, among, BindUpTo(world, wanted, among)[n - 1])
               ELSE BindUpTo(world, wanted, among)[n - 1]
    BY <1>1, RoundUnfolds
  <2> QED
    BY <2>1, <1>1
<1>5. Len(world.needs[owner]) \in Nat /\ DOMAIN world.needs[owner] = 1..Len(world.needs[owner])
  <2>1. world.needs[owner] \in Seq(Need)
    BY <1>1 DEF World
  <2> QED
    BY <2>1
<1>6. RoundIs(world, wanted, among, owner, need, bound, holds, taken)
  BY DEF AInv, Agrees
<1> HIDE DEF u
<1>7. u.taken \in Takers
  BY <1>3 DEF SoFar
<1> QED
  BY <1>1, <1>3, <1>4, <1>5, <1>6, <1>7 DEF RoundIs, u

\* A step to the next owner leaves what Bind has after its turn.
LEMMA NextOwnerAgrees ==
    ASSUME AInv, GInv', owner \in Peripherals, NextOwner, UNCHANGED <<world, alive, leftOut, wanted>>,
           LET u == BindUpTo(world, wanted, among)[owner]
           IN  bound' = u.bound /\ holds' = u.holds /\ taken' = u.taken
    PROVE  Agrees'
<1>1. /\ world \in World /\ wanted \in SUBSET Peripherals /\ among \in SUBSET Peripherals
      /\ among' = among /\ world' = world /\ wanted' = wanted /\ alive' = alive /\ leftOut' = leftOut
  BY DEF AInv, GInv, IInv, TypeOK, among
<1>2. owner' \in 1..(NumPeripherals + 1) /\ owner' - 1 = owner /\ need' = 1
  BY NumAssumption DEF NextOwner, Peripherals
<1>3. owner' \in Peripherals => \A i \in DOMAIN world.needs[owner'] : holds'[owner'][i] = {}
  <2> SUFFICES ASSUME owner' \in Peripherals, NEW i \in DOMAIN world.needs[owner']
               PROVE  holds'[owner'][i] = {}
    OBVIOUS
  <2>1. i \in Nat \ {0}
    BY <1>1, NeedShape
  <2>2. \A p \in Peripherals : \A j \in DOMAIN world'.needs[p] :
            p > owner' \/ (p = owner' /\ j >= need') => holds'[p][j] = {}
    BY DEF GInv, IInv, NotYet
  <2>3. i \in DOMAIN world'.needs[owner'] /\ i >= need'
    BY <1>1, <1>2, <2>1
  <2> QED
    BY <2>2, <2>3
<1> DEFINE o == owner'
           b == bound'
           h == holds'
           t == taken'
<1>4. /\ b = BindUpTo(world, wanted, among)[o - 1].bound
      /\ h = BindUpTo(world, wanted, among)[o - 1].holds
      /\ t = BindUpTo(world, wanted, among)[o - 1].taken
  BY <1>2
<1>5. o \in 1..(NumPeripherals + 1)
  BY <1>2
<1>6. o \in Peripherals => \A i \in DOMAIN world.needs[o] : h[o][i] = {}
  BY <1>3
<1> HIDE DEF o, b, h, t
<1>7. RoundIs(world, wanted, among, o, 1, b, h, t)
  BY <1>1, <1>4, <1>5, <1>6, TurnBegins
<1>8. RoundIs(world', wanted', among', owner', need', bound', holds', taken')
  BY <1>1, <1>2, <1>7 DEF o, b, h, t
<1>9. /\ From(world', among')[wanted'] = Widen(world', among')
      /\ Without(world', alive')[leftOut'] = Resolve(world', alive')
  BY <1>1 DEF AInv, Agrees
<1> QED
  BY <1>8, <1>9 DEF Agrees

\* One that is passed over.
LEMMA SkipAgrees ==
    ASSUME AInv, GInv', SkipUnwanted
    PROVE  Agrees'
<1>1. /\ world \in World /\ wanted \in SUBSET Peripherals /\ among \in SUBSET Peripherals
      /\ owner \in Peripherals /\ owner \notin wanted
  BY DEF AInv, GInv, IInv, TypeOK, among, SkipUnwanted
<1>2. \A n \in Peripherals :
           BindUpTo(world, wanted, among)[n] =
               IF n \in wanted THEN AddOwner(world, n, among, BindUpTo(world, wanted, among)[n - 1])
               ELSE BindUpTo(world, wanted, among)[n - 1]
  BY <1>1, RoundUnfolds
<1> DEFINE u == BindUpTo(world, wanted, among)[owner]
<1>3. u = BindUpTo(world, wanted, among)[owner - 1]
  BY <1>1, <1>2
<1>4. bound = u.bound /\ holds = u.holds /\ taken = u.taken
  BY <1>1, <1>3 DEF AInv, Agrees, RoundIs
<1>5. /\ NextOwner /\ UNCHANGED <<world, alive, leftOut, wanted>>
      /\ bound' = u.bound /\ holds' = u.holds /\ taken' = u.taken
  BY <1>4 DEF SkipUnwanted
<1> QED
  BY <1>1, <1>5, NextOwnerAgrees

\* A need that is bound.
LEMMA BindNeedAgrees ==
    ASSUME AInv, BindNeed
    PROVE  Agrees'
<1> DEFINE u == BindUpTo(world, wanted, among)[owner - 1]
           v == OwnerUpTo(world, owner, among, u.taken)
           C == Chosen(world, owner, need, among, taken)
<1>1. /\ world \in World /\ among \in SUBSET Peripherals /\ DOMAIN holds = Peripherals
      /\ holds[owner] \in [DOMAIN world.needs[owner] -> SUBSET Endpoints]
      /\ need \in Nat \ {0}
  BY DEF AInv, GInv, IInv, TypeOK, among, BindNeed, IsBinding
<1>2. /\ u \in SoFar(world, among) /\ u.taken \in Takers
      /\ owner \in Peripherals /\ owner \in wanted
      /\ bound = u.bound /\ holds = [p \in Peripherals |-> holds[p]]
      /\ \A p \in Peripherals \ {owner} : holds[p] = u.holds[p]
      /\ need - 1 \in 0..Len(world.needs[owner])
      /\ Len(world.needs[owner]) \in Nat
      /\ DOMAIN world.needs[owner] = 1..Len(world.needs[owner])
      /\ v[need - 1] = [bound |-> TRUE, holds |-> holds[owner], taken |-> taken]
  BY TurnIs DEF BindNeed
<1>3. /\ need \in 1..Len(world.needs[owner])
      /\ C # {} \/ ~ world.needs[owner][need].required
      /\ holds' = [holds EXCEPT ![owner][need] = C]
      /\ taken' = Take(world, owner, C, taken)
      /\ need' = need + 1
      /\ UNCHANGED <<world, alive, leftOut, wanted, owner, bound, done>>
  BY <1>2 DEF BindNeed
<1>4. v[need] = BindNext(world, owner, need, among, v[need - 1])
  <2> DEFINE x == u.taken
  <2>1. x \in Takers
    BY <1>2
  <2> HIDE DEF x
  <2>2. OwnerUpTo(world, owner, among, x)[need] =
            BindNext(world, owner, need, among, OwnerUpTo(world, owner, among, x)[need - 1])
    BY <1>1, <1>2, <1>3, <2>1, TurnNext
  <2> QED
    BY <2>2 DEF x
<1> HIDE DEF u, v
<1>5. v[need] = [bound |-> TRUE, holds |-> [holds[owner] EXCEPT ![need] = C],
                 taken |-> Take(world, owner, C, taken)]
  BY <1>2, <1>3, <1>4 DEF BindNext, BindTo
<1>6. holds'[owner] = [holds[owner] EXCEPT ![need] = C]
      /\ \A p \in Peripherals \ {owner} : holds'[p] = holds[p]
  BY <1>1, <1>2, <1>3
<1>7. need' - 1 = need /\ need \in 0..Len(world.needs[owner])
  BY <1>1, <1>2, <1>3
<1>8. among' = among
  BY <1>3 DEF among
<1>10. holds' = [p \in Peripherals |-> holds'[p]]
  BY <1>1, <1>2, <1>3
<1>9. RoundIs(world, wanted, among, owner, need', bound, holds', taken')
  BY <1>2, <1>3, <1>5, <1>6, <1>7, <1>10 DEF RoundIs, u, v
<1> QED
  BY <1>3, <1>8, <1>9 DEF AInv, Agrees

\* One that is left out.
LEMMA FailAgrees ==
    ASSUME AInv, GInv', FailOwner
    PROVE  Agrees'
<1> DEFINE u == BindUpTo(world, wanted, among)[owner - 1]
           x == u.taken
           v == OwnerUpTo(world, owner, among, x)
           mine == BindOwner(world, owner, among, x)
           next == BindUpTo(world, wanted, among)[owner]
<1>1. /\ world \in World /\ among \in SUBSET Peripherals /\ DOMAIN holds = Peripherals
      /\ need \in Nat \ {0}
  BY DEF AInv, GInv, IInv, TypeOK, among
<1>2. /\ u \in SoFar(world, among) /\ x \in Takers
      /\ owner \in Peripherals /\ owner \in wanted
      /\ bound = u.bound /\ holds = [p \in Peripherals |-> holds[p]]
      /\ \A p \in Peripherals \ {owner} : holds[p] = u.holds[p]
      /\ Len(world.needs[owner]) \in Nat
      /\ DOMAIN world.needs[owner] = 1..Len(world.needs[owner])
      /\ v[need - 1] = [bound |-> TRUE, holds |-> holds[owner], taken |-> taken]
      /\ next = AddOwner(world, owner, among, u)
  BY TurnIs DEF FailOwner
<1>3. /\ need \in 1..Len(world.needs[owner])
      /\ Chosen(world, owner, need, among, taken) = {}
      /\ world.needs[owner][need].required
      /\ holds' = [holds EXCEPT ![owner] = NoHolds[owner]]
      /\ taken' = GiveBack(owner, taken)
      /\ NextOwner
      /\ UNCHANGED <<world, alive, leftOut, wanted, bound, done>>
  BY <1>2 DEF FailOwner
<1>n. next = Added(owner, mine, u)
  BY <1>2 DEF AddOwner
<1> HIDE DEF u, next, x
<1>4. v[need] = BindNext(world, owner, need, among, v[need - 1])
  BY <1>1, <1>2, <1>3, TurnNext
<1>5. v[need] = [bound |-> FALSE, holds |-> Unbound(world, owner), taken |-> GiveBack(owner, taken)]
  <2> HIDE DEF v
  <2> QED
    BY <1>2, <1>3, <1>4 DEF BindNext, BindTo
<1>6. mine = v[need]
  <2>1. need \in 0..Len(world.needs[owner]) /\ ~ v[need].bound
    BY <1>2, <1>3, <1>5
  <2> QED
    BY <1>1, <1>2, <2>1, LeftOutStays
<1> HIDE DEF v, mine
<1>7. NoHolds[owner] = Unbound(world, owner)
  BY <1>2 DEF NoHolds, Unbound
<1>8. DOMAIN u.holds = Peripherals /\ u.holds = [p \in Peripherals |-> u.holds[p]]
  BY <1>2 DEF SoFar
<1>9. next = [bound |-> u.bound, holds |-> [u.holds EXCEPT ![owner] = Unbound(world, owner)],
              taken |-> GiveBack(owner, taken)]
  BY <1>5, <1>6, <1>n DEF Added
<1>10. holds = [p \in Peripherals |-> holds[p]]
  BY <1>2
<1>11. holds' = [u.holds EXCEPT ![owner] = Unbound(world, owner)]
  BY <1>1, <1>2, <1>3, <1>7, <1>8, <1>10
<1>12. bound' = next.bound
  BY <1>2, <1>3, <1>9
<1>13. holds' = next.holds
  BY <1>3, <1>9, <1>11
<1>14. taken' = next.taken
  BY <1>3, <1>9
<1> QED
  BY <1>2, <1>3, <1>12, <1>13, <1>14, NextOwnerAgrees DEF next

\* One that is bound.
LEMMA DoneAgrees ==
    ASSUME AInv, GInv', BindOwnerDone
    PROVE  Agrees'
<1> DEFINE u == BindUpTo(world, wanted, among)[owner - 1]
           x == u.taken
           v == OwnerUpTo(world, owner, among, x)
           mine == BindOwner(world, owner, among, x)
           next == BindUpTo(world, wanted, among)[owner]
<1>1. /\ world \in World /\ among \in SUBSET Peripherals /\ DOMAIN holds = Peripherals
      /\ need \in Nat \ {0}
  BY DEF AInv, GInv, IInv, TypeOK, among
<1>2. /\ u \in SoFar(world, among)
      /\ owner \in Peripherals /\ owner \in wanted
      /\ bound = u.bound /\ holds = [p \in Peripherals |-> holds[p]]
      /\ \A p \in Peripherals \ {owner} : holds[p] = u.holds[p]
      /\ need - 1 \in 0..Len(world.needs[owner])
      /\ Len(world.needs[owner]) \in Nat
      /\ DOMAIN world.needs[owner] = 1..Len(world.needs[owner])
      /\ v[need - 1] = [bound |-> TRUE, holds |-> holds[owner], taken |-> taken]
      /\ next = AddOwner(world, owner, among, u)
  BY TurnIs DEF BindOwnerDone
<1>3. /\ need \notin DOMAIN world.needs[owner]
      /\ bound' = bound \cup {owner}
      /\ NextOwner
      /\ UNCHANGED <<world, alive, leftOut, wanted, holds, taken, done>>
  BY DEF BindOwnerDone
<1>n. next = Added(owner, mine, u)
  BY <1>2 DEF AddOwner
<1>4. mine = v[Len(world.needs[owner])]
  BY DEF BindOwner, OwnerUpTo
<1> HIDE DEF u, next, x, v, mine
<1>5. need - 1 = Len(world.needs[owner])
  BY <1>1, <1>2, <1>3
<1>6. mine = [bound |-> TRUE, holds |-> holds[owner], taken |-> taken]
  BY <1>2, <1>4, <1>5
<1>8. DOMAIN u.holds = Peripherals /\ u.holds = [p \in Peripherals |-> u.holds[p]]
  BY <1>2 DEF SoFar
<1>9. next = [bound |-> u.bound \cup {owner}, holds |-> [u.holds EXCEPT ![owner] = holds[owner]],
              taken |-> taken]
  BY <1>6, <1>n DEF Added
<1>10. holds = [p \in Peripherals |-> holds[p]]
  BY <1>2
<1>11. holds = [u.holds EXCEPT ![owner] = holds[owner]]
  BY <1>1, <1>2, <1>8, <1>10
<1>12. bound' = next.bound
  BY <1>2, <1>3, <1>9
<1>13. holds' = next.holds
  BY <1>3, <1>9, <1>11
<1>14. taken' = next.taken
  BY <1>3, <1>9
<1> QED
  BY <1>2, <1>3, <1>12, <1>13, <1>14, NextOwnerAgrees DEF next

\* Bind begins with nobody bound.
LEMMA BindStarts ==
    ASSUME NEW w \in World, NEW W \in SUBSET Peripherals, NEW S \in SUBSET Peripherals
    PROVE  BindUpTo(w, W, S)[0] = NoneBound(w)
BY RoundUnfolds

\* A new round is where Bind begins.
LEMMA RoundStarts ==
    ASSUME NEW w \in World, NEW W \in SUBSET Peripherals, NEW S \in SUBSET Peripherals
    PROVE  RoundIs(w, W, S, 1, 1, {}, [p \in Peripherals |-> Unbound(w, p)], NoTakers)
<1> DEFINE o == 1
           b == {}
           h == [p \in Peripherals |-> Unbound(w, p)]
           t == NoTakers
<1>1. o \in 1..(NumPeripherals + 1) /\ o - 1 = 0
  BY NumAssumption
<1>2. BindUpTo(w, W, S)[0] = [bound |-> b, holds |-> h, taken |-> t]
  BY BindStarts DEF NoneBound
<1>3. /\ b = BindUpTo(w, W, S)[o - 1].bound
      /\ h = BindUpTo(w, W, S)[o - 1].holds
      /\ t = BindUpTo(w, W, S)[o - 1].taken
  BY <1>1, <1>2
<1>4. o \in Peripherals => \A i \in DOMAIN w.needs[o] : h[o][i] = {}
  BY DEF Unbound
<1> HIDE DEF o, b, h, t
<1>5. RoundIs(w, W, S, o, 1, b, h, t)
  BY <1>1, <1>3, <1>4, TurnBegins
<1> QED
  BY <1>5 DEF o, b, h, t

\* So is the step that begins it.
LEMMA NewRoundAgrees ==
    ASSUME world \in World, TypeOK', NewRound, world' = world, among' \in SUBSET Peripherals
    PROVE  RoundIs(world', wanted', among', owner', need', bound', holds', taken')
<1> DEFINE W == wanted'
           S == among'
<1>1. W \in SUBSET Peripherals /\ S \in SUBSET Peripherals
  BY DEF TypeOK
<1>2. /\ owner' = 1 /\ need' = 1 /\ bound' = {} /\ taken' = NoTakers
      /\ holds' = [p \in Peripherals |-> Unbound(world, p)]
  BY DEF NewRound, NoHolds, Unbound
<1> HIDE DEF W, S
<1>3. RoundIs(world, W, S, 1, 1, {}, [p \in Peripherals |-> Unbound(world, p)], NoTakers)
  BY <1>1, RoundStarts
<1> QED
  BY <1>2, <1>3 DEF W, S

\* It begins where Widen and Resolve begin.
LEMMA InitAgrees == Init => AInv
<1> SUFFICES ASSUME Init PROVE AInv
  OBVIOUS
<1>1. GInv /\ TypeOK
  BY InitGrounded DEF GInv, IInv
<1>2. /\ world \in World /\ alive \in SUBSET Peripherals /\ wanted \in SUBSET Peripherals
      /\ among \in SUBSET Peripherals /\ among = alive
  BY <1>1 DEF TypeOK, among, Init
<1>3. RoundIs(world, wanted, among, owner, need, bound, holds, taken)
  <2>1. /\ owner = 1 /\ need = 1 /\ bound = {} /\ taken = NoTakers
        /\ holds = [p \in Peripherals |-> Unbound(world, p)]
    BY DEF Init, Unbound
  <2>2. RoundIs(world, wanted, among, 1, 1, {}, [p \in Peripherals |-> Unbound(world, p)], NoTakers)
    BY <1>2, RoundStarts
  <2> QED
    BY <2>1, <2>2
<1>4. From(world, among)[wanted] = Widen(world, among)
  <2>1. wanted = among \ world.onDemand
    BY <1>2 DEF Init
  <2> QED
    BY <2>1 DEF From, Widen
<1>5. Without(world, alive)[leftOut] = Resolve(world, alive)
  <2>1. leftOut = {}
    BY DEF Init
  <2> QED
    BY <2>1 DEF Without, Resolve
<1> QED
  BY <1>1, <1>3, <1>4, <1>5 DEF AInv, Agrees

\* When a round is over, widening stands or goes on from what is used.
LEMMA RoundWidens ==
    ASSUME AInv, owner = NumPeripherals + 1
    PROVE  Widen(world, among) =
               IF used \subseteq wanted THEN [wanted |-> wanted, bind |-> Bind(world, wanted, among)]
               ELSE From(world, among)[wanted \cup used]
<1>1. world \in World /\ wanted \in SUBSET Peripherals /\ among \in SUBSET Peripherals
  BY DEF AInv, GInv, IInv, TypeOK, among
<1>2. Used(world, Bind(world, wanted, among)) = used
  BY RoundDone
<1>3. From(world, among)[wanted] = Widen(world, among)
  BY DEF AInv, Agrees
<1>4. \A W \in SUBSET Peripherals :
          From(world, among)[W] =
              IF Used(world, Bind(world, W, among)) \subseteq W
              THEN [wanted |-> W, bind |-> Bind(world, W, among)]
              ELSE From(world, among)[W \cup Used(world, Bind(world, W, among))]
  <2>1. \A w \in World, S \in SUBSET Peripherals : \A W \in SUBSET Peripherals :
            From(w, S)[W] =
                IF Used(w, Bind(w, W, S)) \subseteq W
                THEN [wanted |-> W, bind |-> Bind(w, W, S)]
                ELSE From(w, S)[W \cup Used(w, Bind(w, W, S))]
    BY WidenUnfolds
  <2> QED
    BY <1>1, <2>1
<1> QED
  BY <1>1, <1>2, <1>3, <1>4

\* When nothing widens any more, the result stands or is looked for without the unbound.
LEMMA RoundResolves ==
    ASSUME AInv, owner = NumPeripherals + 1, used \subseteq wanted
    PROVE  Resolve(world, alive) =
               IF wanted \ bound = {} THEN [wanted |-> wanted, holds |-> holds, taken |-> taken]
               ELSE Without(world, alive)[leftOut \cup (wanted \ bound)]
<1>1. world \in World /\ alive \in SUBSET Peripherals /\ leftOut \in SUBSET Peripherals
  BY DEF AInv, GInv, IInv, TypeOK
<1> DEFINE b == Bind(world, wanted, among)
           r == Widen(world, alive \ leftOut)
<1>2. r = [wanted |-> wanted, bind |-> b]
  BY RoundWidens DEF among
<1>3. b.bound = bound /\ b.holds = holds /\ b.taken = taken
  BY RoundDone
<1>4. Without(world, alive)[leftOut] = Resolve(world, alive)
  BY DEF AInv, Agrees
<1>5. \A L \in SUBSET Peripherals :
          LET s == Widen(world, alive \ L)
          IN  Without(world, alive)[L] =
                  IF s.wanted \ s.bind.bound = {}
                  THEN [wanted |-> s.wanted, holds |-> s.bind.holds, taken |-> s.bind.taken]
                  ELSE Without(world, alive)[L \cup (s.wanted \ s.bind.bound)]
  BY <1>1, ResolveUnfolds
<1>6. Without(world, alive)[leftOut] =
          IF r.wanted \ r.bind.bound = {}
          THEN [wanted |-> r.wanted, holds |-> r.bind.holds, taken |-> r.bind.taken]
          ELSE Without(world, alive)[leftOut \cup (r.wanted \ r.bind.bound)]
  BY <1>1, <1>5
<1> HIDE DEF b, r
<1>7. /\ r.wanted = wanted /\ r.bind.bound = bound
      /\ r.bind.holds = holds /\ r.bind.taken = taken
  BY <1>2, <1>3
<1> QED
  BY <1>4, <1>6, <1>7

\* A round that widens what is wanted.
LEMMA WidenAgrees ==
    ASSUME AInv, GInv', WidenWanted
    PROVE  Agrees'
<1>1. /\ RoundOver /\ ~ (used \subseteq wanted) /\ NewRound
      /\ wanted' = wanted \cup used
      /\ world' = world /\ alive' = alive /\ leftOut' = leftOut
  BY DEF WidenWanted
<1>2. world \in World /\ among' = among /\ among' \in SUBSET Peripherals /\ TypeOK'
  BY <1>1 DEF AInv, GInv, IInv, TypeOK, among
<1>3. RoundIs(world', wanted', among', owner', need', bound', holds', taken')
  BY <1>1, <1>2, NewRoundAgrees
<1>4. Widen(world, among) = From(world, among)[wanted \cup used]
  BY <1>1, RoundWidens DEF RoundOver
<1>5. From(world', among')[wanted'] = Widen(world', among')
  BY <1>1, <1>2, <1>4
<1>6. Without(world', alive')[leftOut'] = Resolve(world', alive')
  BY <1>1 DEF AInv, Agrees
<1> QED
  BY <1>3, <1>5, <1>6 DEF Agrees

\* One that leaves the unbound out.
LEMMA LeaveOutAgrees ==
    ASSUME AInv, GInv', LeaveOut
    PROVE  Agrees'
<1>1. /\ RoundOver /\ used \subseteq wanted /\ wanted \ bound # {} /\ NewRound
      /\ leftOut' = leftOut \cup (wanted \ bound)
      /\ wanted' = (alive \ leftOut') \ world.onDemand
      /\ world' = world /\ alive' = alive
  BY DEF LeaveOut
<1>2. /\ world \in World /\ among' = alive \ leftOut' /\ among' \in SUBSET Peripherals
      /\ TypeOK'
  BY <1>1 DEF AInv, GInv, IInv, TypeOK, among
<1>3. RoundIs(world', wanted', among', owner', need', bound', holds', taken')
  BY <1>1, <1>2, NewRoundAgrees
<1>4. From(world', among')[wanted'] = Widen(world', among')
  <2>1. wanted' = among' \ world'.onDemand
    BY <1>1, <1>2
  <2> QED
    BY <2>1 DEF From, Widen
<1>5. Resolve(world, alive) = Without(world, alive)[leftOut \cup (wanted \ bound)]
  BY <1>1, RoundResolves DEF RoundOver
<1>6. Without(world', alive')[leftOut'] = Resolve(world', alive')
  BY <1>1, <1>5
<1> QED
  BY <1>3, <1>4, <1>6 DEF Agrees

\* A step that leaves the rounds alone.
LEMMA StillAgrees ==
    ASSUME AInv, UNCHANGED <<world, alive, leftOut, wanted, owner, need, bound, holds, taken>>
    PROVE  Agrees'
<1>1. among' = among
  BY DEF among
<1> QED
  BY <1>1 DEF AInv, Agrees

LEMMA NextAgrees == AInv /\ [Next]_vars => AInv'
<1> SUFFICES ASSUME AInv, [Next]_vars PROVE AInv'
  OBVIOUS
<1>1. GInv'
  BY NextGrounded DEF AInv
<1>2. CASE SkipUnwanted
  BY <1>1, <1>2, SkipAgrees DEF AInv
<1>3. CASE BindNeed
  BY <1>1, <1>3, BindNeedAgrees DEF AInv
<1>4. CASE FailOwner
  BY <1>1, <1>4, FailAgrees DEF AInv
<1>5. CASE BindOwnerDone
  BY <1>1, <1>5, DoneAgrees DEF AInv
<1>6. CASE WidenWanted
  BY <1>1, <1>6, WidenAgrees DEF AInv
<1>7. CASE LeaveOut
  BY <1>1, <1>7, LeaveOutAgrees DEF AInv
<1>8. CASE Conclude
  <2>1. Agrees'
    BY <1>8, StillAgrees DEF Conclude
  <2> QED
    BY <1>1, <2>1 DEF AInv
<1>9. CASE UNCHANGED vars
  <2>1. Agrees'
    BY <1>9, StillAgrees DEF vars
  <2> QED
    BY <1>1, <2>1 DEF AInv
<1> QED
  BY <1>2, <1>3, <1>4, <1>5, <1>6, <1>7, <1>8, <1>9 DEF Next

\* The rounds of the runtime, whatever the world and whoever is alive, arrive at what
\* the function Resolve gives, which is what the lifecycle binds with.
THEOREM RoundsResolve == Spec => []AgreesWithResolve
<1>1. ASSUME AInv, done
      PROVE  LET r == Resolve(world, alive)
             IN  r.wanted = wanted /\ r.holds = holds /\ r.taken = taken
  <2>1. owner = NumPeripherals + 1 /\ used \subseteq wanted /\ wanted \subseteq bound
    BY <1>1 DEF AInv, GInv, Concluded
  <2>2. Resolve(world, alive) = [wanted |-> wanted, holds |-> holds, taken |-> taken]
    BY <1>1, <2>1, RoundResolves
  <2> QED
    BY <2>2
<1>2. AInv => AgreesWithResolve
  BY <1>1 DEF AgreesWithResolve
<1> QED
  BY InitAgrees, NextAgrees, <1>2, PTL DEF Spec

-----------------------------------------------------------------------------
(* Who runs on whom: `users` and `uses` tell the same. *)

\* Whom those that hold something run on is a peripheral.
LEMMA ProvidersArePeripherals ==
    ASSUME TypeOK
    PROVE  /\ bound \subseteq Peripherals
           /\ \A q \in Peripherals : ProvidersOf(q) \subseteq Peripherals
<1>1. world.provider \in [Endpoints -> Peripherals]
  BY DEF TypeOK, World
<1>2. ASSUME NEW q \in Peripherals PROVE HeldBy(holds, q) \subseteq Endpoints
  BY <1>2 DEF TypeOK, HeldBy
<1> QED
  BY <1>1, <1>2 DEF ProvidersOf, TypeOK

\* X holds whoever runs on p or on one of X.
HoldsUsers(X, p) == \A q \in bound : ProvidersOf(q) \cap (X \cup {p}) # {} => q \in X

\* `users` holds them all, and nobody else.
LEMMA UsersAre ==
    ASSUME TypeOK, NEW p \in Peripherals
    PROVE  /\ HoldsUsers(Users(p), p)
           /\ \A X \in SUBSET Peripherals : HoldsUsers(X, p) => Users(p) \subseteq X
<1> DEFINE P == Peripherals
           More(U) == {q \in bound \ U : ProvidersOf(q) \cap (U \cup {p}) # {}}
           ends == {U \in SUBSET P : More(U) = {}}
           last == [U \in SUBSET P |-> U]
           next == [U \in SUBSET P |-> U \cup More(U)]
           At(f, U) == IF More(U) = {} THEN U ELSE f[U \cup More(U)]
           r == CHOOSE f : f = [U \in SUBSET P |-> At(f, U)]
<1>1. Users(p) = r[{}]
  BY DEF Users
<1>2. \A U \in SUBSET P : More(U) \in SUBSET P /\ More(U) \cap U = {}
  BY ProvidersArePeripherals
<1>3. \A U : HoldsUsers(U, p) <=> More(U) = {}
  BY DEF HoldsUsers
<1>4. \A X, U : U \subseteq X /\ HoldsUsers(X, p) => More(U) \subseteq X
  BY DEF HoldsUsers
<1> HIDE DEF More, r
<1>5. \A U \in SUBSET P : /\ U \in ends <=> More(U) = {}
                          /\ last[U] = U /\ next[U] = U \cup More(U)
  OBVIOUS
<1>6. IsFiniteSet(P) /\ Grows(SUBSET P, ends, next)
  BY <1>2, <1>5, FinitelyMany DEF Grows
<1> HIDE DEF P, ends, last, next
<1>7. PICK f : IsGoing(f, SUBSET P, ends, last, next)
  BY <1>6, GrowthUnfolds
<1>8. f = [U \in SUBSET P |-> At(f, U)]
  <2>1. \A U \in SUBSET P : f[U] = At(f, U)
    BY <1>5, <1>7 DEF GoesOn, IsGoing
  <2> HIDE DEF At
  <2> QED
    BY <1>7, <2>1 DEF IsGoing
<1>9. r = [U \in SUBSET P |-> At(r, U)]
  <2> HIDE DEF At
  <2> QED
    BY <1>8 DEF r
<1>10. \A U \in SUBSET P : r[U] = At(r, U)
  <2> HIDE DEF At
  <2> QED
    BY <1>9
<1>11. ASSUME NEW X \in SUBSET P, HoldsUsers(X, p)
       PROVE  r[{}] \subseteq X /\ HoldsUsers(r[{}], p)
  <2> DEFINE G == SUBSET X
  <2>1. {} \in G /\ G \in SUBSET (SUBSET P)
    OBVIOUS
  <2>2. \A U \in G : U \in SUBSET P /\ U \in SUBSET X
    BY <2>1
  <2>3. \A U \in G : U \notin ends => next[U] \in G /\ U \subseteq next[U] /\ next[U] # U
    BY <2>2, <1>2, <1>4, <1>5, <1>11
  <2>4. Grows(G, ends, next) /\ GoesOn(r, G, ends, last, next)
    BY <2>2, <2>3, <1>5, <1>10 DEF Grows, GoesOn
  <2> HIDE DEF G
  <2>5. PICK U \in G : U \in ends /\ r[{}] = last[U]
    BY <2>1, <2>4, <1>6, GrowthEnds
  <2> QED
    BY <2>2, <2>5, <1>3, <1>5
<1>12. HoldsUsers(P, p)
  BY ProvidersArePeripherals DEF HoldsUsers, P
<1>13. HoldsUsers(r[{}], p)
  BY <1>11, <1>12
<1> QED
  BY <1>1, <1>11, <1>13 DEF P

\* X holds whom p and those of X run on.
HoldsUsed(X, p) == \A q \in X \cup {p} : ProvidersOf(q) \subseteq X

\* `uses` holds them all, and nobody else.
LEMMA UsesAre ==
    ASSUME TypeOK, NEW p \in Peripherals
    PROVE  /\ HoldsUsed(Uses(p), p)
           /\ \A X \in SUBSET Peripherals : HoldsUsed(X, p) => Uses(p) \subseteq X
<1> DEFINE P == Peripherals
           D == [met : SUBSET P, owners : SUBSET P]
           Found(x) == UNION {ProvidersOf(q) : q \in x.owners}
           More(x) == Found(x) \ x.met
           After(x) == [met |-> x.met \cup More(x), owners |-> More(x)]
           At(f, x) == IF x.owners = {} THEN x.met ELSE f[After(x)]
           r == CHOOSE f : f = [x \in D |-> At(f, x)]
           start == [met |-> {}, owners |-> {p}]
           N == 2 * Cardinality(P) + 1
           size == [x \in D |-> 2 * Lacks(P)[x.met] + IF x.owners = {} THEN 0 ELSE 1]
           ends == {x \in D : x.owners = {}}
           last == [x \in D |-> x.met]
           next == [x \in D |-> After(x)]
<1>1. Uses(p) = r[start]
  BY DEF Uses
<1>2. \A x \in D : x.met \in SUBSET P /\ x.owners \in SUBSET P
  OBVIOUS
<1>3. \A x \in D : More(x) \in SUBSET P /\ More(x) \cap x.met = {}
  BY <1>2, ProvidersArePeripherals
<1>4. \A x : \A q \in x.owners : ProvidersOf(q) \subseteq x.met \cup More(x)
  OBVIOUS
<1>5. \A X, x : x.owners \subseteq X \cup {p} /\ HoldsUsed(X, p) => More(x) \subseteq X
  BY DEF HoldsUsed
<1>6. start \in D /\ start.met = {} /\ start.owners = {p}
  OBVIOUS
<1> HIDE DEF More, start
<1>7. \A x \in D : /\ After(x) \in D
                   /\ After(x).met = x.met \cup More(x)
                   /\ After(x).owners = More(x)
  BY <1>2, <1>3
<1> HIDE DEF r, After, D
<1>8. \A x \in D : /\ x \in ends <=> x.owners = {}
                   /\ last[x] = x.met
                   /\ next[x] = After(x)
                   /\ size[x] = 2 * Lacks(P)[x.met] + IF x.owners = {} THEN 0 ELSE 1
  OBVIOUS
<1>9. IsFiniteSet(P)
  BY FinitelyMany
<1> HIDE DEF P, ends, last, next, size
<1>10. Cardinality(P) \in Nat /\ N \in Nat
  BY <1>9, FS_CardinalityType
<1>11. ASSUME NEW x \in D
       PROVE  /\ size[x] \in 0..N
              /\ x \notin ends => next[x] \in D /\ size[next[x]] < size[x]
  <2> DEFINE M == x.met
             L == After(x).met
  <2>1. M \in SUBSET P /\ L \in SUBSET P /\ M \subseteq L /\ (More(x) # {} => M # L)
    BY <1>2, <1>3, <1>7
  <2>2. /\ size[x] = 2 * Lacks(P)[M] + IF x.owners = {} THEN 0 ELSE 1
        /\ size[After(x)] = 2 * Lacks(P)[L] + IF More(x) = {} THEN 0 ELSE 1
    BY <1>7, <1>8
  <2> HIDE DEF M, L
  <2>3. /\ Lacks(P)[M] \in 0..Cardinality(P) /\ Lacks(P)[L] \in 0..Cardinality(P)
        /\ Lacks(P)[L] <= Lacks(P)[M] /\ (M # L => Lacks(P)[L] < Lacks(P)[M])
    BY <2>1, <1>9, LargerLacksLess
  <2>4. size[x] \in 0..N
    BY <2>2, <2>3, <1>10
  <2>5. x.owners # {} => size[After(x)] < size[x]
    BY <2>1, <2>2, <2>3, <1>10
  <2> QED
    BY <2>4, <2>5, <1>7, <1>8
<1> HIDE DEF N
<1>12. Shrinks(D, size, N, ends, next)
  BY <1>11 DEF Shrinks
<1>13. PICK f : IsGoing(f, D, ends, last, next)
  BY <1>10, <1>12, ShrinkingUnfolds
<1>14. f = [x \in D |-> At(f, x)]
  <2>1. \A x \in D : f[x] = At(f, x)
    BY <1>8, <1>13 DEF IsGoing, GoesOn
  <2> HIDE DEF At
  <2> QED
    BY <1>13, <2>1 DEF IsGoing
<1>15. r = [x \in D |-> At(r, x)]
  <2> HIDE DEF At
  <2> QED
    BY <1>14 DEF r
<1>16. \A x \in D : r[x] = At(r, x)
  <2> HIDE DEF At
  <2> QED
    BY <1>15
<1>17. ASSUME NEW G \in SUBSET D, start \in G, \A x \in G : x.owners # {} => After(x) \in G
       PROVE  \E x \in G : x.owners = {} /\ r[start] = x.met
  <2>1. Shrinks(G, size, N, ends, next)
    BY <1>8, <1>11, <1>17 DEF Shrinks
  <2>2. GoesOn(r, G, ends, last, next)
    BY <1>8, <1>16 DEF GoesOn
  <2>3. \E x \in G : x \in ends /\ r[start] = last[x]
    BY <2>1, <2>2, <1>10, <1>17, ShrinkingEnds
  <2> QED
    BY <2>3, <1>8
<1>18. HoldsUsed(r[start], p)
  <2> DEFINE Closed(x) == \A q \in x.met \cup {p} : q \in x.owners \/ ProvidersOf(q) \subseteq x.met
             G == {x \in D : Closed(x)}
  <2>1. start \in G
    BY <1>6
  <2>2. \A x \in G : After(x) \in G
    BY <1>4, <1>7
  <2>3. \A x \in G : x.owners = {} => HoldsUsed(x.met, p)
    BY DEF HoldsUsed
  <2>4. G \in SUBSET D
    OBVIOUS
  <2> HIDE DEF G
  <2> QED
    BY <2>1, <2>2, <2>3, <2>4, <1>17
<1>19. ASSUME NEW X \in SUBSET P, HoldsUsed(X, p)
       PROVE  r[start] \subseteq X
  <2> DEFINE G == {x \in D : x.met \subseteq X /\ x.owners \subseteq X \cup {p}}
  <2>1. start \in G
    BY <1>6
  <2>2. \A x \in G : After(x) \in G
    BY <1>5, <1>7, <1>19
  <2>3. \A x \in G : x.met \subseteq X
    OBVIOUS
  <2>4. G \in SUBSET D
    OBVIOUS
  <2> HIDE DEF G
  <2> QED
    BY <2>1, <2>2, <2>3, <2>4, <1>17
<1> QED
  BY <1>1, <1>18, <1>19 DEF P

\* Whoever runs on p has p among what it runs on, and the other way round.
LEMMA UsersAndUses ==
    ASSUME TypeOK, NEW p \in Peripherals, NEW q \in Peripherals,
           \A o \in Peripherals : ProvidersOf(o) # {} => o \in bound
    PROVE  q \in Users(p) <=> p \in Uses(q)
<1>1. ASSUME q \in Users(p) PROVE p \in Uses(q)
  <2> DEFINE X == {o \in Peripherals : p \in Uses(o)}
  <2>1. ASSUME NEW o \in bound, ProvidersOf(o) \cap (X \cup {p}) # {}
        PROVE  o \in X
    <3>1. PICK s \in ProvidersOf(o) : s \in X \cup {p}
      BY <2>1
    <3>2. o \in Peripherals /\ s \in Peripherals
      BY ProvidersArePeripherals
    <3>3. HoldsUsed(Uses(o), o) /\ Uses(o) \in SUBSET Peripherals
      <4>1. HoldsUsed(Peripherals, o)
        BY <3>2, ProvidersArePeripherals DEF HoldsUsed
      <4> QED
        BY <4>1, <3>2, UsesAre
    <3>4. s \in Uses(o)
      BY <3>3 DEF HoldsUsed
    <3>5. HoldsUsed(Uses(o), s)
      BY <3>3, <3>4 DEF HoldsUsed
    <3>6. Uses(s) \subseteq Uses(o)
      BY <3>2, <3>3, <3>5, UsesAre
    <3> QED
      BY <3>1, <3>2, <3>4, <3>6
  <2>2. HoldsUsers(X, p)
    BY <2>1 DEF HoldsUsers
  <2>3. X \in SUBSET Peripherals
    OBVIOUS
  <2>4. q \in X
    <3> HIDE DEF X
    <3> QED
      BY <1>1, <2>2, <2>3, UsersAre
  <2> QED
    BY <2>4
<1>2. ASSUME p \in Uses(q), q \notin Users(p) PROVE FALSE
  <2> DEFINE X == Peripherals \ (Users(p) \cup {p})
  <2>1. HoldsUsers(Users(p), p)
    BY UsersAre
  <2>2. \A o \in Peripherals \ Users(p) : ProvidersOf(o) \subseteq X
    BY <2>1, ProvidersArePeripherals DEF HoldsUsers
  <2>3. HoldsUsed(X, q)
    BY <2>2, <1>2 DEF HoldsUsed
  <2>4. X \in SUBSET Peripherals /\ p \notin X
    OBVIOUS
  <2> HIDE DEF X
  <2> QED
    BY <2>3, <2>4, <1>2, UsesAre
<1> QED
  BY <1>1, <1>2

-----------------------------------------------------------------------------
(* What a narrower round used is used in a wider one in which nobody is left unbound. *)

\* Some need of the owner is bound to e.
Has(w, p, so, e) == \E i \in DOMAIN w.needs[p] : e \in so.holds[i]

\* Two turns of an owner, the second with fewer endpoints free, before its need k + 1: what
\* the first took is taken in the second, and what it holds is taken or held there.
Behind(w, p, before, so0, so, k) ==
    /\ so0.bound
    /\ \A e \in Endpoints :
          /\ so.taken[e] = Nobody => so0.taken[e] = Nobody
          /\ before[e] # Nobody => so.taken[e] # Nobody
          /\ so.taken[e] # Nobody => before[e] # Nobody \/ Has(w, p, so, e)
          /\ Has(w, p, so0, e) => before[e] # Nobody \/ Has(w, p, so, e)
    /\ \A i \in DOMAIN w.needs[p] : i > k => so.holds[i] = {}

\* Where fewer are free, what is chosen of more is chosen too, or taken.
LEMMA ChosenOfFewer ==
    ASSUME NEW w \in World, NEW p \in Peripherals, NEW i \in DOMAIN w.needs[p],
           NEW S \in SUBSET Peripherals, NEW t0 \in Takers, NEW t \in Takers,
           \A e \in Endpoints : t[e] = Nobody => t0[e] = Nobody
    PROVE  /\ \A e \in Chosen(w, p, i, S, t0) : t[e] # Nobody \/ e \in Chosen(w, p, i, S, t)
           /\ Chosen(w, p, i, S, t) # {} => Chosen(w, p, i, S, t0) # {}
<1> DEFINE free0 == {e \in Candidates(w, p, i, S) : t0[e] = Nobody}
           free == {e \in Candidates(w, p, i, S) : t[e] = Nobody}
           C0 == Chosen(w, p, i, S, t0)
           C == Chosen(w, p, i, S, t)
<1>1. Candidates(w, p, i, S) \subseteq Endpoints
  <2>1. w.needs[p][i] \in Need
    BY NeedShape
  <2> QED
    BY <2>1 DEF Candidates, Need
<1>2. free \subseteq free0 /\ free0 \subseteq Endpoints /\ C \subseteq free /\ C0 \subseteq free0
  BY <1>1 DEF Chosen
<1>3. /\ C0 = IF w.needs[p][i].many THEN free0 ELSE {e \in free0 : \A f \in free0 : e <= f}
      /\ C = IF w.needs[p][i].many THEN free ELSE {e \in free : \A f \in free : e <= f}
  BY DEF Chosen
<1>4. \A e \in C0 : t[e] = Nobody => e \in free
  BY <1>2
<1>5. free0 # {} => C0 # {}
  <2> SUFFICES ASSUME free0 # {} PROVE C0 # {}
    OBVIOUS
  <2>1. free0 \in SUBSET Nat
    BY <1>2 DEF Endpoints
  <2> HIDE DEF free0, C0
  <2>2. \E e \in free0 : \A f \in free0 : e <= f
    BY <2>1, FirstIs
  <2> QED
    BY <2>2, <1>3
<1> HIDE DEF free0, free, C0, C
<1>6. \A e \in C0 : t[e] # Nobody \/ e \in C
  BY <1>2, <1>3, <1>4
<1>7. C # {} => C0 # {}
  BY <1>2, <1>5
<1> QED
  BY <1>6, <1>7 DEF C0, C

\* So it stays with the next need, where the second turn does not end.
LEMMA BehindGoesOn ==
    ASSUME NEW w \in World, NEW p \in Peripherals, NEW S \in SUBSET Peripherals,
           NEW before, NEW so0 \in Turn(w, p, S), NEW so \in Turn(w, p, S),
           NEW i \in DOMAIN w.needs[p], BindNext(w, p, i, S, so).bound,
           Behind(w, p, before, so0, so, i - 1)
    PROVE  Behind(w, p, before, BindNext(w, p, i, S, so0), BindNext(w, p, i, S, so), i)
<1> DEFINE C0 == Chosen(w, p, i, S, so0.taken)
           C == Chosen(w, p, i, S, so.taken)
           next0 == BindNext(w, p, i, S, so0)
           next == BindNext(w, p, i, S, so)
<1>1. /\ so0.taken \in Takers /\ so.taken \in Takers /\ so0.bound
      /\ so0.holds \in [DOMAIN w.needs[p] -> SUBSET Endpoints]
      /\ so.holds \in [DOMAIN w.needs[p] -> SUBSET Endpoints]
  BY DEF Turn, Behind, Provided
<1>2. \A e \in Endpoints : so.taken[e] = Nobody => so0.taken[e] = Nobody
  BY DEF Behind
<1>3. (\A e \in C0 : so.taken[e] # Nobody \/ e \in C) /\ (C # {} => C0 # {})
  <2> DEFINE t0 == so0.taken
             t == so.taken
  <2>1. t0 \in Takers /\ t \in Takers /\ \A e \in Endpoints : t[e] = Nobody => t0[e] = Nobody
    BY <1>1, <1>2
  <2> HIDE DEF t0, t
  <2>2. /\ \A e \in Chosen(w, p, i, S, t0) : t[e] # Nobody \/ e \in Chosen(w, p, i, S, t)
        /\ Chosen(w, p, i, S, t) # {} => Chosen(w, p, i, S, t0) # {}
    BY <2>1, ChosenOfFewer
  <2> QED
    BY <2>2 DEF t0, t
<1>4. C0 \subseteq Endpoints /\ C \subseteq Endpoints
  BY <1>1, ChosenIsFree DEF Takers
<1> HIDE DEF C0, C
<1>5. /\ so.bound /\ ~ (C = {} /\ w.needs[p][i].required)
      /\ next = [bound |-> TRUE, holds |-> [so.holds EXCEPT ![i] = C], taken |-> Take(w, p, C, so.taken)]
  <2>1. BindTo(w, p, i, C, so).bound /\ next = BindTo(w, p, i, C, so)
    BY DEF BindNext, C
  <2> HIDE DEF next
  <2> QED
    BY <2>1 DEF BindTo
<1>6. next0 = [bound |-> TRUE, holds |-> [so0.holds EXCEPT ![i] = C0], taken |-> Take(w, p, C0, so0.taken)]
  <2>1. ~ (C0 = {} /\ w.needs[p][i].required) /\ next0 = BindTo(w, p, i, C0, so0)
    BY <1>3, <1>5 DEF BindNext, C0
  <2> HIDE DEF next0
  <2> QED
    BY <2>1, <1>1 DEF BindTo
<1> HIDE DEF next, next0
<1>7. /\ \A e \in Endpoints : next.taken[e] = IF e \in C \ w.shared THEN p ELSE so.taken[e]
      /\ \A e \in Endpoints : next0.taken[e] = IF e \in C0 \ w.shared THEN p ELSE so0.taken[e]
  <2> DEFINE t0 == so0.taken
             t == so.taken
  <2>1. /\ t0 \in [Endpoints -> Peripherals \cup {Nobody}] /\ t \in [Endpoints -> Peripherals \cup {Nobody}]
        /\ C0 \in SUBSET Endpoints /\ C \in SUBSET Endpoints
    BY <1>1, <1>4 DEF Takers
  <2>2. next.taken = Take(w, p, C, t) /\ next0.taken = Take(w, p, C0, t0)
    BY <1>5, <1>6
  <2> HIDE DEF t0, t
  <2>3. /\ \A e \in Endpoints : Take(w, p, C, t)[e] = IF e \in C \ w.shared THEN p ELSE t[e]
        /\ \A e \in Endpoints : Take(w, p, C0, t0)[e] = IF e \in C0 \ w.shared THEN p ELSE t0[e]
    <3>1. \A e \in Endpoints : Take(w, p, C, t)[e] = IF e \in C \ w.shared THEN p ELSE t[e]
      BY <2>1, TakeMarks
    <3>2. \A e \in Endpoints : Take(w, p, C0, t0)[e] = IF e \in C0 \ w.shared THEN p ELSE t0[e]
      BY <2>1, TakeMarks
    <3> QED
      BY <3>1, <3>2
  <2> QED
    BY <2>2, <2>3 DEF t0, t
<1>8. /\ \A j \in DOMAIN w.needs[p] : next.holds[j] = IF j = i THEN C ELSE so.holds[j]
      /\ \A j \in DOMAIN w.needs[p] : next0.holds[j] = IF j = i THEN C0 ELSE so0.holds[j]
  BY <1>1, <1>5, <1>6
<1>9. p # Nobody
  BY DEF Peripherals, Nobody
<1>10. \A j \in DOMAIN w.needs[p] : j \in Nat /\ (j > i => j > i - 1) /\ i > i - 1
  <2>1. \A j \in DOMAIN w.needs[p] : j \in Nat
    BY NeedShape
  <2> QED
    BY <2>1
<1>11. \A e \in Endpoints : Has(w, p, next, e) <=> Has(w, p, so, e) \/ e \in C
  <2>1. so.holds[i] = {}
    BY <1>10 DEF Behind
  <2> QED
    BY <2>1, <1>8 DEF Has
<1>12. \A e \in Endpoints : Has(w, p, next0, e) => Has(w, p, so0, e) \/ e \in C0
  BY <1>8 DEF Has
<1>13. \A e \in Endpoints :
          /\ next.taken[e] = Nobody => next0.taken[e] = Nobody
          /\ before[e] # Nobody => next.taken[e] # Nobody
          /\ next.taken[e] # Nobody => before[e] # Nobody \/ Has(w, p, next, e)
          /\ Has(w, p, next0, e) => before[e] # Nobody \/ Has(w, p, next, e)
  BY <1>3, <1>7, <1>9, <1>11, <1>12 DEF Behind
<1>14. \A j \in DOMAIN w.needs[p] : j > i => next.holds[j] = {}
  BY <1>8, <1>10 DEF Behind
<1>15. next0.bound
  BY <1>6
<1> QED
  BY <1>13, <1>14, <1>15 DEF Behind, next, next0

\* A turn that ends bound was bound all along.
LEMMA BoundAllAlong ==
    ASSUME NEW w \in World, NEW p \in Peripherals, NEW S \in SUBSET Peripherals,
           NEW before \in Takers, NEW n \in 0..Len(w.needs[p]),
           BindOwner(w, p, S, before).bound
    PROVE  OwnerUpTo(w, p, S, before)[n].bound
BY LeftOutStays

\* The whole turns: the one with more endpoints free ends bound too, and what it took and
\* holds is taken or held in the other.
LEMMA TurnBehind ==
    ASSUME NEW w \in World, NEW p \in Peripherals, NEW S \in SUBSET Peripherals,
           NEW before0 \in Takers, NEW before \in Takers,
           \A e \in Endpoints : before[e] = Nobody => before0[e] = Nobody,
           BindOwner(w, p, S, before).bound
    PROVE  Behind(w, p, before, BindOwner(w, p, S, before0), BindOwner(w, p, S, before),
                  Len(w.needs[p]))
<1> DEFINE N == Len(w.needs[p])
           v0 == OwnerUpTo(w, p, S, before0)
           v == OwnerUpTo(w, p, S, before)
           T == {n \in 0..N : Behind(w, p, before, v0[n], v[n], n)}
<1>1. N \in Nat /\ DOMAIN w.needs[p] = 1..N
  <2>1. w.needs[p] \in Seq(Need)
    BY DEF World
  <2> QED
    BY <2>1
<1>2. /\ v[0] = [bound |-> TRUE, holds |-> Unbound(w, p), taken |-> before]
      /\ \A n \in 1..N : v[n] = BindNext(w, p, n, S, v[n - 1])
      /\ \A n \in 0..N : v[n] \in Turn(w, p, S)
      /\ BindOwner(w, p, S, before) = v[N]
  <2>1. v[0] = [bound |-> TRUE, holds |-> Unbound(w, p), taken |-> before]
    BY TurnStarts
  <2>2. \A n \in 1..N : v[n] = BindNext(w, p, n, S, v[n - 1])
    BY TurnNext
  <2>3. \A n \in 0..N : v[n] \in Turn(w, p, S)
    BY TurnUnfolds
  <2>4. BindOwner(w, p, S, before) = v[N]
    BY DEF BindOwner, OwnerUpTo
  <2> HIDE DEF v, N
  <2> QED
    BY <2>1, <2>2, <2>3, <2>4
<1>3. /\ v0[0] = [bound |-> TRUE, holds |-> Unbound(w, p), taken |-> before0]
      /\ \A n \in 1..N : v0[n] = BindNext(w, p, n, S, v0[n - 1])
      /\ \A n \in 0..N : v0[n] \in Turn(w, p, S)
      /\ BindOwner(w, p, S, before0) = v0[N]
  <2>1. v0[0] = [bound |-> TRUE, holds |-> Unbound(w, p), taken |-> before0]
    BY TurnStarts
  <2>2. \A n \in 1..N : v0[n] = BindNext(w, p, n, S, v0[n - 1])
    BY TurnNext
  <2>3. \A n \in 0..N : v0[n] \in Turn(w, p, S)
    BY TurnUnfolds
  <2>4. BindOwner(w, p, S, before0) = v0[N]
    BY DEF BindOwner, OwnerUpTo
  <2> HIDE DEF v0, N
  <2> QED
    BY <2>1, <2>2, <2>3, <2>4
<1>4. \A n \in 0..N : v[n].bound
  BY BoundAllAlong
<1> HIDE DEF v0, v
<1>5. 0 \in T
  <2>1. /\ v0[0].bound /\ v0[0].taken = before0 /\ v[0].taken = before
        /\ v0[0].holds = Unbound(w, p) /\ v[0].holds = Unbound(w, p)
    BY <1>2, <1>3
  <2>2. \A i \in DOMAIN w.needs[p] : Unbound(w, p)[i] = {}
    BY DEF Unbound
  <2>3. Behind(w, p, before, v0[0], v[0], 0)
    BY <2>1, <2>2 DEF Behind, Has
  <2>4. 0 \in 0..N
    BY <1>1
  <2> QED
    BY <2>3, <2>4
<1>6. ASSUME NEW n \in 1..N, n - 1 \in T PROVE n \in T
  <2> DEFINE so0 == v0[n - 1]
             so == v[n - 1]
  <2>1. n - 1 \in 0..N /\ n \in 0..N /\ n \in DOMAIN w.needs[p]
    BY <1>1
  <2>2. so0 \in Turn(w, p, S) /\ so \in Turn(w, p, S) /\ Behind(w, p, before, so0, so, n - 1)
    BY <2>1, <1>2, <1>3, <1>6
  <2>3. v0[n] = BindNext(w, p, n, S, so0) /\ v[n] = BindNext(w, p, n, S, so)
    BY <1>2, <1>3
  <2>4. BindNext(w, p, n, S, so).bound
    BY <2>1, <2>3, <1>4
  <2> HIDE DEF so0, so
  <2>5. Behind(w, p, before, BindNext(w, p, n, S, so0), BindNext(w, p, n, S, so), n)
    BY <2>1, <2>2, <2>4, BehindGoesOn
  <2> QED
    BY <2>1, <2>3, <2>5
<1>7. \A n \in 0..N : n \in T
  <2> HIDE DEF T
  <2> QED
    BY <1>1, <1>5, <1>6, CountsUp
<1>8. N \in T
  BY <1>1, <1>7
<1> QED
  BY <1>2, <1>3, <1>8

\* The whole of it is a turn.
LEMMA OwnerIsTurn ==
    ASSUME NEW w \in World, NEW p \in Peripherals, NEW S \in SUBSET Peripherals,
           NEW before \in Takers
    PROVE  BindOwner(w, p, S, before) \in Turn(w, p, S)
<1> DEFINE v == OwnerUpTo(w, p, S, before)
<1>1. Len(w.needs[p]) \in 0..Len(w.needs[p])
  <2>1. w.needs[p] \in Seq(Need)
    BY DEF World
  <2> QED
    BY <2>1
<1>2. \A n \in 0..Len(w.needs[p]) : v[n] \in Turn(w, p, S)
  BY TurnUnfolds
<1>3. BindOwner(w, p, S, before) = v[Len(w.needs[p])]
  BY DEF BindOwner, OwnerUpTo
<1> HIDE DEF v
<1> QED
  BY <1>1, <1>2, <1>3

\* Some bound one holds e.
Bound(so, e) == \E q \in so.bound : e \in HeldBy(so.holds, q)

\* Two rounds before owner n + 1, the second with more wanted.
RoundBehind(x0, x, n) ==
    /\ \A q \in x0.bound \cup x.bound : q <= n
    /\ \A e \in Endpoints :
          /\ x.taken[e] = Nobody => x0.taken[e] = Nobody
          /\ x.taken[e] # Nobody => Bound(x, e)
          /\ Bound(x0, e) => Bound(x, e)

\* So it stays with the turn of the next owner, where the second leaves nobody unbound.
LEMMA RoundBehindGoesOn ==
    ASSUME NEW w \in World, NEW p \in Peripherals, NEW S \in SUBSET Peripherals,
           NEW W0, NEW W, W0 \subseteq W, NEW x0 \in SoFar(w, S), NEW x \in SoFar(w, S),
           RoundBehind(x0, x, p - 1), p \in W => BindOwner(w, p, S, x.taken).bound
    PROVE  RoundBehind(IF p \in W0 THEN AddOwner(w, p, S, x0) ELSE x0,
                       IF p \in W THEN AddOwner(w, p, S, x) ELSE x, p)
<1> DEFINE mine0 == BindOwner(w, p, S, x0.taken)
           mine == BindOwner(w, p, S, x.taken)
           y0 == IF p \in W0 THEN AddOwner(w, p, S, x0) ELSE x0
           y == IF p \in W THEN AddOwner(w, p, S, x) ELSE x
<1>1. /\ x0.taken \in Takers /\ x.taken \in Takers
      /\ x0.bound \subseteq Peripherals /\ x.bound \subseteq Peripherals
      /\ DOMAIN x0.holds = Peripherals /\ DOMAIN x.holds = Peripherals
  BY DEF SoFar
<1>2. /\ \A q \in x0.bound \cup x.bound : q <= p - 1
      /\ p \in Nat /\ \A q \in Peripherals : q <= p - 1 => q <= p /\ q # p
  BY DEF RoundBehind, Peripherals
<1>3. CASE p \notin W
  <2>1. y0 = x0 /\ y = x
    BY <1>3
  <2> HIDE DEF y0, y
  <2>2. RoundBehind(x0, x, p)
    BY <1>1, <1>2 DEF RoundBehind
  <2> QED
    BY <2>1, <2>2 DEF y0, y
<1>4. CASE p \in W
  <2>1. mine.bound /\ y = AddOwner(w, p, S, x)
    BY <1>4
  <2>2. Behind(w, p, x.taken, mine0, mine, Len(w.needs[p]))
    <3> DEFINE t0 == x0.taken
               t == x.taken
    <3>1. /\ t0 \in Takers /\ t \in Takers /\ BindOwner(w, p, S, t).bound
          /\ \A e \in Endpoints : t[e] = Nobody => t0[e] = Nobody
      BY <1>1, <2>1 DEF RoundBehind
    <3> HIDE DEF t0, t
    <3>2. Behind(w, p, t, BindOwner(w, p, S, t0), BindOwner(w, p, S, t), Len(w.needs[p]))
      BY <3>1, TurnBehind
    <3> QED
      BY <3>2 DEF t0, t
  <2>3. /\ y.bound = x.bound \cup {p} /\ y.taken = mine.taken
        /\ y.holds = [x.holds EXCEPT ![p] = mine.holds]
    BY <2>1 DEF AddOwner, Added
  <2>4. p \in W0 => /\ y0.bound = x0.bound \cup {p} /\ y0.taken = mine0.taken
                    /\ y0.holds = [x0.holds EXCEPT ![p] = mine0.holds]
    BY <2>2 DEF AddOwner, Added, Behind
  <2>5. p \notin W0 => y0 = x0
    OBVIOUS
  <2> HIDE DEF y, y0
  <2>6. DOMAIN mine.holds = DOMAIN w.needs[p] /\ DOMAIN mine0.holds = DOMAIN w.needs[p]
    <3>1. mine \in Turn(w, p, S) /\ mine0 \in Turn(w, p, S)
      BY <1>1, OwnerIsTurn
    <3> HIDE DEF mine, mine0
    <3> QED
      BY <3>1 DEF Turn
  <2>7. \A e : Bound(y, e) <=> Bound(x, e) \/ Has(w, p, mine, e)
    <3>1. /\ \A q \in x.bound : y.holds[q] = x.holds[q]
          /\ y.holds[p] = mine.holds
      BY <1>1, <1>2, <2>3
    <3> QED
      BY <3>1, <2>3, <2>6 DEF Bound, HeldBy, Has
  <2>8. p \in W0 => \A e : Bound(y0, e) <=> Bound(x0, e) \/ Has(w, p, mine0, e)
    <3> SUFFICES ASSUME p \in W0 PROVE \A e : Bound(y0, e) <=> Bound(x0, e) \/ Has(w, p, mine0, e)
      OBVIOUS
    <3>1. /\ \A q \in x0.bound : y0.holds[q] = x0.holds[q]
          /\ y0.holds[p] = mine0.holds
      BY <1>1, <1>2, <2>4
    <3> QED
      BY <3>1, <2>4, <2>6 DEF Bound, HeldBy, Has
  <2>9. \A q \in y0.bound \cup y.bound : q <= p
    <3>1. y0.bound \cup y.bound \subseteq x0.bound \cup x.bound \cup {p}
      BY <2>3, <2>4, <2>5
    <3>2. \A q \in x0.bound \cup x.bound : q <= p
      BY <1>1, <1>2
    <3>3. p <= p
      BY <1>2
    <3> QED
      BY <3>1, <3>2, <3>3
  <2> HIDE DEF mine, mine0
  <2>10. ASSUME NEW e \in Endpoints
         PROVE  /\ y.taken[e] = Nobody => y0.taken[e] = Nobody
                /\ y.taken[e] # Nobody => Bound(y, e)
                /\ Bound(y0, e) => Bound(y, e)
    BY <2>2, <2>3, <2>4, <2>5, <2>7, <2>8 DEF RoundBehind, Behind
  <2> QED
    BY <2>9, <2>10 DEF RoundBehind, y, y0
<1> QED
  BY <1>3, <1>4

\* A round goes on with the next owner.
LEMMA RoundNext ==
    ASSUME NEW w \in World, NEW W \in SUBSET Peripherals, NEW S \in SUBSET Peripherals
    PROVE  \A n \in Peripherals :
               BindUpTo(w, W, S)[n] = IF n \in W THEN AddOwner(w, n, S, BindUpTo(w, W, S)[n - 1])
                                      ELSE BindUpTo(w, W, S)[n - 1]
<1> DEFINE u == BindUpTo(w, W, S)
<1>1. /\ u[0] = NoneBound(w)
      /\ \A n \in Peripherals :
            u[n] = IF n \in W THEN AddOwner(w, n, S, u[n - 1]) ELSE u[n - 1]
      /\ \A n \in 0..NumPeripherals : u[n] \in SoFar(w, S)
      /\ Bind(w, W, S) = u[NumPeripherals]
  BY RoundUnfolds, Zenon
<1> QED
  BY <1>1, Zenon

\* One that a round ends with bound was bound in its own turn.
LEMMA BoundInTurn ==
    ASSUME NEW w \in World, NEW W \in SUBSET Peripherals, NEW S \in SUBSET Peripherals,
           NEW p \in W, p \in Bind(w, W, S).bound
    PROVE  BindOwner(w, p, S, BindUpTo(w, W, S)[p - 1].taken).bound
<1> DEFINE u == BindUpTo(w, W, S)
           N == NumPeripherals
           T == {n \in 0..N : \A q \in u[n].bound : q <= n /\ q \in u[q].bound}
<1>1. N \in Nat /\ Peripherals = 1..N
  BY NumAssumption DEF Peripherals
<1>2. /\ u[0] = NoneBound(w)
      /\ \A n \in Peripherals : u[n] = IF n \in W THEN AddOwner(w, n, S, u[n - 1]) ELSE u[n - 1]
      /\ \A n \in 0..N : u[n] \in SoFar(w, S)
      /\ Bind(w, W, S) = u[N]
  <2>1. u[0] = NoneBound(w)
    BY BindStarts
  <2>2. \A n \in Peripherals : u[n] = IF n \in W THEN AddOwner(w, n, S, u[n - 1]) ELSE u[n - 1]
    BY RoundNext
  <2>3. \A n \in 0..N : u[n] \in SoFar(w, S)
    BY RoundUnfolds
  <2>4. Bind(w, W, S) = u[N]
    BY DEF Bind, BindUpTo
  <2> HIDE DEF u, N
  <2> QED
    BY <2>1, <2>2, <2>3, <2>4
<1> HIDE DEF u, N
<1>3. \A n \in 0..N : u[n].bound \subseteq Peripherals
  BY <1>2 DEF SoFar
<1>4. 0 \in T
  BY <1>1, <1>2 DEF NoneBound
<1>5. ASSUME NEW n \in 1..N PROVE u[n].bound \subseteq u[n - 1].bound \cup {n}
  <2> DEFINE x == u[n - 1]
  <2>1. u[n] = AddOwner(w, n, S, x) \/ u[n] = x
    BY <1>1, <1>2
  <2> HIDE DEF x
  <2>2. AddOwner(w, n, S, x).bound \subseteq x.bound \cup {n}
    BY DEF AddOwner, Added
  <2> QED
    BY <2>1, <2>2 DEF x
<1>6. ASSUME NEW n \in 1..N, n - 1 \in T PROVE n \in T
  <2>1. n \in 0..N /\ n - 1 \in 0..N
    BY <1>1
  <2>2. ASSUME NEW q \in u[n].bound PROVE q <= n /\ q \in u[q].bound
    <3>1. CASE q = n
      BY <3>1, <2>1
    <3>2. CASE q # n
      <4>1. q \in u[n - 1].bound /\ q \in Nat
        BY <3>2, <1>1, <1>3, <1>5, <2>1
      <4>2. q <= n - 1 /\ q \in u[q].bound
        BY <4>1, <1>6
      <4> QED
        BY <4>1, <4>2
    <3> QED
      BY <3>1, <3>2
  <2> QED
    BY <2>1, <2>2
<1>7. \A n \in 0..N : n \in T
  <2> HIDE DEF T
  <2> QED
    BY <1>1, <1>4, <1>6, CountsUp
<1>8. /\ p \in Peripherals /\ p \in 1..N /\ p - 1 \in 0..N
      /\ p \in u[p].bound /\ p \notin u[p - 1].bound
  <2>1. p \in 1..N /\ p - 1 \in 0..N /\ N \in 0..N
    BY <1>1
  <2>2. p \in u[p].bound
    BY <2>1, <1>2, <1>7
  <2>3. ASSUME p \in u[p - 1].bound PROVE FALSE
    <3>1. p <= p - 1
      BY <2>1, <2>3, <1>7
    <3> QED
      BY <3>1, <2>1
  <2> QED
    BY <2>1, <2>2, <2>3
<1>9. u[p] = AddOwner(w, p, S, u[p - 1])
  BY <1>2, <1>8
<1> QED
  BY <1>8, <1>9 DEF AddOwner, Added, u

\* What is used with fewer wanted is used with more, where nobody is left unbound then.
LEMMA StillUsed ==
    ASSUME NEW w \in World, NEW S \in SUBSET Peripherals, NEW W \in SUBSET Peripherals,
           NEW W0 \in SUBSET W, W \subseteq Bind(w, W, S).bound
    PROVE  Used(w, Bind(w, W0, S)) \subseteq Used(w, Bind(w, W, S))
<1> DEFINE u0 == BindUpTo(w, W0, S)
           u == BindUpTo(w, W, S)
           N == NumPeripherals
           T == {n \in 0..N : RoundBehind(u0[n], u[n], n)}
<1>1. N \in Nat /\ Peripherals = 1..N /\ W0 \in SUBSET Peripherals
  BY NumAssumption DEF Peripherals
<1>2. /\ u[0] = NoneBound(w)
      /\ \A n \in Peripherals : u[n] = IF n \in W THEN AddOwner(w, n, S, u[n - 1]) ELSE u[n - 1]
      /\ \A n \in 0..N : u[n] \in SoFar(w, S)
      /\ Bind(w, W, S) = u[N]
  <2>1. u[0] = NoneBound(w)
    BY BindStarts
  <2>2. \A n \in Peripherals : u[n] = IF n \in W THEN AddOwner(w, n, S, u[n - 1]) ELSE u[n - 1]
    BY RoundNext
  <2>3. \A n \in 0..N : u[n] \in SoFar(w, S)
    BY RoundUnfolds
  <2>4. Bind(w, W, S) = u[N]
    BY DEF Bind, BindUpTo
  <2> HIDE DEF u, N
  <2> QED
    BY <2>1, <2>2, <2>3, <2>4
<1>3. /\ u0[0] = NoneBound(w)
      /\ \A n \in Peripherals : u0[n] = IF n \in W0 THEN AddOwner(w, n, S, u0[n - 1]) ELSE u0[n - 1]
      /\ \A n \in 0..N : u0[n] \in SoFar(w, S)
      /\ Bind(w, W0, S) = u0[N]
  <2>1. u0[0] = NoneBound(w)
    BY <1>1, BindStarts
  <2>2. \A n \in Peripherals : u0[n] = IF n \in W0 THEN AddOwner(w, n, S, u0[n - 1]) ELSE u0[n - 1]
    BY <1>1, RoundNext
  <2>3. \A n \in 0..N : u0[n] \in SoFar(w, S)
    BY <1>1, RoundUnfolds
  <2>4. Bind(w, W0, S) = u0[N]
    BY DEF Bind, BindUpTo
  <2> HIDE DEF u0, N
  <2> QED
    BY <2>1, <2>2, <2>3, <2>4
<1>4. \A n \in W : BindOwner(w, n, S, u[n - 1].taken).bound
  BY BoundInTurn
<1> HIDE DEF u0, u, N
<1>5. 0 \in T
  <2>1. /\ NoneBound(w).bound = {} /\ NoneBound(w).taken = NoTakers
        /\ \A e \in Endpoints : NoTakers[e] = Nobody
    BY DEF NoneBound, NoTakers
  <2>2. RoundBehind(NoneBound(w), NoneBound(w), 0)
    BY <2>1 DEF RoundBehind, Bound
  <2> QED
    BY <2>2, <1>1, <1>2, <1>3
<1>6. ASSUME NEW n \in 1..N, n - 1 \in T PROVE n \in T
  <2> DEFINE x0 == u0[n - 1]
             x == u[n - 1]
  <2>1. n \in Peripherals /\ n - 1 \in 0..N /\ n \in 0..N
    BY <1>1
  <2>2. x0 \in SoFar(w, S) /\ x \in SoFar(w, S) /\ RoundBehind(x0, x, n - 1)
    BY <2>1, <1>2, <1>3, <1>6
  <2>3. n \in W => BindOwner(w, n, S, x.taken).bound
    BY <1>4
  <2>4. /\ u0[n] = IF n \in W0 THEN AddOwner(w, n, S, x0) ELSE x0
        /\ u[n] = IF n \in W THEN AddOwner(w, n, S, x) ELSE x
    BY <2>1, <1>2, <1>3
  <2> HIDE DEF x0, x
  <2>5. RoundBehind(IF n \in W0 THEN AddOwner(w, n, S, x0) ELSE x0,
                    IF n \in W THEN AddOwner(w, n, S, x) ELSE x, n)
    BY <2>1, <2>2, <2>3, RoundBehindGoesOn
  <2>6. RoundBehind(u0[n], u[n], n)
    BY <2>4, <2>5
  <2> QED
    BY <2>1, <2>6
<1>7. \A n \in 0..N : n \in T
  <2> HIDE DEF T
  <2> QED
    BY <1>1, <1>5, <1>6, CountsUp
<1>8. RoundBehind(u0[N], u[N], N) /\ u0[N] \in SoFar(w, S)
  <2>1. N \in 0..N
    BY <1>1
  <2> QED
    BY <2>1, <1>3, <1>7
<1> DEFINE b0 == u0[N]
           b == u[N]
<1>9. b0 \in SoFar(w, S) /\ \A e \in Endpoints : Bound(b0, e) => Bound(b, e)
  BY <1>8 DEF RoundBehind
<1>10. Bind(w, W0, S) = b0 /\ Bind(w, W, S) = b
  BY <1>2, <1>3
<1> HIDE DEF b0, b
<1>11. \A q \in b0.bound : HeldBy(b0.holds, q) \subseteq Endpoints
  <2>1. b0.bound \subseteq Peripherals
    BY <1>9 DEF SoFar
  <2>2. \A q \in Peripherals : b0.holds[q] \in [DOMAIN w.needs[q] -> SUBSET Endpoints]
    BY <1>9 DEF SoFar, Provided
  <2> QED
    BY <2>1, <2>2 DEF HeldBy
<1>12. \A e : Bound(b0, e) => e \in Endpoints /\ Bound(b, e)
  BY <1>9, <1>11 DEF Bound
<1>13. Used(w, b0) \subseteq Used(w, b)
  BY <1>12 DEF Used, Bound
<1> QED
  BY <1>10, <1>13

-----------------------------------------------------------------------------
(* An on-demand peripheral is only wanted while it is used. *)

\* Where each wanted on-demand peripheral is one a bound one runs on, going up from it comes
\* to one that runs anyway, or goes round.
LEMMA UsedFromAbove ==
    ASSUME TypeOK, bound \subseteq wanted,
           \A q \in wanted \cap world.onDemand : \E r \in bound : q \in ProvidersOf(r),
           NEW p \in wanted \cap world.onDemand
    PROVE  Users(p) \ world.onDemand # {} \/ \E q \in Users(p) : q \in Users(q)
<1> SUFFICES ASSUME Users(p) \subseteq world.onDemand,
                    \A q \in Users(p) : q \notin Users(q)
             PROVE  FALSE
  OBVIOUS
<1>1. wanted \subseteq Peripherals /\ bound \subseteq Peripherals /\ IsFiniteSet(bound)
  BY FinitelyMany, FS_Subset DEF TypeOK
<1>2. ASSUME NEW q \in Peripherals
      PROVE  HoldsUsers(Users(q), q) /\ Users(q) \subseteq bound
  <2>1. HoldsUsers(bound, q) /\ bound \in SUBSET Peripherals
    BY <1>1 DEF HoldsUsers
  <2> QED
    BY <2>1, UsersAre
<1> DEFINE K == Users(p) \cup {p}
           sizes == {Cardinality(Users(q)) : q \in K}
<1>3. K \subseteq wanted \cap world.onDemand /\ p \in K
  BY <1>1, <1>2
<1>4. \A q \in K : /\ q \in Peripherals /\ Users(q) \subseteq bound
                   /\ IsFiniteSet(Users(q)) /\ Cardinality(Users(q)) \in Nat
  BY <1>1, <1>2, <1>3, FS_Subset, FS_CardinalityType
<1>5. PICK q \in K : \A r \in K : Cardinality(Users(q)) <= Cardinality(Users(r))
  <2>1. sizes \in SUBSET Nat /\ sizes # {}
    BY <1>3, <1>4
  <2>2. PICK m \in sizes : \A n \in sizes : m <= n
    <3> HIDE DEF sizes
    <3> QED
      BY <2>1, FirstIs
  <2> QED
    BY <2>2
<1>6. PICK r \in bound : q \in ProvidersOf(r)
  BY <1>3
<1>7. r \in Users(q) /\ r \in Users(p)
  <2>1. HoldsUsers(Users(q), q) /\ HoldsUsers(Users(p), p)
    BY <1>1, <1>2, <1>4
  <2> QED
    BY <2>1, <1>6 DEF HoldsUsers
<1>8. Users(r) \subseteq Users(q)
  <2>1. HoldsUsers(Users(q), r)
    BY <1>2, <1>4, <1>7 DEF HoldsUsers
  <2>2. Users(q) \in SUBSET Peripherals /\ r \in Peripherals
    BY <1>1, <1>4
  <2> QED
    BY <2>1, <2>2, UsersAre
<1>9. r \in K /\ r \notin Users(r)
  BY <1>7
<1>10. Cardinality(Users(r)) <= Cardinality(Users(q)) /\ Users(r) # Users(q)
  BY <1>4, <1>7, <1>8, <1>9, FS_Subset
<1>11. Cardinality(Users(r)) # Cardinality(Users(q))
  BY <1>4, <1>8, <1>10, FS_Subset
<1> HIDE DEF K
<1>12. Cardinality(Users(q)) <= Cardinality(Users(r))
  BY <1>5, <1>9
<1> QED
  BY <1>4, <1>9, <1>10, <1>11, <1>12

\* One that is not bound holds nothing, but for the owner whose turn it is.
OnlyBoundHold ==
    \A p \in Peripherals \ bound :
        p # owner \/ p \notin wanted => \A i \in DOMAIN world.needs[p] : holds[p][i] = {}

\* An on-demand one is wanted since a round in which fewer were wanted used it.
UsedBefore ==
    \A p \in wanted \cap world.onDemand :
        \E W \in SUBSET wanted : p \in Used(world, Bind(world, W, among))

UInv == AInv /\ OnlyBoundHold /\ UsedBefore

LEMMA InitUsed == Init => UInv
<1> SUFFICES ASSUME Init PROVE UInv
  OBVIOUS
<1>1. OnlyBoundHold
  BY DEF Init, OnlyBoundHold
<1>2. UsedBefore
  BY DEF Init, UsedBefore
<1> QED
  BY <1>1, <1>2, InitAgrees DEF UInv

\* A new round holds nothing.
LEMMA NewRoundHolds ==
    ASSUME NewRound, world' = world
    PROVE  OnlyBoundHold'
BY DEF NewRound, NoHolds, OnlyBoundHold

\* The turn of an owner leaves the others what they hold.
LEMMA TurnHolds ==
    ASSUME TypeOK, OnlyBoundHold, SkipUnwanted \/ BindNeed \/ FailOwner \/ BindOwnerDone
    PROVE  OnlyBoundHold'
<1>1. /\ owner \in Peripherals /\ world' = world /\ wanted' = wanted
      /\ DOMAIN holds = Peripherals
      /\ \A p \in Peripherals : holds[p] \in [DOMAIN world.needs[p] -> SUBSET Endpoints]
  BY DEF TypeOK, SkipUnwanted, BindNeed, FailOwner, BindOwnerDone, IsBinding
<1>2. owner' = owner \/ owner' = owner + 1
  BY DEF SkipUnwanted, BindNeed, FailOwner, BindOwnerDone, NextOwner
<1>3. \A p \in Peripherals \ {owner} : holds'[p] = holds[p] /\ (p \in bound' <=> p \in bound)
  BY <1>1 DEF SkipUnwanted, BindNeed, FailOwner, BindOwnerDone
<1>4. ASSUME NEW i \in DOMAIN world.needs[owner], owner \notin bound',
             owner # owner' \/ owner \notin wanted
      PROVE  holds'[owner][i] = {}
  <2>1. CASE SkipUnwanted
    BY <2>1, <1>1, <1>4 DEF SkipUnwanted, OnlyBoundHold
  <2>2. CASE BindNeed
    BY <2>2, <1>4 DEF BindNeed, IsBinding
  <2>3. CASE FailOwner
    BY <2>3, <1>1 DEF FailOwner, NoHolds
  <2>4. CASE BindOwnerDone
    BY <2>4, <1>4 DEF BindOwnerDone
  <2> QED
    BY <2>1, <2>2, <2>3, <2>4
<1>5. ASSUME NEW p \in Peripherals \ {owner}, p \notin bound', NEW i \in DOMAIN world.needs[p]
      PROVE  holds'[p][i] = {}
  BY <1>3, <1>5 DEF OnlyBoundHold
<1> QED
  BY <1>1, <1>4, <1>5 DEF OnlyBoundHold

\* More are wanted: what was used is, by the round just done.
LEMMA WidenUsed ==
    ASSUME UInv, WidenWanted
    PROVE  UsedBefore'
<1>1. /\ owner = NumPeripherals + 1 /\ wanted' = wanted \cup used
      /\ world' = world /\ among' = among
  BY DEF WidenWanted, RoundOver, among
<1>2. AInv /\ UsedBefore
  BY DEF UInv
<1>3. Used(world, Bind(world, wanted, among)) = used
  BY <1>1, <1>2, RoundDone
<1>4. ASSUME NEW p \in wanted' \cap world.onDemand
      PROVE  \E W \in SUBSET wanted' : p \in Used(world, Bind(world, W, among))
  <2>1. CASE p \in used
    BY <2>1, <1>1, <1>3
  <2>2. CASE p \in wanted
    <3>1. PICK W \in SUBSET wanted : p \in Used(world, Bind(world, W, among))
      BY <2>2, <1>2, <1>4 DEF UsedBefore
    <3>2. W \in SUBSET wanted'
      BY <1>1
    <3> QED
      BY <3>1, <3>2
  <2> QED
    BY <2>1, <2>2, <1>1, <1>4
<1> QED
  BY <1>1, <1>4 DEF UsedBefore

LEMMA NextUsed == UInv /\ [Next]_vars => UInv'
<1> SUFFICES ASSUME UInv, [Next]_vars PROVE UInv'
  OBVIOUS
<1>1. AInv' /\ TypeOK /\ OnlyBoundHold /\ UsedBefore
  BY NextAgrees DEF UInv, AInv, GInv, IInv
<1>2. CASE SkipUnwanted \/ BindNeed \/ FailOwner \/ BindOwnerDone
  <2>1. OnlyBoundHold'
    BY <1>1, <1>2, TurnHolds
  <2>2. world' = world /\ wanted' = wanted /\ among' = among
    BY <1>2 DEF SkipUnwanted, BindNeed, FailOwner, BindOwnerDone, among
  <2>3. UsedBefore'
    BY <1>1, <2>2 DEF UsedBefore
  <2> QED
    BY <1>1, <2>1, <2>3 DEF UInv
<1>3. CASE WidenWanted
  <2>1. OnlyBoundHold'
    BY <1>3, NewRoundHolds DEF WidenWanted
  <2> QED
    BY <1>1, <1>3, <2>1, WidenUsed DEF UInv
<1>4. CASE LeaveOut
  <2>1. OnlyBoundHold'
    BY <1>4, NewRoundHolds DEF LeaveOut
  <2>2. UsedBefore'
    BY <1>4 DEF LeaveOut, UsedBefore
  <2> QED
    BY <1>1, <2>1, <2>2 DEF UInv
<1>5. CASE Conclude \/ UNCHANGED vars
  <2>1. /\ UNCHANGED <<world, alive, leftOut, wanted>>
        /\ UNCHANGED <<owner, bound, holds>>
    BY <1>5 DEF Conclude, vars
  <2>2. OnlyBoundHold'
    BY <1>1, <2>1 DEF OnlyBoundHold
  <2>3. among' = among
    BY <2>1 DEF among
  <2>4. UsedBefore'
    BY <1>1, <2>1, <2>3 DEF UsedBefore
  <2> QED
    BY <1>1, <2>2, <2>4 DEF UInv
<1> QED
  BY <1>2, <1>3, <1>4, <1>5 DEF Next

\* What the binding ends with, whatever the world and whoever is alive, leaves no on-demand
\* peripheral wanted that nothing uses any more, but for one below a ring; and `users` and
\* `uses` tell the same.
THEOREM OnDemandServes == Spec => []OnDemandIsUsed
<1>1. ASSUME UInv, done PROVE OnDemandIsUsed
  <2>1. AInv /\ OnlyBoundHold /\ UsedBefore /\ TypeOK /\ BoundAreServed
    BY <1>1 DEF UInv, AInv, GInv, IInv
  <2>2. owner = NumPeripherals + 1 /\ wanted \subseteq bound
    BY <1>1, <2>1 DEF AInv, GInv, Concluded
  <2>3. /\ world \in World /\ among \in SUBSET Peripherals /\ wanted \in SUBSET Peripherals
        /\ bound \subseteq Peripherals /\ owner \notin Peripherals
    BY <2>1, <2>2, NumAssumption DEF TypeOK, among, Peripherals
  <2>4. /\ Bind(world, wanted, among).bound = bound
        /\ Used(world, Bind(world, wanted, among)) = used
    BY <2>1, <2>2, RoundDone
  <2>5. ASSUME NEW p \in wanted \cap world.onDemand
        PROVE  \E r \in bound : p \in ProvidersOf(r)
    <3>1. PICK W \in SUBSET wanted : p \in Used(world, Bind(world, W, among))
      BY <2>1 DEF UsedBefore
    <3>2. wanted \subseteq Bind(world, wanted, among).bound
      BY <2>2, <2>4
    <3>3. Used(world, Bind(world, W, among)) \subseteq Used(world, Bind(world, wanted, among))
      BY <2>3, <3>2, StillUsed
    <3>4. p \in used
      BY <2>4, <3>1, <3>3
    <3> QED
      BY <3>4 DEF used, ProvidersOf
  <2>6. bound \subseteq wanted
    BY <2>1 DEF BoundAreServed
  <2>7. \A p \in wanted \cap world.onDemand :
            Users(p) \ world.onDemand # {} \/ \E q \in Users(p) : q \in Users(q)
    BY <2>1, <2>5, <2>6, UsedFromAbove
  <2>8. \A o \in Peripherals : ProvidersOf(o) # {} => o \in bound
    <3> SUFFICES ASSUME NEW o \in Peripherals, o \notin bound PROVE ProvidersOf(o) = {}
      OBVIOUS
    <3>1. \A i \in DOMAIN world.needs[o] : holds[o][i] = {}
      BY <2>1, <2>3 DEF OnlyBoundHold
    <3>2. holds[o] \in [DOMAIN world.needs[o] -> SUBSET Endpoints]
      BY <2>1 DEF TypeOK
    <3>3. HeldBy(holds, o) = {}
      BY <3>1, <3>2 DEF HeldBy
    <3> QED
      BY <3>3 DEF ProvidersOf
  <2>9. \A p, q \in Peripherals : q \in Users(p) <=> p \in Uses(q)
    BY <2>1, <2>8, UsersAndUses
  <2> QED
    BY <2>7, <2>9 DEF OnDemandIsUsed
<1>2. UInv => OnDemandIsUsed
  BY <1>1 DEF OnDemandIsUsed
<1> QED
  BY InitUsed, NextUsed, <1>2, PTL DEF Spec

-----------------------------------------------------------------------------
(* What the function grants, wherever it is asked. *)

\* What is held for a need is accepted, of one of S, and something when the need is required.
Meets(w, p, i, S, held) ==
    /\ \A e \in held : e \in w.needs[p][i].accepts /\ w.provider[e] \in S
    /\ w.needs[p][i].required => held # {}

\* A turn so far, while its owner is not left out, meets the needs it went through.
LEMMA TurnMeets ==
    ASSUME NEW w \in World, NEW p \in Peripherals, NEW S \in SUBSET Peripherals,
           NEW before \in Takers
    PROVE  \A n \in 0..Len(w.needs[p]) :
               LET so == OwnerUpTo(w, p, S, before)[n]
               IN  so.bound => \A i \in 1..n : Meets(w, p, i, S, so.holds[i])
<1> DEFINE N == Len(w.needs[p])
           v == OwnerUpTo(w, p, S, before)
           Met(n) == v[n].bound => \A i \in 1..n : Meets(w, p, i, S, v[n].holds[i])
           T == {n \in 0..N : Met(n)}
<1>1. N \in Nat /\ DOMAIN w.needs[p] = 1..N
  <2>1. w.needs[p] \in Seq(Need)
    BY DEF World
  <2> QED
    BY <2>1
<1>2. \A n \in 0..N : v[n] \in Turn(w, p, S)
  BY TurnUnfolds
<1>3. \A n \in 1..N : v[n] = BindNext(w, p, n, S, v[n - 1])
  BY TurnUnfolds
<1> HIDE DEF v, N
<1>4. 0 \in T
  BY <1>1
<1>5. ASSUME NEW n \in 1..N, n - 1 \in T PROVE n \in T
  <2> DEFINE so == v[n - 1]
             C == Chosen(w, p, n, S, so.taken)
  <2>1. so \in Turn(w, p, S) /\ n \in DOMAIN w.needs[p] /\ n - 1 \in 0..N /\ n \in 0..N
    BY <1>1, <1>2
  <2>2. v[n] = BindTo(w, p, n, C, so)
    BY <1>3 DEF BindNext
  <2>3. Met(n - 1)
    BY <1>5
  <2> HIDE DEF v
  <2>4. /\ so.taken \in [Endpoints -> Peripherals \cup {Nobody}]
        /\ so.holds \in [DOMAIN w.needs[p] -> SUBSET Provided(w, S)]
    BY <2>1 DEF Turn, Takers
  <2>5. \A e \in C : e \in w.needs[p][n].accepts /\ w.provider[e] \in S
    BY <2>1, <2>4, ChosenIsFree DEF Chosen, Candidates
  <2> HIDE DEF C, so
  <2>6. ASSUME v[n].bound
        PROVE  /\ so.bound /\ (w.needs[p][n].required => C # {})
               /\ v[n].holds = [so.holds EXCEPT ![n] = C]
    BY <2>2, <2>6 DEF BindTo
  <2>7. ASSUME v[n].bound, NEW i \in 1..n PROVE Meets(w, p, i, S, v[n].holds[i])
    <3>1. CASE i = n
      <4>1. v[n].holds[i] = C
        BY <2>1, <2>4, <2>6, <2>7, <3>1
      <4> QED
        BY <2>5, <2>6, <2>7, <3>1, <4>1 DEF Meets
    <3>2. CASE i # n
      <4>1. i \in 1..(n - 1) /\ i \in DOMAIN w.needs[p]
        BY <1>1, <3>2, <2>7
      <4>2. v[n].holds[i] = so.holds[i]
        BY <2>4, <2>6, <2>7, <3>2, <4>1
      <4> QED
        BY <2>3, <2>6, <2>7, <4>1, <4>2 DEF so
    <3> QED
      BY <3>1, <3>2
  <2> QED
    BY <2>1, <2>7
<1> HIDE DEF T
<1>6. \A n \in 0..N : n \in T
  BY <1>1, <1>4, <1>5, CountsUp
<1> QED
  BY <1>6 DEF T, v, N

\* A round is one.
LEMMA BindSoFar ==
    ASSUME NEW w \in World, NEW W \in SUBSET Peripherals, NEW S \in SUBSET Peripherals
    PROVE  Bind(w, W, S) \in SoFar(w, S)
<1> DEFINE u == BindUpTo(w, W, S)
<1>1. \A n \in 0..NumPeripherals : u[n] \in SoFar(w, S)
  BY RoundUnfolds
<1>2. Bind(w, W, S) = u[NumPeripherals]
  BY RoundUnfolds
<1>3. NumPeripherals \in 0..NumPeripherals
  BY NumAssumption
<1> HIDE DEF u
<1> QED
  BY <1>1, <1>2, <1>3

\* Whom a round binds has each need met.
LEMMA RoundMeets ==
    ASSUME NEW w \in World, NEW W \in SUBSET Peripherals, NEW S \in SUBSET Peripherals,
           NEW p \in Bind(w, W, S).bound, NEW i \in DOMAIN w.needs[p]
    PROVE  p \in W /\ Meets(w, p, i, S, Bind(w, W, S).holds[p][i])
<1> DEFINE u == BindUpTo(w, W, S)
           N == NumPeripherals
           Met(n) == \A q \in u[n].bound :
                        q <= n /\ q \in W /\ \A j \in DOMAIN w.needs[q] : Meets(w, q, j, S, u[n].holds[q][j])
           T == {n \in 0..N : Met(n)}
<1>1. N \in Nat /\ Peripherals = 1..N
  BY NumAssumption DEF Peripherals
<1>2. \A n \in 0..N : u[n] \in SoFar(w, S)
  BY RoundUnfolds
<1>3. \A n \in Peripherals : u[n] = IF n \in W THEN AddOwner(w, n, S, u[n - 1]) ELSE u[n - 1]
  BY RoundNext
<1>4. u[0] = NoneBound(w) /\ Bind(w, W, S) = u[N]
  BY RoundUnfolds
<1> HIDE DEF u, N
<1>5. 0 \in T
  BY <1>1, <1>4 DEF NoneBound
<1>6. ASSUME NEW n \in 1..N, n - 1 \in T PROVE n \in T
  <2> DEFINE so == u[n - 1]
             mine == BindOwner(w, n, S, so.taken)
  <2>1. n \in Peripherals /\ n \in 0..N /\ n - 1 \in 0..N /\ so \in SoFar(w, S)
    BY <1>1, <1>2
  <2>2. Met(n - 1)
    BY <1>6
  <2>3. CASE n \notin W
    <3>1. u[n] = u[n - 1]
      BY <2>1, <2>3, <1>3
    <3>2. ASSUME NEW q \in u[n].bound
          PROVE  /\ q <= n /\ q \in W
                 /\ \A j \in DOMAIN w.needs[q] : Meets(w, q, j, S, u[n].holds[q][j])
      <4>1. /\ q <= n - 1 /\ q \in W /\ q \in Peripherals
            /\ \A j \in DOMAIN w.needs[q] : Meets(w, q, j, S, u[n].holds[q][j])
        BY <2>1, <2>2, <3>1, <3>2 DEF SoFar
      <4> QED
        BY <4>1, <1>1
    <3> QED
      BY <2>1, <3>2
  <2>4. CASE n \in W
    <3>1. so.taken \in Takers /\ DOMAIN so.holds = Peripherals /\ so.bound \subseteq Peripherals
      BY <2>1 DEF SoFar
    <3>2. ASSUME mine.bound, NEW j \in DOMAIN w.needs[n] PROVE Meets(w, n, j, S, mine.holds[j])
      <4> DEFINE L == Len(w.needs[n])
      <4>1. L \in Nat /\ j \in 1..L
        <5>1. w.needs[n] \in Seq(Need)
          BY <2>1 DEF World
        <5> QED
          BY <5>1, <3>2
      <4>2. mine = OwnerUpTo(w, n, S, so.taken)[L]
        BY DEF BindOwner, OwnerUpTo
      <4>3. \A m \in 0..L : OwnerUpTo(w, n, S, so.taken)[m].bound =>
                \A k \in 1..m : Meets(w, n, k, S, OwnerUpTo(w, n, S, so.taken)[m].holds[k])
        BY <2>1, <3>1, TurnMeets
      <4> HIDE DEF mine, L
      <4> QED
        BY <3>2, <4>1, <4>2, <4>3
    <3>3. u[n] = Added(n, mine, so)
      BY <2>1, <2>4, <1>3 DEF AddOwner
    <3> HIDE DEF mine, so
    <3>4. /\ u[n].bound = IF mine.bound THEN so.bound \cup {n} ELSE so.bound
          /\ u[n].holds = [so.holds EXCEPT ![n] = mine.holds]
      BY <3>3 DEF Added
    <3>5. ASSUME NEW q \in u[n].bound
          PROVE  /\ q <= n /\ q \in W
                 /\ \A j \in DOMAIN w.needs[q] : Meets(w, q, j, S, u[n].holds[q][j])
      <4>1. CASE q \in so.bound
        <5>1. /\ q <= n - 1 /\ q \in W /\ q \in Peripherals
              /\ \A j \in DOMAIN w.needs[q] : Meets(w, q, j, S, so.holds[q][j])
          BY <4>1, <2>2, <3>1 DEF so
        <5>2. q # n /\ q <= n
          BY <5>1, <1>1
        <5>3. u[n].holds[q] = so.holds[q]
          BY <5>1, <5>2, <3>1, <3>4
        <5> QED
          BY <5>1, <5>2, <5>3
      <4>2. CASE q \notin so.bound
        <5>1. q = n /\ mine.bound
          BY <4>2, <3>4, <3>5
        <5>2. u[n].holds[q] = mine.holds
          BY <5>1, <3>1, <3>4, <2>1
        <5>3. q <= n
          BY <5>1, <1>1
        <5> QED
          BY <2>4, <3>2, <5>1, <5>2, <5>3
      <4> QED
        BY <4>1, <4>2
    <3> QED
      BY <3>5, <2>1
  <2> QED
    BY <2>3, <2>4
<1> HIDE DEF T
<1>7. \A n \in 0..N : n \in T
  BY <1>1, <1>5, <1>6, CountsUp
<1>8. Met(N)
  BY <1>1, <1>7 DEF T
<1> QED
  BY <1>4, <1>8

\* Leaving out ends with nobody wanted left unbound.
LEMMA ResolveEnds ==
    ASSUME NEW w \in World, NEW A \in SUBSET Peripherals
    PROVE  \E L \in SUBSET Peripherals :
               LET r == Widen(w, A \ L)
               IN  /\ r.wanted \subseteq r.bind.bound
                   /\ Resolve(w, A) = [wanted |-> r.wanted, holds |-> r.bind.holds,
                                       taken |-> r.bind.taken]
<1> DEFINE P == Peripherals
           R(L) == Widen(w, A \ L)
           Left(L) == R(L).wanted \ R(L).bind.bound
           End(L) == [wanted |-> R(L).wanted, holds |-> R(L).bind.holds, taken |-> R(L).bind.taken]
           ends == {L \in SUBSET P : Left(L) = {}}
           last == [L \in SUBSET P |-> End(L)]
           next == [L \in SUBSET P |-> L \cup Left(L)]
           f == Without(w, A)
<1>1. ASSUME NEW L \in SUBSET P PROVE Left(L) \subseteq A \ L
  <2>1. PICK X \in SUBSET (A \ L) : Widen(w, A \ L) = [wanted |-> X, bind |-> Bind(w, X, A \ L)]
    BY WidenEnds
  <2> QED
    BY <2>1
<1>2. \A L \in SUBSET P : f[L] = IF Left(L) = {} THEN End(L) ELSE f[L \cup Left(L)]
  BY ResolveUnfolds
<1>3. Resolve(w, A) = f[{}]
  BY ResolveUnfolds
<1> HIDE DEF Left, End, f
<1>4. \A L \in SUBSET P : /\ L \in ends <=> Left(L) = {}
                          /\ next[L] = L \cup Left(L)
                          /\ last[L] = End(L)
  OBVIOUS
<1> HIDE DEF ends, next, last
<1>5. Grows(SUBSET P, ends, next)
  BY <1>1, <1>4 DEF Grows
<1>6. GoesOn(f, SUBSET P, ends, last, next)
  BY <1>2, <1>4 DEF GoesOn
<1>7. PICK L \in SUBSET P : L \in ends /\ f[{}] = last[L]
  <2> DEFINE G == SUBSET P
  <2>1. IsFiniteSet(P) /\ G \in SUBSET (SUBSET P) /\ {} \in G
    BY FinitelyMany
  <2> HIDE DEF G, P
  <2>2. Grows(G, ends, next) /\ GoesOn(f, G, ends, last, next)
    BY <1>5, <1>6 DEF G
  <2>3. \E L \in G : L \in ends /\ f[{}] = last[L]
    BY <2>1, <2>2, GrowthEnds
  <2> QED
    BY <2>3 DEF G
<1>8. Left(L) = {} /\ Resolve(w, A) = End(L)
  BY <1>3, <1>4, <1>7
<1>9. R(L).wanted \subseteq R(L).bind.bound
  BY <1>8 DEF Left
<1> QED
  BY <1>8, <1>9 DEF End

\* Whoever the function says should run is alive, whatever the world and the ones alive; each
\* need it holds something for accepts it, and its required needs hold something, all of it of
\* others that should run (`_resolve`: what `CanStart` and the deliveries of a pass rest on).
THEOREM ResolveGrants ==
    \A w \in World, A \in SUBSET Peripherals :
        LET r == Resolve(w, A)
        IN  /\ r.wanted \subseteq A
            /\ \A p \in r.wanted : \A i \in DOMAIN w.needs[p] : Meets(w, p, i, r.wanted, r.holds[p][i])
<1> SUFFICES ASSUME NEW w \in World, NEW A \in SUBSET Peripherals
             PROVE  LET r == Resolve(w, A)
                    IN  /\ r.wanted \subseteq A
                        /\ \A p \in r.wanted : \A i \in DOMAIN w.needs[p] :
                              Meets(w, p, i, r.wanted, r.holds[p][i])
  OBVIOUS
<1>1. PICK L \in SUBSET Peripherals :
        LET r == Widen(w, A \ L)
        IN  /\ r.wanted \subseteq r.bind.bound
            /\ Resolve(w, A) = [wanted |-> r.wanted, holds |-> r.bind.holds, taken |-> r.bind.taken]
  BY ResolveEnds
<1> DEFINE S == A \ L
<1>2. S \in SUBSET Peripherals
  OBVIOUS
<1>3. PICK X \in SUBSET S : /\ Used(w, Bind(w, X, S)) \subseteq X
                            /\ Widen(w, S) = [wanted |-> X, bind |-> Bind(w, X, S)]
  <2> HIDE DEF S
  <2> QED
    BY <1>2, WidenEnds
<1> DEFINE b == Bind(w, X, S)
           h == b.holds
<1>4. X \subseteq b.bound /\ Resolve(w, A) = [wanted |-> X, holds |-> h, taken |-> b.taken]
  <2> HIDE DEF b
  <2> QED
    BY <1>1, <1>3 DEF b
<1>5. \A p \in X : DOMAIN h[p] = DOMAIN w.needs[p]
  <2>1. b \in SoFar(w, S)
    <3> HIDE DEF S
    <3> QED
      BY <1>2, <1>3, BindSoFar
  <2> HIDE DEF b
  <2> QED
    BY <1>2, <2>1 DEF SoFar
<1>6. ASSUME NEW p \in X, NEW i \in DOMAIN w.needs[p] PROVE Meets(w, p, i, X, h[p][i])
  <2>1. p \in b.bound
    BY <1>4
  <2>2. Meets(w, p, i, S, h[p][i])
    <3> HIDE DEF S
    <3> QED
      BY <1>2, <1>3, <1>6, <2>1, RoundMeets
  <2>3. ASSUME NEW e \in h[p][i] PROVE w.provider[e] \in X
    <3> HIDE DEF b
    <3>1. e \in HeldBy(b.holds, p)
      BY <1>5, <1>6, <2>3 DEF HeldBy
    <3>2. w.provider[e] \in Used(w, b)
      BY <2>1, <3>1 DEF Used
    <3> QED
      BY <1>3, <3>2 DEF b
  <2> HIDE DEF h
  <2> QED
    BY <2>2, <2>3 DEF Meets
<1> HIDE DEF b, h, S
<1>7. X \subseteq A
  BY <1>3 DEF S
<1> QED
  BY <1>4, <1>6, <1>7
=============================================================================
