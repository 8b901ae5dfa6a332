---------------------------- MODULE AdoptionProofs ----------------------------
(***************************************************************************)
(* Source grants and adoptions, for any grants, uses, facts, corrections,  *)
(* adoptions, disputes and mismatches.                                     *)
(*                                                                         *)
(* SourceInvariant has five parts: the types, the uses as the log has      *)
(* them, the runs and the slot, the dependencies as chains of origins, and *)
(* the fences of disputes.  The last two speak of chains of any length,    *)
(* which the first section is about.                                       *)
(***************************************************************************)
EXTENDS AuthorityProofs

--------------------------------------------------------------------------------
(* The chain of origins. *)

(* The origins of the runs in A. *)
Up(A, o) == {o[x] : x \in A \cap Dependents} \ {None}

(* The climb from d along o, as long as N steps. *)
IsClimb(w, d, o, N) == w = [n \in 0..N |-> IF n = 0 THEN {d} ELSE Up(w[n - 1], o)]

(* The recursive definition in Upward has a solution. *)
LEMMA ClimbExists ==
  ASSUME NEW d, NEW o, NEW N \in Nat
  PROVE  \E w : IsClimb(w, d, o, N)
  <1> DEFINE T == {m \in Nat : \E w : IsClimb(w, d, o, m)}
  <1>1. 0 \in T
    <2>1. PICK w : w = [n \in 0..0 |-> {d}] OBVIOUS
    <2>2. w = [n \in 0..0 |-> IF n = 0 THEN {d} ELSE Up(w[n - 1], o)] BY <2>1
    <2>3. QED BY <2>2 DEF IsClimb
  <1>2. ASSUME NEW m \in Nat, m \in T PROVE m + 1 \in T
    <2>1. PICK w : w = [n \in 0..m |-> IF n = 0 THEN {d} ELSE Up(w[n - 1], o)] BY <1>2 DEF IsClimb
    <2>2. PICK v : v = [n \in 0..(m + 1) |-> IF n = m + 1 THEN Up(w[m], o) ELSE w[n]] OBVIOUS
    <2>3. ASSUME NEW n \in 0..(m + 1)
          PROVE  v[n] = IF n = 0 THEN {d} ELSE Up(v[n - 1], o)
      <3>1. CASE n = m + 1
        <4>1. n - 1 = m /\ m \in 0..(m + 1) /\ m # m + 1 /\ n # 0 BY <3>1
        <4>2. v[m] = w[m] BY <2>2, <4>1
        <4>3. v[n] = Up(w[m], o) BY <2>2, <3>1
        <4>4. QED BY <4>1, <4>2, <4>3
      <3>2. CASE n # m + 1 /\ n # 0
        <4>1. n \in 0..m /\ n - 1 \in 0..(m + 1) /\ n - 1 # m + 1 BY <3>2
        <4>2. v[n] = w[n] /\ v[n - 1] = w[n - 1] BY <2>2, <3>2, <4>1
        <4>3. w[n] = Up(w[n - 1], o) BY <2>1, <3>2, <4>1
        <4>4. QED BY <3>2, <4>2, <4>3
      <3>3. CASE n = 0
        <4>1. n \in 0..m /\ n # m + 1 BY <3>3
        <4>2. v[n] = w[n] BY <2>2, <4>1
        <4>3. w[n] = {d} BY <2>1, <3>3, <4>1
        <4>4. QED BY <3>3, <4>2, <4>3
      <3>4. QED BY <3>1, <3>2, <3>3
    <2>4. v = [n \in 0..(m + 1) |-> IF n = 0 THEN {d} ELSE Up(v[n - 1], o)]
      BY <2>2, <2>3
    <2>5. QED BY <2>4 DEF IsClimb
  <1> HIDE DEF T
  <1>3. \A n \in Nat : n \in T BY <1>1, <1>2, SetInduction
  <1>4. QED BY <1>3 DEF T

(* There are finitely many dependents. *)
LEMMA DependentsCount == IsFiniteSet(Dependents) /\ Cardinality(Dependents) \in Nat
  BY GrantsAreFinite, FS_CardinalityType DEF Dependents

(* Upward step by step. *)
LEMMA UpwardSteps ==
  ASSUME NEW d, NEW o
  PROVE  /\ Upward(d, o)[0] = {d}
         /\ \A n \in Nat : n + 1 <= Cardinality(Dependents) => Upward(d, o)[n + 1] = Up(Upward(d, o)[n], o)
  <1>1. PICK N \in Nat : N = Cardinality(Dependents) BY DependentsCount
  <1>2. \E w : w = [n \in 0..N |-> IF n = 0 THEN {d} ELSE Up(w[n - 1], o)]
    <2>1. PICK w : IsClimb(w, d, o, N) BY ClimbExists
    <2>2. QED BY <2>1 DEF IsClimb
  <1> DEFINE s == CHOOSE w : w = [n \in 0..N |-> IF n = 0 THEN {d} ELSE Up(w[n - 1], o)]
  <1>3. s = [n \in 0..N |-> IF n = 0 THEN {d} ELSE Up(s[n - 1], o)] BY <1>2
  <1>4. Upward(d, o) = s BY <1>1 DEF Upward, Up
  <1> HIDE DEF s
  <1>5. s[0] = {d} BY <1>3
  <1>6. ASSUME NEW n \in Nat, n + 1 <= N PROVE s[n + 1] = Up(s[n], o)
    <2>1. n + 1 \in 0..N /\ n + 1 # 0 /\ (n + 1) - 1 = n BY <1>6
    <2>2. QED BY <1>3, <2>1
  <1>7. QED BY <1>1, <1>4, <1>5, <1>6

(* Nothing is above a run without an origin. *)
LEMMA NothingAbove ==
  ASSUME NEW r, NEW o, Up({r}, o) = {}
  PROVE  \A n \in 1..Cardinality(Dependents) : Upward(r, o)[n] = {}
  <1>1. PICK N \in Nat : N = Cardinality(Dependents) BY DependentsCount
  <1>2. PICK w : w = Upward(r, o) OBVIOUS
  <1>3. w[0] = {r} /\ \A n \in Nat : n + 1 <= N => w[n + 1] = Up(w[n], o)
    BY <1>1, <1>2, UpwardSteps
  <1>4. Up({r}, o) = {} /\ Up({}, o) = {} BY DEF Up
  <1> DEFINE T == {n \in Nat : n + 1 <= N => w[n + 1] = {}}
  <1>5. 0 \in T BY <1>3, <1>4
  <1>6. ASSUME NEW n \in Nat, n \in T PROVE n + 1 \in T
    <2> SUFFICES ASSUME (n + 1) + 1 <= N PROVE w[(n + 1) + 1] = {} OBVIOUS
    <2>1. w[n + 1] = {} BY <1>6
    <2>2. w[(n + 1) + 1] = Up(w[n + 1], o) BY <1>3
    <2>3. QED BY <1>4, <2>1, <2>2
  <1> HIDE DEF T
  <1>7. \A n \in Nat : n \in T BY <1>5, <1>6, SetInduction
  <1>8. ASSUME NEW n \in 1..N PROVE w[n] = {}
    <2>1. n - 1 \in Nat /\ (n - 1) + 1 = n /\ (n - 1) + 1 <= N OBVIOUS
    <2>2. n - 1 \in T BY <1>7, <2>1
    <2>3. QED BY <2>1, <2>2 DEF T
  <1>9. QED BY <1>1, <1>2, <1>8

(* Run d, from which nobody adopted, adopts from another. *)
Adopts(o, q, d, from) ==
  /\ DOMAIN o = Dependents /\ from \notin {None, d} /\ \A x \in Dependents : o[x] # d
  /\ q = [o EXCEPT ![d] = from]

(* An adoption by a run nobody adopted from leaves the chains of the       *)
(* others as they are and puts its own on top of its origin's.             *)
LEMMA AdoptionExtends ==
  ASSUME NEW o, NEW q, NEW d \in Dependents, NEW from, Adopts(o, q, d, from)
  PROVE  /\ \A x : x # d => \A n \in 0..Cardinality(Dependents) : Upward(x, q)[n] = Upward(x, o)[n]
         /\ \A n \in 0..(Cardinality(Dependents) - 1) : Upward(d, q)[n + 1] = Upward(from, q)[n]
  <1>1. PICK N \in Nat : N = Cardinality(Dependents) BY DependentsCount
  <1>2. \A A : d \notin Up(A, o) BY DEF Up, Adopts
  <1>3. \A A : d \notin A => Up(A, q) = Up(A, o) BY DEF Up, Adopts
  <1>4. Up({d}, q) = {from} BY DEF Up, Adopts
  <1>5. ASSUME NEW x, x # d PROVE \A n \in 0..N : Upward(x, q)[n] = Upward(x, o)[n]
    <2>1. PICK w : w = Upward(x, o) OBVIOUS
    <2>2. PICK v : v = Upward(x, q) OBVIOUS
    <2>3. w[0] = {x} /\ \A n \in Nat : n + 1 <= N => w[n + 1] = Up(w[n], o)
      BY <1>1, <2>1, UpwardSteps
    <2>4. v[0] = {x} /\ \A n \in Nat : n + 1 <= N => v[n + 1] = Up(v[n], q)
      BY <1>1, <2>2, UpwardSteps
    <2> DEFINE T == {n \in Nat : n <= N => v[n] = w[n] /\ d \notin w[n]}
    <2>5. 0 \in T BY <1>5, <2>3, <2>4
    <2>6. ASSUME NEW n \in Nat, n \in T PROVE n + 1 \in T
      <3> SUFFICES ASSUME n + 1 <= N PROVE v[n + 1] = w[n + 1] /\ d \notin w[n + 1] OBVIOUS
      <3>1. v[n] = w[n] /\ d \notin w[n] BY <2>6
      <3>2. v[n + 1] = Up(w[n], q) /\ w[n + 1] = Up(w[n], o) BY <2>3, <2>4, <3>1
      <3>3. QED BY <1>2, <1>3, <3>1, <3>2
    <2> HIDE DEF T
    <2>7. \A n \in Nat : n \in T BY <2>5, <2>6, SetInduction
    <2>8. ASSUME NEW n \in 0..N PROVE v[n] = w[n]
      <3>1. n \in Nat /\ n <= N OBVIOUS
      <3>2. n \in T BY <2>7, <3>1
      <3>3. QED BY <3>1, <3>2 DEF T
    <2>9. QED BY <2>1, <2>2, <2>8
  <1>6. \A n \in 0..(N - 1) : Upward(d, q)[n + 1] = Upward(from, q)[n]
    <2>1. PICK w : w = Upward(from, q) OBVIOUS
    <2>2. PICK v : v = Upward(d, q) OBVIOUS
    <2>3. w[0] = {from} /\ \A n \in Nat : n + 1 <= N => w[n + 1] = Up(w[n], q)
      BY <1>1, <2>1, UpwardSteps
    <2>4. v[0] = {d} /\ \A n \in Nat : n + 1 <= N => v[n + 1] = Up(v[n], q)
      BY <1>1, <2>2, UpwardSteps
    <2> DEFINE T == {n \in Nat : n + 1 <= N => v[n + 1] = w[n]}
    <2>5. 0 \in T BY <1>4, <2>3, <2>4
    <2>6. ASSUME NEW n \in Nat, n \in T PROVE n + 1 \in T
      <3> SUFFICES ASSUME (n + 1) + 1 <= N PROVE v[(n + 1) + 1] = w[n + 1] OBVIOUS
      <3>0. n + 1 \in Nat /\ n + 1 <= N BY <1>1
      <3>1. v[n + 1] = w[n] BY <2>6, <3>0
      <3>2. v[(n + 1) + 1] = Up(v[n + 1], q) BY <2>4, <3>0
      <3>3. w[n + 1] = Up(w[n], q) BY <2>3, <3>0
      <3>4. QED BY <3>1, <3>2, <3>3
    <2> HIDE DEF T
    <2>7. \A n \in Nat : n \in T BY <2>5, <2>6, SetInduction
    <2>8. ASSUME NEW n \in 0..(N - 1) PROVE v[n + 1] = w[n]
      <3>1. n \in Nat /\ n + 1 <= N BY <1>1
      <3>2. n \in T BY <2>7, <3>1
      <3>3. QED BY <3>1, <3>2 DEF T
    <2>9. QED BY <2>1, <2>2, <2>8
  <1>7. QED BY <1>1, <1>5, <1>6

(* The rows along the chain of origins o up from run d. *)
Chain(d, o) ==
  UNION {{[anc |-> a, dep |-> d, depth |-> n] : a \in Upward(d, o)[n]} : n \in 1..Cardinality(Dependents)}

(* What a row of the chain is. *)
LEMMA ChainRows ==
  ASSUME NEW d, NEW o, NEW e
  PROVE  e \in Chain(d, o) <=>
           \E n \in 1..Cardinality(Dependents) : \E a \in Upward(d, o)[n] : e = [anc |-> a, dep |-> d, depth |-> n]
  BY DEF Chain

(* The fields of such a row. *)
LEMMA ChainFields ==
  ASSUME NEW d, NEW o, NEW e \in Chain(d, o)
  PROVE  /\ e.dep = d /\ e.depth \in 1..Cardinality(Dependents) /\ e.anc \in Upward(d, o)[e.depth]
         /\ e = [anc |-> e.anc, dep |-> d, depth |-> e.depth]
  <1>1. PICK n \in 1..Cardinality(Dependents) :
          \E a \in Upward(d, o)[n] : e = [anc |-> a, dep |-> d, depth |-> n]
    BY ChainRows
  <1>2. PICK a \in Upward(d, o)[n] : e = [anc |-> a, dep |-> d, depth |-> n] BY <1>1
  <1>3. e.anc = a /\ e.dep = d /\ e.depth = n BY <1>2
  <1>4. QED BY <1>2, <1>3

(* A run that adopted nothing depends on nothing. *)
LEMMA RootsHaveNoChain ==
  ASSUME NEW r, NEW o, r \notin Dependents \/ o[r] = None
  PROVE  Chain(r, o) = {}
  <1>0. Up({r}, o) = {} BY DEF Up
  <1>1. \A n \in 1..Cardinality(Dependents) : Upward(r, o)[n] = {} BY <1>0, NothingAbove
  <1>2. \A e : e \notin Chain(r, o) BY <1>1, ChainRows
  <1>3. QED BY <1>2

(* The chains after an adoption: the new one is its origin's, one step     *)
(* further up.                                                             *)
Extended(o, q, d, from) ==
  /\ \A x : x # d => Chain(x, q) = Chain(x, o)
  /\ Chain(d, q) = {[anc |-> from, dep |-> d, depth |-> 1]}
       \cup {[anc |-> e.anc, dep |-> d, depth |-> e.depth + 1] : e \in Chain(from, o)}

(* An adoption extends the chains so. *)
LEMMA ChainsExtend ==
  ASSUME NEW o, NEW q, NEW d \in Dependents, NEW from, Adopts(o, q, d, from),
         \A e \in Chain(from, o) : e.depth < Cardinality(Dependents)
  PROVE  Extended(o, q, d, from)
  <1>0. PICK N \in Nat : N = Cardinality(Dependents) BY DependentsCount
  <1>1. N >= 1
    <2>1. Dependents # {} OBVIOUS
    <2>2. N # 0 BY <1>0, <2>1, DependentsCount, FS_EmptySet
    <2>3. QED BY <1>0, <2>2
  <1>2. /\ \A x : x # d => \A n \in 0..N : Upward(x, q)[n] = Upward(x, o)[n]
        /\ \A n \in 0..(N - 1) : Upward(d, q)[n + 1] = Upward(from, q)[n]
    BY <1>0, AdoptionExtends
  <1>3. ASSUME NEW x, x # d PROVE Chain(x, q) = Chain(x, o)
    <2>1. \A n \in 0..N : Upward(x, q)[n] = Upward(x, o)[n] BY <1>2, <1>3
    <2>2. PICK v, w : v = Upward(x, q) /\ w = Upward(x, o) OBVIOUS
    <2>3. \A n \in 1..N : v[n] = w[n] BY <2>1, <2>2
    <2>4. \A e : (\E n \in 1..N : \E a \in v[n] : e = [anc |-> a, dep |-> x, depth |-> n])
             <=> (\E n \in 1..N : \E a \in w[n] : e = [anc |-> a, dep |-> x, depth |-> n])
      BY <2>3
    <2>5. \A e : e \in Chain(x, q) <=> e \in Chain(x, o) BY <1>0, <2>2, <2>4, ChainRows
    <2>6. QED BY <2>5
  <1>4. Upward(d, q)[1] = {from}
    <2>1. 0 \in 0..(N - 1) BY <1>0, <1>1
    <2>2. Upward(d, q)[0 + 1] = Upward(from, q)[0] BY <1>2, <2>1
    <2>3. Upward(from, q)[0] = {from} BY UpwardSteps
    <2>4. 0 + 1 = 1 OBVIOUS
    <2>5. Upward(d, q)[1] = Upward(from, q)[0] BY <2>2, <2>4
    <2>6. QED BY <2>3, <2>5
  <1>5. ASSUME NEW n \in 1..N, n # 1 PROVE Upward(d, q)[n] = Upward(from, o)[n - 1]
    <2>1. n - 1 \in 0..(N - 1) /\ n - 1 \in 0..N /\ (n - 1) + 1 = n BY <1>0, <1>5
    <2>2. Upward(d, q)[(n - 1) + 1] = Upward(from, q)[n - 1] BY <1>2, <2>1
    <2>3. from # d BY DEF Adopts
    <2>4. PICK m \in 0..N : m = n - 1 BY <2>1
    <2>5. Upward(from, q)[m] = Upward(from, o)[m] BY <1>2, <2>3
    <2>6. QED BY <2>1, <2>2, <2>4, <2>5
  <1> DEFINE Above == {[anc |-> e.anc, dep |-> d, depth |-> e.depth + 1] : e \in Chain(from, o)}
             First == [anc |-> from, dep |-> d, depth |-> 1]
  <1>6. ASSUME NEW r \in Chain(d, q) PROVE r = First \/ r \in Above
    <2>1. PICK n \in 1..N : \E a \in Upward(d, q)[n] : r = [anc |-> a, dep |-> d, depth |-> n]
      BY <1>0, ChainRows
    <2>2. PICK a \in Upward(d, q)[n] : r = [anc |-> a, dep |-> d, depth |-> n] BY <2>1
    <2>3. CASE n = 1 BY <1>4, <2>2, <2>3
    <2>4. CASE n # 1
      <3>1. a \in Upward(from, o)[n - 1] BY <1>5, <2>2, <2>4
      <3>2. PICK m \in 1..N : m = n - 1 /\ m + 1 = n BY <1>0, <2>4
      <3>3. PICK e : e = [anc |-> a, dep |-> from, depth |-> m] OBVIOUS
      <3>4. e \in Chain(from, o) BY <1>0, <3>1, <3>2, <3>3, ChainRows
      <3>5. e.anc = a /\ e.depth + 1 = n BY <3>2, <3>3
      <3>6. r = [anc |-> e.anc, dep |-> d, depth |-> e.depth + 1] BY <2>2, <3>5
      <3>7. QED BY <3>4, <3>6
    <2>5. QED BY <2>3, <2>4
  <1>7. First \in Chain(d, q)
    <2>1. from \in Upward(d, q)[1] BY <1>4
    <2>2. 1 \in 1..N BY <1>0, <1>1
    <2>3. QED BY <1>0, <2>1, <2>2, ChainRows
  <1>8. ASSUME NEW e \in Chain(from, o)
        PROVE  [anc |-> e.anc, dep |-> d, depth |-> e.depth + 1] \in Chain(d, q)
    <2>0. e.depth \in 1..N /\ e.anc \in Upward(from, o)[e.depth] BY <1>0, ChainFields
    <2>1. PICK m \in 1..N : m = e.depth /\ e.anc \in Upward(from, o)[m] BY <2>0
    <2>2. m < N BY <1>0, <2>1
    <2>3. PICK n \in 1..N : n = m + 1 /\ n # 1 /\ n - 1 = m BY <1>0, <2>2
    <2>4. e.anc \in Upward(d, q)[n] BY <1>5, <2>1, <2>3
    <2>5. [anc |-> e.anc, dep |-> d, depth |-> n] \in Chain(d, q) BY <1>0, <2>4, ChainRows
    <2>6. QED BY <2>1, <2>3, <2>5
  <1>9. Chain(d, q) = {First} \cup Above BY <1>6, <1>7, <1>8
  <1>10. QED BY <1>3, <1>9 DEF Extended
--------------------------------------------------------------------------------
(* The invariant.                                                          *)

(* The runs that can be adopted from. *)
Runs == Dependents \cup {Root}

(* The runs that adopted, and the runs a run depends on. *)
Adopted == {d \in Dependents : origin[d] # None}
AncestorsOf(d) == {e.anc : e \in {x \in deps : x.dep = d}}

(* The rows of the uses, and the stages of a run. *)
UseRows == [grant : Grants, key : HostKeys \cup {Adopting}, at : Nat, after : Nat]
Stages == {"PLANNED", "BLOCKED", "VALIDATING", "RECONCILIATION_REQUIRED", "COMPLETED"}

(* The types of what the source log and the adoptions keep. *)
SourceTypes ==
  /\ terms \in [Grants -> [from : Runs \cup {None}, limit : Nat]]
  /\ \A g \in Grants : terms[g] # Unregistered => terms[g].from \in Runs \ {g}
  /\ floor \in Nat
  /\ stage \in [Runs -> Stages] /\ origin \in [Dependents -> Runs \cup {None}]
  /\ disputed \in BOOLEAN /\ holder \in Dependents \cup {None} /\ mismatched \subseteq Dependents

(* The uses are read as they were made, and everything in the log is about *)
(* a registered grant.                                                     *)
UsesHeld ==
  /\ IsFiniteSet(uses) /\ uses \subseteq UseRows
  /\ ClockRead /\ \A u \in uses : UseRead(u)
  /\ \A u \in uses : u.after <= Len(facts)
  /\ \A u \in uses : u.key = Adopting => ExpectedAuthorityFences(SubSeq(facts, 1, u.after)) = {}
  /\ \A i \in DOMAIN facts : terms[facts[i].grant] # Unregistered

(* An adopted run goes from validation to its end or to reconciliation,    *)
(* and a run that adopted nothing has not begun.                           *)
AdoptionsHeld ==
  /\ \A d \in Adopted : BindingRead(d) /\ origin[d] \in Adopted \cup {Root}
  /\ \A d \in Adopted : stage[d] \in {"VALIDATING", "RECONCILIATION_REQUIRED", "COMPLETED"}
  /\ \A d \in Dependents \ Adopted : stage[d] \in {"PLANNED", "BLOCKED"}
  /\ SlotRead /\ \A r \in mismatched : MismatchRead(r)

(* The dependencies are the chains of origins, none longer than there are  *)
(* adoptions, and all of them end at the root.                             *)
DepsHeld ==
  /\ deps = ExpectedDependencies
  /\ \A e \in deps : e.dep \in Adopted /\ e.depth \in 1..Cardinality(Adopted)
  /\ \A d \in Adopted : Root \in AncestorsOf(d)

(* A fence is there for every standing fact and every run that rests on    *)
(* the run it is about, and for every adopted run once the root is         *)
(* contradicted.                                                           *)
DisputesHeld ==
  /\ \A x \in depFences : x.why = "AUTHORITY" => x.fact \in DOMAIN facts
  /\ \A i \in DOMAIN facts, d \in Dependents :
       [why |-> "AUTHORITY", fact |-> i, dep |-> d] \in depFences
         <=> i \in fences /\ facts[i].run \in AncestorsOf(d)
  /\ disputed => \A d \in Adopted :
       /\ [why |-> "CONTRARY_RECEIPT", fact |-> 0, dep |-> d] \in depFences
       /\ stage[d] \in {"RECONCILIATION_REQUIRED", "COMPLETED"}

(* What holds of the source grants whenever the behaviour is about them. *)
SourceState == SourceTypes /\ UsesHeld /\ AdoptionsHeld /\ DepsHeld /\ DisputesHeld
SourceInvariant == kind = "SOURCE" => SourceState

(* Nothing is registered, used or adopted at first. *)
LEMMA InitSources == ASSUME AdoptionInit PROVE SourceState
  <1>1. /\ terms = [g \in Grants |-> Unregistered] /\ uses = {} /\ floor = 0
        /\ origin = [d \in Dependents |-> None] /\ deps = {} /\ holder = None /\ depFences = {}
        /\ disputed = FALSE /\ mismatched = {} /\ facts = <<>>
    BY DEF AdoptionInit, Init
  <1>2. \A d \in Dependents : stage[d] \in {"PLANNED", "BLOCKED"}
    BY RootIsNoDependent DEF AdoptionInit, Dependents
  <1>3. stage \in [Runs -> Stages] BY DEF AdoptionInit, Runs, Stages
  <1>4. Adopted = {} BY <1>1 DEF Adopted
  <1>5. SourceTypes BY <1>1, <1>3 DEF SourceTypes, Unregistered
  <1>6. UsesHeld BY <1>1, FS_EmptySet DEF UsesHeld, ClockRead
  <1>7. AdoptionsHeld
    <2>1. SlotRead BY <1>1, NoneIsNoCommand DEF SlotRead, Dependents
    <2>2. QED BY <1>1, <1>2, <1>4, <2>1 DEF AdoptionsHeld
  <1>8. DepsHeld
    <2>1. \A d \in Dependents : Chain(d, origin) = {} BY <1>1, RootsHaveNoChain
    <2>2. QED BY <1>1, <1>4, <2>1 DEF DepsHeld, ExpectedDependencies, StandsOn, Chain
  <1>9. DisputesHeld BY <1>1 DEF DisputesHeld
  <1>10. QED BY <1>5, <1>6, <1>7, <1>8, <1>9 DEF SourceState

--------------------------------------------------------------------------------
(* The log of a source grant.                                              *)

(* The facts so far stay as they are. *)
FactsGrow ==
  /\ facts' \in Seq(AnyRow) /\ Len(facts) \in Nat /\ Len(facts') \in Nat /\ Len(facts) <= Len(facts')
  /\ \A i \in 1..Len(facts) : facts'[i] = facts[i]

(* What denied at the time of a use is what denies it when it is read. *)
LEMMA PastIsJudgedAlike ==
  ASSUME NEW F, \A i \in F : facts'[i] = facts[i], NEW g, NEW t
  PROVE  LifecycleDenies(F, g, t)' <=> LifecycleDenies(F, g, t)
  <1> DEFINE mine == {i \in F : facts[i].grant = g}
             after == {i \in F : facts'[i].grant = g}
             fixing == {i \in mine : facts[i].kind = "CORRECTION" /\ facts[i].order # "UNKNOWN" /\ facts[i].eff <= t}
             fixingAfter == {i \in after : facts'[i].kind = "CORRECTION" /\ facts'[i].order # "UNKNOWN" /\ facts'[i].eff <= t}
             fixed == {facts[i].corrects : i \in fixing}
             fixedAfter == {facts'[i].corrects : i \in fixingAfter}
  <1>1. after = mine OBVIOUS
  <1>2. fixingAfter = fixing /\ fixing \subseteq F BY <1>1
  <1>3. fixedAfter = fixed BY <1>2
  <1>4. LifecycleDenies(F, g, t) <=>
          \E i \in mine \ fixed : facts[i].kind # "CORRECTION" /\ (facts[i].order = "UNKNOWN" \/ facts[i].eff <= t)
    BY DEF LifecycleDenies
  <1>5. LifecycleDenies(F, g, t)' <=>
          \E i \in after \ fixedAfter : facts'[i].kind # "CORRECTION" /\ (facts'[i].order = "UNKNOWN" \/ facts'[i].eff <= t)
    BY DEF LifecycleDenies
  <1> HIDE DEF fixing, fixingAfter, fixed, fixedAfter
  <1>6. \A i \in mine : facts'[i] = facts[i] OBVIOUS
  <1>7. QED BY <1>1, <1>3, <1>4, <1>5, <1>6

(* A use is read with the facts that came before it. *)
LEMMA PrefixesStay ==
  ASSUME FactInvariant, FactsGrow, NEW n \in Nat, n <= Len(facts)
  PROVE  SubSeq(facts', 1, n) = SubSeq(facts, 1, n)
  <1>1. facts \in Seq(AnyRow) /\ facts' \in Seq(AnyRow) BY DEF FactInvariant, HistoryTyped, FactsGrow
  <1>2. SubSeq(facts', 1, n) = [i \in 1..n |-> facts'[i]] BY <1>1 DEF FactsGrow
  <1>3. SubSeq(facts, 1, n) = [i \in 1..n |-> facts[i]] BY <1>1 DEF FactsGrow
  <1>4. \A i \in 1..n : facts'[i] = facts[i] BY DEF FactsGrow
  <1>5. QED BY <1>2, <1>3, <1>4

(* A registered grant stays what it is. *)
TermsKept == \A g \in Grants : terms[g] # Unregistered => terms'[g] = terms[g]

(* The uses are still read as they were made when another grant is         *)
(* registered or another fact is recorded.                                 *)
LEMMA UsesStay ==
  ASSUME FactInvariant, SourceTypes, UsesHeld, FactsGrow, TermsKept,
         uses' = uses, floor' \in Nat, floor <= floor',
         \A i \in DOMAIN facts' : i \in DOMAIN facts \/ terms[facts'[i].grant] # Unregistered
  PROVE  UsesHeld'
  <1>0. DOMAIN facts = 1..Len(facts) /\ \A i \in DOMAIN facts : facts[i].grant \in Grants
    BY RowFields DEF FactInvariant, HistoryTyped
  <1>1. ASSUME NEW u \in uses
        PROVE  /\ u.grant \in Grants /\ u.at \in Nat /\ u.after \in Nat /\ u.after <= Len(facts)
               /\ terms[u.grant] # Unregistered /\ terms'[u.grant] = terms[u.grant]
    BY DEF UsesHeld, UseRows, UseRead, TermsKept
  <1>2. ClockRead'
    <2>1. \A u \in uses : u.at <= floor' BY <1>1 DEF UsesHeld, ClockRead, SourceTypes
    <2>2. QED BY <2>1 DEF UsesHeld, ClockRead
  <1>3. ASSUME NEW u \in uses PROVE UseRead(u)'
    <2>1. PICK g, t, n : g = u.grant /\ t = u.at /\ n = u.after OBVIOUS
    <2>2. \A i \in 1..n : facts'[i] = facts[i] BY <1>1, <2>1 DEF FactsGrow
    <2>3. LifecycleDenies(1..n, g, t)' <=> LifecycleDenies(1..n, g, t) BY <2>2, PastIsJudgedAlike
    <2>4. ~LifecycleDenies(1..u.after, u.grant, u.at)' BY <2>1, <2>3 DEF UsesHeld, UseRead
    <2>5. UsesOf(u.grant)' = UsesOf(u.grant) BY DEF UsesOf
    <2>6. QED BY <1>1, <2>4, <2>5 DEF UsesHeld, UseRead, InWindow
  <1>4. ASSUME NEW u \in uses PROVE u.after <= Len(facts')
    BY <1>1 DEF FactsGrow
  <1>5. ASSUME NEW u \in uses, u.key = Adopting
        PROVE  ExpectedAuthorityFences(SubSeq(facts', 1, u.after)) = {}
    <2>1. SubSeq(facts', 1, u.after) = SubSeq(facts, 1, u.after) BY <1>1, PrefixesStay
    <2>2. QED BY <1>5, <2>1 DEF UsesHeld
  <1>6. ASSUME NEW i \in DOMAIN facts' PROVE terms'[facts'[i].grant] # Unregistered
    <2>1. CASE i \in DOMAIN facts
      <3>1. facts'[i] = facts[i] BY <1>0, <2>1 DEF FactsGrow
      <3>2. QED BY <1>0, <2>1, <3>1 DEF UsesHeld, TermsKept
    <2>2. CASE i \notin DOMAIN facts
      <3>1. facts'[i].grant \in Grants BY <1>6, RowFields DEF FactsGrow
      <3>2. QED BY <1>6, <2>2, <3>1 DEF TermsKept
    <2>3. QED BY <2>1, <2>2
  <1>7. QED BY <1>2, <1>3, <1>4, <1>5, <1>6 DEF UsesHeld

(* A use that is made within the terms and denied by nothing is read so. *)
LEMMA NewUseHeld ==
  ASSUME FactInvariant, SourceTypes, UsesHeld, NEW g \in Grants, NEW key \in HostKeys \cup {Adopting},
         NEW now \in Nat, Consumes(g, key, now), facts' = facts,
         key = Adopting => fences = {}
  PROVE  UsesHeld'
  <1>0. DOMAIN facts = 1..Len(facts) /\ Len(facts) \in Nat /\ facts \in Seq(AnyRow)
    BY DEF FactInvariant, HistoryTyped
  <1>1. /\ terms[g] # Unregistered /\ now >= floor /\ floor' = now /\ InWindow(now)
        /\ ~LifecycleDenies(DOMAIN facts, g, now) /\ Cardinality(UsesOf(g)) < terms[g].limit
        /\ terms' = terms
    BY DEF Consumes, StoreUtcNow, WithinLimit
  <1>2. PICK w : w = [grant |-> g, key |-> key, at |-> now, after |-> Len(facts)] OBVIOUS
  <1>3. uses' = uses \cup {w} BY <1>2 DEF Consumes
  <1>4. /\ w \in UseRows /\ w.grant = g /\ w.key = key /\ w.at = now /\ w.after = Len(facts)
    BY <1>0, <1>2 DEF UseRows
  <1>5. IsFiniteSet(uses') /\ uses' \subseteq UseRows
    BY <1>3, <1>4, FS_AddElement DEF UsesHeld
  <1>6. ASSUME NEW u \in uses
        PROVE  /\ u.at \in Nat /\ u.after \in Nat /\ u.after <= Len(facts) /\ u.at <= floor
               /\ u.grant \in Grants
    BY DEF UsesHeld, UseRows, ClockRead
  <1>7. ClockRead'
    <2>1. ASSUME NEW u \in uses' PROVE u.at <= floor'
      BY <1>1, <1>3, <1>4, <1>6 DEF SourceTypes
    <2>2. ASSUME NEW u \in uses', NEW v \in uses', u.after < v.after PROVE u.at <= v.at
      <3>1. CASE u \in uses /\ v \in uses BY <2>2, <3>1 DEF UsesHeld, ClockRead
      <3>2. CASE v = w BY <2>1, <3>2, <1>1, <1>4
      <3>3. CASE u = w /\ v \in uses BY <2>2, <3>3, <1>0, <1>4, <1>6
      <3>4. QED BY <1>3, <3>1, <3>2, <3>3
    <2>3. QED BY <2>1, <2>2 DEF ClockRead
  <1>8. ASSUME NEW u \in uses' PROVE UseRead(u)'
    <2>1. PICK U : U = UsesOf(u.grant) OBVIOUS
    <2>2. IsFiniteSet(U) /\ Cardinality(U) \in Nat
      <3>1. U \subseteq uses /\ IsFiniteSet(uses) BY <2>1 DEF UsesOf, UsesHeld
      <3>2. QED BY <3>1, FS_Subset, FS_CardinalityType
    <2>3. Cardinality(UsesOf(u.grant)') <= terms[u.grant].limit
      <3>1. CASE u.grant # g
        <4>1. UsesOf(u.grant)' = UsesOf(u.grant) BY <1>3, <1>4, <3>1 DEF UsesOf
        <4>2. u \in uses BY <1>3, <1>4, <3>1
        <4>3. QED BY <4>1, <4>2 DEF UsesHeld, UseRead
      <3>2. CASE u.grant = g
        <4>1. UsesOf(u.grant)' = U \cup {w} BY <1>3, <1>4, <2>1, <3>2 DEF UsesOf
        <4>2. Cardinality(U \cup {w}) \in {Cardinality(U), Cardinality(U) + 1} BY <2>2, FS_AddElement
        <4>3. Cardinality(U) < terms[g].limit /\ terms[g].limit \in Nat BY <1>1, <2>1, <3>2 DEF SourceTypes
        <4>4. QED BY <2>2, <3>2, <4>1, <4>2, <4>3
      <3>3. QED BY <3>1, <3>2
    <2>4. PICK x, t, n : x = u.grant /\ t = u.at /\ n = u.after OBVIOUS
    <2>5. LifecycleDenies(1..n, x, t)' <=> LifecycleDenies(1..n, x, t) BY PastIsJudgedAlike
    <2>6. ~LifecycleDenies(1..u.after, u.grant, u.at)
      <3>1. CASE u \in uses BY <3>1 DEF UsesHeld, UseRead
      <3>2. CASE u = w BY <1>0, <1>1, <1>4, <3>2
      <3>3. QED BY <1>3, <3>1, <3>2
    <2>7. terms[u.grant] # Unregistered /\ InWindow(u.at)
      BY <1>1, <1>3, <1>4 DEF UsesHeld, UseRead
    <2>8. QED BY <1>1, <2>3, <2>4, <2>5, <2>6, <2>7 DEF UseRead, InWindow
  <1>9. \A u \in uses' : u.after <= Len(facts') BY <1>0, <1>3, <1>4, <1>6
  <1>10. ASSUME NEW u \in uses', u.key = Adopting
         PROVE  ExpectedAuthorityFences(SubSeq(facts', 1, u.after)) = {}
    <2>1. CASE u \in uses BY <1>10, <2>1 DEF UsesHeld
    <2>2. CASE u = w
      <3>1. SubSeq(facts, 1, Len(facts)) = facts BY <1>0
      <3>2. ExpectedAuthorityFences(facts) = {}
        BY <1>4, <1>10, <2>2 DEF FactInvariant, FactTablesReplay
      <3>3. QED BY <1>4, <2>2, <3>1, <3>2
    <2>3. QED BY <1>3, <2>1, <2>2
  <1>11. QED BY <1>1, <1>5, <1>7, <1>8, <1>9, <1>10 DEF UsesHeld

--------------------------------------------------------------------------------
(* The runs.                                                               *)

(* The uses and the terms may grow around the adoptions. *)
LEMMA AdoptionsStay ==
  ASSUME UsesHeld, AdoptionsHeld, uses \subseteq uses', TermsKept,
         UNCHANGED <<stage, origin, holder, mismatched>>
  PROVE  AdoptionsHeld'
  <1>1. Adopted' = Adopted /\ Adopted \subseteq Dependents BY DEF Adopted
  <1>2. ASSUME NEW d \in Adopted PROVE BindingRead(d)'
    <2>1. PICK u \in UsesOf(d) : u.key = Adopting BY DEF AdoptionsHeld, BindingRead
    <2>2. u \in uses /\ u.grant = d /\ d \in Grants BY <1>1, <2>1 DEF UsesOf, Dependents
    <2>3. terms'[d] = terms[d] BY <2>2 DEF UsesHeld, UseRead, TermsKept
    <2>4. origin[d] = terms[d].from BY DEF AdoptionsHeld, BindingRead
    <2>5. QED BY <2>1, <2>2, <2>3, <2>4 DEF BindingRead, UsesOf
  <1>3. SlotRead' BY DEF AdoptionsHeld, SlotRead
  <1>4. \A r \in mismatched' : MismatchRead(r)' BY DEF AdoptionsHeld, MismatchRead
  <1>5. QED BY <1>1, <1>2, <1>3, <1>4 DEF AdoptionsHeld

(* A dispute or a mismatch routes the runs it reaches: an adopted one that *)
(* has not ended to reconciliation, another to a halt.                     *)
RunsRouted ==
  /\ stage' \in [Runs -> Stages]
  /\ \A d \in Adopted : /\ stage'[d] \in {stage[d], "RECONCILIATION_REQUIRED"}
                        /\ stage'[d] = "COMPLETED" <=> stage[d] = "COMPLETED"
  /\ \A d \in Dependents \ Adopted : stage'[d] \in {stage[d], "BLOCKED"}

(* Routed runs keep what is known of the adoptions. *)
LEMMA RunsStay ==
  ASSUME SourceTypes, AdoptionsHeld, RunsRouted, UNCHANGED <<terms, uses, origin, holder>>,
         \A r \in mismatched' : r \in mismatched \/ (r \in Dependents /\ MismatchRead(r)')
  PROVE  AdoptionsHeld'
  <1>1. Adopted' = Adopted BY DEF Adopted
  <1>2. \A d \in Adopted : BindingRead(d)' BY DEF AdoptionsHeld, BindingRead, UsesOf
  <1>3. SlotRead'
    <2> SUFFICES ASSUME NEW d \in Dependents
                 PROVE  (origin[d] # None /\ stage'[d] # "COMPLETED") <=> (holder = d)
      BY DEF SlotRead
    <2>1. (origin[d] # None /\ stage[d] # "COMPLETED") <=> (holder = d) BY DEF AdoptionsHeld, SlotRead
    <2>2. origin[d] # None => (stage'[d] = "COMPLETED" <=> stage[d] = "COMPLETED") BY DEF RunsRouted, Adopted
    <2>3. QED BY <2>1, <2>2
  <1>4. ASSUME NEW r \in mismatched', r \in mismatched PROVE MismatchRead(r)'
    <2>1. r \in Dependents /\ MismatchRead(r) BY <1>4 DEF AdoptionsHeld, SourceTypes
    <2>2. CASE r \in Adopted BY <2>1, <2>2 DEF MismatchRead, RunsRouted, Adopted
    <2>3. CASE r \notin Adopted BY <2>1, <2>3 DEF MismatchRead, RunsRouted, Adopted
    <2>4. QED BY <2>2, <2>3
  <1>5. \A d \in Adopted : stage'[d] \in {"VALIDATING", "RECONCILIATION_REQUIRED", "COMPLETED"}
    BY DEF AdoptionsHeld, RunsRouted
  <1>6. \A d \in Dependents \ Adopted : stage'[d] \in {"PLANNED", "BLOCKED"}
    BY DEF AdoptionsHeld, RunsRouted
  <1>7. QED BY <1>1, <1>2, <1>3, <1>4, <1>5, <1>6 DEF AdoptionsHeld

(* The dependencies and the chains change with an adoption only. *)
LEMMA DepsStay ==
  ASSUME DepsHeld, UNCHANGED <<deps, origin>>
  PROVE  DepsHeld'
  BY DEF DepsHeld, ExpectedDependencies, StandsOn, Adopted, AncestorsOf

--------------------------------------------------------------------------------
(* The steps.                                                              *)

(* Facts that do not change grow. *)
LEMMA SameFactsGrow ==
  ASSUME FactInvariant, facts' = facts
  PROVE  FactsGrow /\ DOMAIN facts' = DOMAIN facts
  BY DEF FactInvariant, HistoryTyped, FactsGrow

(* The disputes do not change when nothing they are about does. *)
LEMMA DisputesStay ==
  ASSUME DisputesHeld, UNCHANGED <<facts, fences, depFences, deps, origin, disputed>>,
         disputed => \A d \in Adopted : stage'[d] \in {stage[d], "RECONCILIATION_REQUIRED"}
  PROVE  DisputesHeld'
  BY DEF DisputesHeld, AncestorsOf, Adopted

(* A new grant is about no use, fact or adoption yet. *)
LEMMA RegisterKeepsSources ==
  ASSUME FactInvariant, SourceState, NEW g \in Grants, NEW from \in Runs, NEW limit \in UseLimits,
         NEW now \in floor..MaxTime, RegisterSourceGrant(g, from, limit, now)
  PROVE  SourceState'
  <1>0. SourceTypes /\ UsesHeld /\ AdoptionsHeld /\ DepsHeld /\ DisputesHeld BY DEF SourceState
  <1>1. /\ terms[g] = Unregistered /\ OriginFinal(g, from) /\ floor' = now
        /\ terms' = [terms EXCEPT ![g] = [from |-> from, limit |-> limit]]
        /\ UNCHANGED <<facts, fences, uses, stage, origin, deps, holder, depFences, disputed, mismatched>>
    BY DEF RegisterSourceGrant, StoreUtcNow, sharedVars
  <1>2. now \in Nat /\ floor <= now BY <1>0, AdoptionBounds DEF SourceTypes
  <1>3. TermsKept BY <1>0, <1>1 DEF TermsKept, SourceTypes
  <1>4. from # g BY <1>1, RootIsNoDependent DEF OriginFinal
  <1>5. SourceTypes'
    <2>1. limit \in Nat BY LimitsArePositive
    <2>2. terms' \in [Grants -> [from : Runs \cup {None}, limit : Nat]] BY <1>0, <1>1, <2>1 DEF SourceTypes
    <2>3. \A x \in Grants : terms'[x] # Unregistered => terms'[x].from \in Runs \ {x}
      BY <1>0, <1>1, <1>4 DEF SourceTypes
    <2>4. QED BY <1>0, <1>1, <1>2, <2>2, <2>3 DEF SourceTypes
  <1>6. UsesHeld' BY <1>0, <1>1, <1>2, <1>3, SameFactsGrow, UsesStay
  <1>7. AdoptionsHeld' BY <1>0, <1>1, <1>3, AdoptionsStay
  <1>8. DepsHeld' BY <1>0, <1>1, DepsStay
  <1>9. DisputesHeld' BY <1>0, <1>1, DisputesStay
  <1>10. QED BY <1>5, <1>6, <1>7, <1>8, <1>9 DEF SourceState

(* A use by a host is a use and nothing else. *)
LEMMA ConsumeKeepsSources ==
  ASSUME FactInvariant, SourceState, NEW g \in Grants, NEW key \in HostKeys,
         NEW now \in floor..MaxTime, ConsumeSourceForTest(g, key, now)
  PROVE  SourceState'
  <1>0. SourceTypes /\ UsesHeld /\ AdoptionsHeld /\ DepsHeld /\ DisputesHeld BY DEF SourceState
  <1>1. /\ Consumes(g, key, now)
        /\ UNCHANGED <<facts, fences, terms, stage, origin, deps, holder, depFences, disputed, mismatched>>
    BY DEF ConsumeSourceForTest, Consumes, sharedVars
  <1>2. now \in Nat /\ floor' = now /\ uses \subseteq uses'
    BY <1>0, <1>1, AdoptionBounds DEF SourceTypes, Consumes, StoreUtcNow
  <1>3. key # Adopting BY HostsAdoptNothing DEF Adopting
  <1>4. SourceTypes' BY <1>0, <1>1, <1>2 DEF SourceTypes
  <1>5. UsesHeld' BY <1>0, <1>1, <1>2, <1>3, NewUseHeld
  <1>6. AdoptionsHeld' BY <1>0, <1>1, <1>2, AdoptionsStay DEF TermsKept
  <1>7. DepsHeld' BY <1>0, <1>1, DepsStay
  <1>8. DisputesHeld' BY <1>0, <1>1, DisputesStay
  <1>9. QED BY <1>4, <1>5, <1>6, <1>7, <1>8 DEF SourceState

(* The run that ends is the one that held the slot. *)
LEMMA FinalizeKeepsSources ==
  ASSUME FactInvariant, SourceState, NEW d \in Dependents, FinalizeAdopted(d)
  PROVE  SourceState'
  <1>0. SourceTypes /\ UsesHeld /\ AdoptionsHeld /\ DepsHeld /\ DisputesHeld BY DEF SourceState
  <1>1. /\ stage[d] = "VALIDATING" /\ holder = d /\ ~disputed /\ mismatched = {}
        /\ stage' = [stage EXCEPT ![d] = "COMPLETED"] /\ holder' = None
        /\ UNCHANGED <<facts, fences, terms, uses, floor, origin, deps, depFences, disputed, mismatched>>
    BY DEF FinalizeAdopted, NoFence, sharedVars, sourceVars
  <1>2. SourceTypes' BY <1>0, <1>1 DEF SourceTypes, Stages
  <1>3. UsesHeld'
    <2>1. TermsKept /\ floor' \in Nat /\ floor <= floor' BY <1>0, <1>1 DEF TermsKept, SourceTypes
    <2>2. QED BY <1>0, <1>1, <2>1, SameFactsGrow, UsesStay
  <1>4. Adopted' = Adopted /\ d \in Adopted
    BY <1>0, <1>1 DEF Adopted, AdoptionsHeld, SlotRead
  <1>5. \A x \in Dependents : stage'[x] = IF x = d THEN "COMPLETED" ELSE stage[x]
    BY <1>0, <1>1 DEF SourceTypes, Runs
  <1>6. SlotRead'
    BY <1>0, <1>1, <1>5, NoneIsNoCommand DEF AdoptionsHeld, SlotRead, Dependents
  <1>7. AdoptionsHeld'
    <2>1. \A x \in Adopted : BindingRead(x)' BY <1>0, <1>1 DEF AdoptionsHeld, BindingRead, UsesOf
    <2>2. \A x \in Adopted : stage'[x] \in {"VALIDATING", "RECONCILIATION_REQUIRED", "COMPLETED"}
      BY <1>0, <1>5 DEF AdoptionsHeld, Adopted
    <2>3. \A x \in Dependents \ Adopted : stage'[x] \in {"PLANNED", "BLOCKED"}
      BY <1>0, <1>4, <1>5 DEF AdoptionsHeld
    <2>4. QED BY <1>0, <1>1, <1>4, <1>6, <2>1, <2>2, <2>3 DEF AdoptionsHeld
  <1>8. DepsHeld' BY <1>0, <1>1, DepsStay
  <1>9. DisputesHeld' BY <1>0, <1>1, DisputesStay
  <1>10. QED BY <1>2, <1>3, <1>7, <1>8, <1>9 DEF SourceState

(* A mismatch halts a run, or sends it to reconciliation if it is at work. *)
LEMMA MismatchKeepsSources ==
  ASSUME FactInvariant, SourceState, NEW r \in Dependents, RecordBindingMismatch(r)
  PROVE  SourceState'
  <1>0. SourceTypes /\ UsesHeld /\ AdoptionsHeld /\ DepsHeld /\ DisputesHeld BY DEF SourceState
  <1>1. /\ stage[r] # "COMPLETED" /\ mismatched' = mismatched \cup {r}
        /\ stage' = [stage EXCEPT ![r] = BindingMismatchRoute(stage[r], holder = r)]
        /\ UNCHANGED <<facts, fences, terms, uses, floor, origin, deps, holder, depFences, disputed>>
    BY DEF RecordBindingMismatch, Terminal, sharedVars, sourceVars
  <1>2. (r \in Adopted) <=> (holder = r)
    BY <1>0, <1>1 DEF AdoptionsHeld, SlotRead, Adopted
  <1>3. BindingMismatchRoute(stage[r], holder = r) = IF r \in Adopted THEN "RECONCILIATION_REQUIRED" ELSE "BLOCKED"
    BY <1>0, <1>2 DEF BindingMismatchRoute, AdoptionsHeld
  <1>4. \A x \in Runs : stage'[x] = IF x = r THEN (IF r \in Adopted THEN "RECONCILIATION_REQUIRED" ELSE "BLOCKED") ELSE stage[x]
    BY <1>0, <1>1, <1>3 DEF SourceTypes
  <1>5. RunsRouted
    <2>1. stage' \in [Runs -> Stages] BY <1>0, <1>1, <1>3 DEF SourceTypes, Stages
    <2>2. QED BY <1>1, <1>4, <2>1 DEF RunsRouted, Runs, Adopted
  <1>6. MismatchRead(r)' BY <1>1, <1>4 DEF MismatchRead, Runs, Adopted
  <1>7. SourceTypes' BY <1>0, <1>1, <1>5 DEF SourceTypes, RunsRouted
  <1>8. UsesHeld'
    <2>1. TermsKept /\ floor' \in Nat /\ floor <= floor' BY <1>0, <1>1 DEF TermsKept, SourceTypes
    <2>2. QED BY <1>0, <1>1, <2>1, SameFactsGrow, UsesStay
  <1>9. AdoptionsHeld' BY <1>0, <1>1, <1>5, <1>6, RunsStay
  <1>10. DepsHeld' BY <1>0, <1>1, DepsStay
  <1>11. DisputesHeld' BY <1>0, <1>1, <1>5, DisputesStay DEF RunsRouted
  <1>12. QED BY <1>7, <1>8, <1>9, <1>10, <1>11 DEF SourceState

(* The route of a dependent that is disputed. *)
LEMMA DependentRoutes ==
  ASSUME NEW why \in {"AUTHORITY", "CONTRARY_RECEIPT"},
         NEW state \in {"VALIDATING", "RECONCILIATION_REQUIRED", "COMPLETED"}
  PROVE  DependentRoute(why, state) = IF state = "COMPLETED" THEN "COMPLETED" ELSE "RECONCILIATION_REQUIRED"
  BY DEF DependentRoute, Terminal, AuthorityFactRoute, Fenced, Fact

(* The dependents of a run are the adopted runs that have it above them. *)
LEMMA DependentsAreAdopted ==
  ASSUME DepsHeld, NEW s
  PROVE  /\ DependentsOf(s) \subseteq Adopted
         /\ \A d : d \in DependentsOf(s) <=> s \in AncestorsOf(d)
  BY DEF DepsHeld, DependentsOf, AncestorsOf

(* The stages after the dependents of a run are routed. *)
LEMMA DependentsRouted ==
  ASSUME DepsHeld, NEW why \in {"AUTHORITY", "CONTRARY_RECEIPT"}, NEW s, NEW st \in [Runs -> Stages],
         \A d \in Adopted : st[d] \in {"VALIDATING", "RECONCILIATION_REQUIRED", "COMPLETED"}
  PROVE  /\ RoutedDependents(st, why, s) \in [Runs -> Stages]
         /\ \A r \in Runs :
              RoutedDependents(st, why, s)[r] =
                IF r \in DependentsOf(s) /\ st[r] # "COMPLETED" THEN "RECONCILIATION_REQUIRED" ELSE st[r]
  <1>1. ASSUME NEW r \in Runs
        PROVE  RoutedDependents(st, why, s)[r] =
                 IF r \in DependentsOf(s) /\ st[r] # "COMPLETED" THEN "RECONCILIATION_REQUIRED" ELSE st[r]
    <2>1. RoutedDependents(st, why, s)[r] = IF r \in DependentsOf(s) THEN DependentRoute(why, st[r]) ELSE st[r]
      BY DEF RoutedDependents
    <2>2. CASE r \in DependentsOf(s)
      <3>1. st[r] \in {"VALIDATING", "RECONCILIATION_REQUIRED", "COMPLETED"} BY <2>2, DependentsAreAdopted
      <3>2. QED BY <2>1, <2>2, <3>1, DependentRoutes
    <2>3. CASE r \notin DependentsOf(s) BY <2>1, <2>3
    <2>4. QED BY <2>2, <2>3
  <1>2. RoutedDependents(st, why, s) = [r \in Runs |-> RoutedDependents(st, why, s)[r]]
    BY DEF RoutedDependents
  <1>3. \A r \in Runs : RoutedDependents(st, why, s)[r] \in Stages BY <1>1 DEF Stages
  <1>4. QED BY <1>1, <1>2, <1>3

(* A contradiction of the root reaches every adopted run. *)
LEMMA LateReceiptKeepsSources ==
  ASSUME FactInvariant, SourceState, LateReceiptRecorded
  PROVE  SourceState'
  <1>0. SourceTypes /\ UsesHeld /\ AdoptionsHeld /\ DepsHeld /\ DisputesHeld BY DEF SourceState
  <1>1. /\ disputed' = TRUE
        /\ depFences' = depFences \cup DependentFences("CONTRARY_RECEIPT", Root, 0)
        /\ stage' = RoutedDependents(stage, "CONTRARY_RECEIPT", Root)
        /\ UNCHANGED <<facts, fences, terms, uses, floor, origin, deps, holder, mismatched>>
    BY DEF LateReceiptRecorded, sharedVars, sourceVars
  <1>2. /\ stage' \in [Runs -> Stages]
        /\ \A r \in Runs :
             stage'[r] = IF r \in DependentsOf(Root) /\ stage[r] # "COMPLETED" THEN "RECONCILIATION_REQUIRED" ELSE stage[r]
    BY <1>0, <1>1, DependentsRouted DEF SourceTypes, AdoptionsHeld
  <1>3. DependentsOf(Root) = Adopted BY <1>0, DependentsAreAdopted DEF DepsHeld
  <1>4. RunsRouted BY <1>2, <1>3 DEF RunsRouted, Runs, Adopted
  <1>5. SourceTypes' BY <1>0, <1>1, <1>2 DEF SourceTypes
  <1>6. UsesHeld'
    <2>1. TermsKept /\ floor' \in Nat /\ floor <= floor' BY <1>0, <1>1 DEF TermsKept, SourceTypes
    <2>2. QED BY <1>0, <1>1, <2>1, SameFactsGrow, UsesStay
  <1>7. AdoptionsHeld' BY <1>0, <1>1, <1>4, RunsStay
  <1>8. DepsHeld' BY <1>0, <1>1, DepsStay
  <1>9. DisputesHeld'
    <2>1. \A x \in depFences' : x.why = "AUTHORITY" => x \in depFences
      BY <1>1 DEF DependentFences
    <2>2. \A i \in DOMAIN facts, d \in Dependents :
            [why |-> "AUTHORITY", fact |-> i, dep |-> d] \in depFences'
              <=> [why |-> "AUTHORITY", fact |-> i, dep |-> d] \in depFences
      BY <1>1, <2>1
    <2>3. \A d \in Adopted :
            /\ [why |-> "CONTRARY_RECEIPT", fact |-> 0, dep |-> d] \in depFences'
            /\ stage'[d] \in {"RECONCILIATION_REQUIRED", "COMPLETED"}
      BY <1>1, <1>2, <1>3 DEF DependentFences, Runs, Adopted
    <2>4. Adopted' = Adopted /\ \A d : AncestorsOf(d)' = AncestorsOf(d) BY <1>1 DEF Adopted, AncestorsOf
    <2>5. QED BY <1>0, <1>1, <2>1, <2>2, <2>3, <2>4 DEF DisputesHeld
  <1>10. QED BY <1>5, <1>6, <1>7, <1>8, <1>9 DEF SourceState

(* A fact routes the run it is recorded with and those that depend on the  *)
(* run it is about.                                                        *)
LEMMA FactRoutesRuns ==
  ASSUME FactInvariant, SourceTypes, AdoptionsHeld, DepsHeld,
         NEW f \in SourceRequests, NEW now, RecordSourceFact(f, now)
  PROVE  RunsRouted
  <1> DEFINE routed == [stage EXCEPT ![f.run] = AuthorityFactRoute(@, f)]
  <1>1. stage' = IF Fenced(f) THEN RoutedDependents(routed, "AUTHORITY", SourceRun(f)) ELSE routed
    BY DEF RecordSourceFact
  <1>2. f.run \in Runs BY SourceRecords DEF Runs, Dependents
  <1>3. \A state \in Stages :
          AuthorityFactRoute(state, f) =
            IF ~Fenced(f) THEN state
            ELSE IF state \in {"VALIDATING", "RECONCILIATION_REQUIRED"} THEN "RECONCILIATION_REQUIRED"
            ELSE IF state = "COMPLETED" THEN "COMPLETED" ELSE "BLOCKED"
    BY DEF AuthorityFactRoute, Stages
  <1>4. stage[f.run] \in Stages BY <1>2 DEF SourceTypes
  <1>5. PICK new \in Stages : new = AuthorityFactRoute(stage[f.run], f) BY <1>3, <1>4 DEF Stages
  <1>6. routed = [stage EXCEPT ![f.run] = new] BY <1>5
  <1>7. /\ routed \in [Runs -> Stages]
        /\ \A r \in Runs : routed[r] = IF r = f.run THEN new ELSE stage[r]
    BY <1>2, <1>6 DEF SourceTypes
  <1> HIDE DEF routed
  <1>8. ASSUME NEW d \in Adopted
        PROVE  /\ routed[d] \in {stage[d], "RECONCILIATION_REQUIRED"}
               /\ routed[d] = "COMPLETED" <=> stage[d] = "COMPLETED"
               /\ routed[d] \in {"VALIDATING", "RECONCILIATION_REQUIRED", "COMPLETED"}
    <2>1. d \in Runs /\ stage[d] \in {"VALIDATING", "RECONCILIATION_REQUIRED", "COMPLETED"}
      BY DEF AdoptionsHeld, Adopted, Runs
    <2>2. CASE d = f.run BY <1>3, <1>4, <1>5, <1>7, <2>1, <2>2
    <2>3. CASE d # f.run BY <1>7, <2>1, <2>3
    <2>4. QED BY <2>2, <2>3
  <1>9. ASSUME NEW d \in Dependents \ Adopted PROVE routed[d] \in {stage[d], "BLOCKED"}
    <2>1. d \in Runs /\ stage[d] \in {"PLANNED", "BLOCKED"} BY DEF AdoptionsHeld, Runs
    <2>2. CASE d = f.run BY <1>3, <1>4, <1>5, <1>7, <2>1, <2>2
    <2>3. CASE d # f.run BY <1>7, <2>1, <2>3
    <2>4. QED BY <2>2, <2>3
  <1>10. CASE ~Fenced(f) BY <1>1, <1>7, <1>8, <1>9, <1>10 DEF RunsRouted
  <1>11. CASE Fenced(f)
    <2>1. stage' = RoutedDependents(routed, "AUTHORITY", SourceRun(f)) BY <1>1, <1>11
    <2>2. PICK s : s = SourceRun(f) OBVIOUS
    <2>3. /\ stage' \in [Runs -> Stages]
          /\ \A r \in Runs :
               stage'[r] = IF r \in DependentsOf(s) /\ routed[r] # "COMPLETED"
                             THEN "RECONCILIATION_REQUIRED" ELSE routed[r]
      BY <1>7, <1>8, <2>1, <2>2, DependentsRouted
    <2>4. DependentsOf(s) \subseteq Adopted BY DependentsAreAdopted
    <2>5. ASSUME NEW d \in Adopted
          PROVE  /\ stage'[d] \in {stage[d], "RECONCILIATION_REQUIRED"}
                 /\ stage'[d] = "COMPLETED" <=> stage[d] = "COMPLETED"
      BY <1>8, <2>3 DEF Adopted, Runs
    <2>6. \A d \in Dependents \ Adopted : stage'[d] \in {stage[d], "BLOCKED"}
      BY <1>9, <2>3, <2>4 DEF Runs
    <2>7. QED BY <2>3, <2>5, <2>6 DEF RunsRouted
  <1>12. QED BY <1>10, <1>11

(* A fact fences whoever depends on the run it is about, and a correction  *)
(* lifts the fences of its own fact.                                       *)
LEMMA FactDisputes ==
  ASSUME FactInvariant, SourceTypes, DepsHeld, DisputesHeld, RunsRouted,
         NEW f \in SourceRequests, NEW now, RecordSourceFact(f, now)
  PROVE  DisputesHeld'
  <1>0. PICK row : row = SourceRecorded(f) OBVIOUS
  <1>1. Records(f, row) /\ row.run = IF Fenced(f) THEN SourceRun(f) ELSE None BY <1>0, SourceRecords
  <1>2. /\ Len(facts) \in Nat /\ Len(facts') = Len(facts) + 1
        /\ DOMAIN facts = 1..Len(facts) /\ DOMAIN facts' = 1..(Len(facts) + 1)
        /\ \A i \in 1..Len(facts) : facts'[i] = facts[i]
        /\ facts'[Len(facts) + 1] = row
    BY <1>1, HistoryGrows DEF FactInvariant
  <1>3. PICK N \in Nat : N = Len(facts) BY <1>2
  <1>4. \A i \in 1..N : i \in 1..(N + 1) /\ i # N + 1 /\ i # 0 OBVIOUS
  <1>5. \A i \in 1..(N + 1) : i \in 1..N \/ i = N + 1 OBVIOUS
  <1>6. /\ depFences' = DependentFencesAfter(f, N + 1) /\ fences' = FencesAfter(f)
        /\ UNCHANGED <<origin, deps, disputed>>
    BY <1>2, <1>3 DEF RecordSourceFact
  <1>7. fences \subseteq 1..N BY <1>2, <1>3 DEF FactInvariant, FactTablesReplay, ExpectedAuthorityFences
  <1>8. Adopted' = Adopted /\ \A d : AncestorsOf(d)' = AncestorsOf(d) BY <1>6 DEF Adopted, AncestorsOf
  <1>9. \A i \in 1..N, d \in Dependents :
          [why |-> "AUTHORITY", fact |-> i, dep |-> d] \in depFences
            <=> i \in fences /\ facts[i].run \in AncestorsOf(d)
    BY <1>2, <1>3 DEF DisputesHeld
  <1>10. \A x \in depFences : x.why = "AUTHORITY" => x.fact \in 1..N
    BY <1>2, <1>3 DEF DisputesHeld
  <1>11. disputed => \A d \in Adopted : stage'[d] \in {"RECONCILIATION_REQUIRED", "COMPLETED"}
    BY DEF DisputesHeld, RunsRouted
  <1>12. ASSUME \A x \in depFences' : x.why = "AUTHORITY" => x.fact \in 1..(N + 1),
                \A i \in 1..(N + 1), d \in Dependents :
                  [why |-> "AUTHORITY", fact |-> i, dep |-> d] \in depFences'
                    <=> i \in fences' /\ facts'[i].run \in AncestorsOf(d),
                \A d \in Adopted :
                  [why |-> "CONTRARY_RECEIPT", fact |-> 0, dep |-> d] \in depFences =>
                    [why |-> "CONTRARY_RECEIPT", fact |-> 0, dep |-> d] \in depFences'
         PROVE  DisputesHeld'
    BY <1>2, <1>3, <1>6, <1>8, <1>11, <1>12 DEF DisputesHeld
  <1>13. CASE Fenced(f)
    <2>1. PICK s : s = SourceRun(f) OBVIOUS
    <2>2. /\ fences' = fences \cup {N + 1}
          /\ depFences' = depFences \cup DependentFences("AUTHORITY", s, N + 1)
          /\ facts'[N + 1].run = s
      <3>1. f.kind # "CORRECTION" BY <1>13 DEF Fenced
      <3>2. fences' = fences \cup {N + 1} BY <1>3, <1>6, <1>13, <3>1 DEF FencesAfter
      <3>3. depFences' = depFences \cup DependentFences("AUTHORITY", s, N + 1)
        BY <1>6, <1>13, <2>1, <3>1 DEF DependentFencesAfter
      <3>4. facts'[N + 1].run = s BY <1>1, <1>2, <1>3, <1>13, <2>1
      <3>5. QED BY <3>2, <3>3, <3>4
    <2>3. \A x \in depFences' :
            x \in depFences \/ \E d \in DependentsOf(s) : x = [why |-> "AUTHORITY", fact |-> N + 1, dep |-> d]
      BY <2>2 DEF DependentFences
    <2>4. \A d \in DependentsOf(s) : [why |-> "AUTHORITY", fact |-> N + 1, dep |-> d] \in depFences'
      BY <2>2 DEF DependentFences
    <2>5. ASSUME NEW x \in depFences', x.why = "AUTHORITY" PROVE x.fact \in 1..(N + 1)
      BY <1>4, <1>10, <2>3, <2>5
    <2>6. ASSUME NEW i \in 1..(N + 1), NEW d \in Dependents
          PROVE  [why |-> "AUTHORITY", fact |-> i, dep |-> d] \in depFences'
                   <=> i \in fences' /\ facts'[i].run \in AncestorsOf(d)
      <3>1. PICK x : x = [why |-> "AUTHORITY", fact |-> i, dep |-> d] OBVIOUS
      <3>2. x.why = "AUTHORITY" /\ x.fact = i /\ x.dep = d BY <3>1
      <3>3. CASE i \in 1..N
        <4>1. x \in depFences' <=> x \in depFences BY <1>4, <2>2, <2>3, <3>2, <3>3
        <4>2. i \in fences' <=> i \in fences BY <1>4, <2>2, <3>3
        <4>3. facts'[i] = facts[i] BY <1>2, <1>3, <3>3
        <4>4. QED BY <1>9, <3>1, <3>3, <4>1, <4>2, <4>3
      <3>4. CASE i = N + 1
        <4>1. x \notin depFences BY <1>4, <1>10, <3>2, <3>4
        <4>2. x \in depFences' <=> d \in DependentsOf(s) BY <2>3, <2>4, <3>1, <3>2, <3>4, <4>1
        <4>3. d \in DependentsOf(s) <=> s \in AncestorsOf(d) BY DependentsAreAdopted
        <4>4. i \in fences' /\ facts'[i].run = s BY <2>2, <3>4
        <4>5. QED BY <3>1, <4>2, <4>3, <4>4
      <3>5. QED BY <1>5, <3>3, <3>4
    <2>7. QED BY <1>12, <2>2, <2>5, <2>6
  <1>14. CASE ~Fenced(f) /\ f.kind = "CORRECTION"
    <2>1. /\ fences' = fences \ {f.corrects}
          /\ depFences' = {x \in depFences : x.why # "AUTHORITY" \/ x.fact # f.corrects}
      BY <1>6, <1>14 DEF FencesAfter, DependentFencesAfter
    <2>2. ASSUME NEW i \in 1..(N + 1), NEW d \in Dependents
          PROVE  [why |-> "AUTHORITY", fact |-> i, dep |-> d] \in depFences'
                   <=> i \in fences' /\ facts'[i].run \in AncestorsOf(d)
      <3>1. PICK x : x = [why |-> "AUTHORITY", fact |-> i, dep |-> d] OBVIOUS
      <3>2. x.why = "AUTHORITY" /\ x.fact = i /\ x.dep = d BY <3>1
      <3>3. x \in depFences' <=> x \in depFences /\ i # f.corrects BY <2>1, <3>2
      <3>4. i \in fences' <=> i \in fences /\ i # f.corrects BY <2>1
      <3>5. CASE i \in 1..N
        <4>1. facts'[i] = facts[i] BY <1>2, <1>3, <3>5
        <4>2. QED BY <1>9, <3>1, <3>3, <3>4, <3>5, <4>1
      <3>6. CASE i = N + 1
        <4>1. x \notin depFences /\ i \notin fences BY <1>4, <1>7, <1>10, <3>2, <3>6
        <4>2. QED BY <3>1, <3>3, <3>4, <4>1
      <3>7. QED BY <1>5, <3>5, <3>6
    <2>3. \A x \in depFences' : x.why = "AUTHORITY" => x.fact \in 1..(N + 1) BY <1>4, <1>10, <2>1
    <2>4. \A d : [why |-> "CONTRARY_RECEIPT", fact |-> 0, dep |-> d] \in depFences =>
                   [why |-> "CONTRARY_RECEIPT", fact |-> 0, dep |-> d] \in depFences'
      BY <2>1
    <2>5. QED BY <1>12, <2>2, <2>3, <2>4
  <1>15. CASE ~Fenced(f) /\ f.kind # "CORRECTION"
    <2>1. fences' = fences /\ depFences' = depFences
      BY <1>6, <1>15 DEF FencesAfter, DependentFencesAfter
    <2>2. ASSUME NEW i \in 1..(N + 1), NEW d \in Dependents
          PROVE  [why |-> "AUTHORITY", fact |-> i, dep |-> d] \in depFences'
                   <=> i \in fences' /\ facts'[i].run \in AncestorsOf(d)
      <3>1. PICK x : x = [why |-> "AUTHORITY", fact |-> i, dep |-> d] OBVIOUS
      <3>2. x.why = "AUTHORITY" /\ x.fact = i /\ x.dep = d BY <3>1
      <3>3. CASE i \in 1..N
        <4>1. facts'[i] = facts[i] BY <1>2, <1>3, <3>3
        <4>2. QED BY <1>9, <2>1, <3>3, <4>1
      <3>4. CASE i = N + 1
        <4>1. x \notin depFences /\ i \notin fences BY <1>4, <1>7, <1>10, <3>2, <3>4
        <4>2. QED BY <2>1, <3>1, <4>1
      <3>5. QED BY <1>5, <3>3, <3>4
    <2>3. \A x \in depFences' : x.why = "AUTHORITY" => x.fact \in 1..(N + 1) BY <1>4, <1>10, <2>1
    <2>4. QED BY <1>12, <2>1, <2>2, <2>3
  <1>16. QED BY <1>13, <1>14, <1>15

(* A fact keeps what is known of the source grants. *)
LEMMA FactKeepsSources ==
  ASSUME FactInvariant, SourceState, NEW f \in SourceRequests,
         NEW now \in floor..MaxTime, RecordSourceFact(f, now)
  PROVE  SourceState'
  <1>0. SourceTypes /\ UsesHeld /\ AdoptionsHeld /\ DepsHeld /\ DisputesHeld BY DEF SourceState
  <1>1. /\ terms[f.grant] # Unregistered /\ floor' = now
        /\ UNCHANGED <<terms, uses, origin, deps, holder, disputed, mismatched>>
    BY DEF RecordSourceFact, StoreUtcNow
  <1>2. now \in Nat /\ floor <= now BY <1>0, AdoptionBounds DEF SourceTypes
  <1>3. RunsRouted BY <1>0, FactRoutesRuns
  <1>4. SourceTypes' BY <1>0, <1>1, <1>2, <1>3 DEF SourceTypes, RunsRouted
  <1>5. UsesHeld'
    <2>1. PICK row : Records(f, row) BY SourceRecords
    <2>2. /\ facts' \in Seq(AnyRow) /\ Len(facts) \in Nat /\ Len(facts') = Len(facts) + 1
          /\ DOMAIN facts = 1..Len(facts) /\ DOMAIN facts' = 1..(Len(facts) + 1)
          /\ \A i \in 1..Len(facts) : facts'[i] = facts[i]
          /\ facts'[Len(facts) + 1] = row
      BY <2>1, HistoryGrows DEF FactInvariant
    <2>3. FactsGrow BY <2>2 DEF FactsGrow
    <2>4. \A i \in DOMAIN facts' : i \in DOMAIN facts \/ i = Len(facts) + 1 BY <2>2
    <2>5. terms[row.grant] # Unregistered BY <1>1, <2>1 DEF Records
    <2>6. QED BY <1>0, <1>1, <1>2, <2>2, <2>3, <2>4, <2>5, UsesStay DEF TermsKept
  <1>6. AdoptionsHeld' BY <1>0, <1>1, <1>3, RunsStay
  <1>7. DepsHeld' BY <1>0, <1>1, DepsStay
  <1>8. DisputesHeld' BY <1>0, <1>3, FactDisputes
  <1>9. QED BY <1>4, <1>5, <1>6, <1>7, <1>8 DEF SourceState

(* The dependencies after an adoption. *)
LEMMA AdoptionLinks ==
  ASSUME SourceTypes, AdoptionsHeld, DepsHeld, NEW d \in Dependents \ Adopted, AdoptionRecorded(d),
         terms[d].from \in (Adopted \cup {Root}) \ {d}
  PROVE  DepsHeld'
  <1>0. PICK from : from = terms[d].from OBVIOUS
  <1>1. /\ origin' = [origin EXCEPT ![d] = from] /\ deps' = deps \cup DependenciesOf(d, from)
    BY <1>0 DEF AdoptionRecorded
  <1>2. /\ from # None /\ from # d /\ from \in Adopted \cup {Root} /\ d \in Dependents /\ d \notin Adopted
        /\ Adopted \subseteq Dependents /\ Root \notin Dependents
    BY <1>0, RootIsNoDependent, NoneIsNoCommand DEF Adopted, Dependents
  <1>3. DOMAIN origin = Dependents BY DEF SourceTypes
  <1>4. \A x \in Dependents : origin[x] # d
    <2>1. d # None /\ d # Root BY RootIsNoDependent, NoneIsNoCommand DEF Dependents
    <2>2. QED BY <1>2, <2>1 DEF AdoptionsHeld, Adopted
  <1>5. Adopts(origin, origin', d, from) BY <1>1, <1>2, <1>3, <1>4 DEF Adopts
  <1>6. Adopted' = Adopted \cup {d} BY <1>1, <1>2, <1>3 DEF Adopted
  <1>7. PICK A, n : A = Cardinality(Adopted) /\ n = Cardinality(Dependents) OBVIOUS
  <1>8. A \in Nat /\ n \in Nat /\ Cardinality(Adopted') = A + 1 /\ A + 1 <= n
    <2>1. IsFiniteSet(Dependents) /\ n \in Nat BY <1>7, DependentsCount
    <2>2. IsFiniteSet(Adopted) /\ IsFiniteSet(Adopted \cup {d})
      BY <1>2, <2>1, FS_Subset
    <2>3. A \in Nat /\ Cardinality(Adopted \cup {d}) = A + 1
      BY <1>2, <1>7, <2>2, FS_CardinalityType, FS_AddElement
    <2>4. Cardinality(Adopted \cup {d}) <= n BY <1>2, <1>7, <2>1, FS_Subset
    <2>5. QED BY <1>6, <2>1, <2>3, <2>4
  <1>9. deps = UNION {Chain(x, origin) : x \in Dependents}
    BY DEF DepsHeld, ExpectedDependencies, StandsOn, Chain
  <1>10. ExpectedDependencies' = UNION {Chain(x, origin') : x \in Dependents}
    BY DEF ExpectedDependencies, StandsOn, Chain
  <1>11. PICK up : up = Chain(from, origin) OBVIOUS
  <1>12. {x \in deps : x.dep = from} = up
    <2>1. ASSUME NEW e \in up PROVE e \in deps /\ e.dep = from
      <3>1. e.dep = from BY <1>11, ChainFields
      <3>2. from \in Dependents
        <4>1. from \notin Dependents => up = {} BY <1>11, RootsHaveNoChain
        <4>2. QED BY <4>1
      <3>3. QED BY <1>9, <1>11, <3>1, <3>2
    <2>2. ASSUME NEW e \in deps, e.dep = from PROVE e \in up
      <3>1. PICK x \in Dependents : e \in Chain(x, origin) BY <1>9
      <3>2. e.dep = x BY <3>1, ChainFields
      <3>3. QED BY <1>11, <2>2, <3>1, <3>2
    <2>3. QED BY <2>1, <2>2
  <1>13. \A e \in up : e.depth \in 1..A BY <1>7, <1>12 DEF DepsHeld
  <1>14. \A e \in up : e.depth < n BY <1>8, <1>13
  <1> DEFINE First == [anc |-> from, dep |-> d, depth |-> 1]
             Above == {[anc |-> e.anc, dep |-> d, depth |-> e.depth + 1] : e \in up}
  <1>15. /\ \A x : x # d => Chain(x, origin') = Chain(x, origin)
         /\ Chain(d, origin') = {First} \cup Above
    <2>1. PICK o, q : o = origin /\ q = origin' OBVIOUS
    <2>2. Adopts(o, q, d, from) /\ \A e \in Chain(from, o) : e.depth < Cardinality(Dependents)
      BY <1>5, <1>7, <1>11, <1>14, <2>1
    <2>3. Extended(o, q, d, from) BY <1>2, <2>2, ChainsExtend
    <2>4. QED BY <1>11, <2>1, <2>3 DEF Extended
  <1>16. DependenciesOf(d, from) = {First} \cup Above BY <1>12 DEF DependenciesOf
  <1>17. Chain(d, origin) = {} BY <1>2, RootsHaveNoChain DEF Adopted
  <1>18. ASSUME NEW e \in {First} \cup Above
         PROVE  e.dep = d /\ e.depth \in 1..(A + 1)
    <2>1. CASE e = First BY <1>8, <2>1
    <2>2. CASE e \in Above
      <3>1. PICK x \in up : e = [anc |-> x.anc, dep |-> d, depth |-> x.depth + 1] BY <2>2
      <3>2. x.depth \in 1..A BY <1>13
      <3>3. e.dep = d /\ e.depth = x.depth + 1 BY <3>1
      <3>4. QED BY <1>8, <3>2, <3>3
    <2>3. QED BY <1>18, <2>1, <2>2
  <1>19. First.dep = d /\ First.anc = from
         /\ \A x \in up : \E e \in Above : e.dep = d /\ e.anc = x.anc
    <2>1. ASSUME NEW x \in up PROVE \E e \in Above : e.dep = d /\ e.anc = x.anc
      <3>1. PICK e : e = [anc |-> x.anc, dep |-> d, depth |-> x.depth + 1] OBVIOUS
      <3>2. e \in Above /\ e.dep = d /\ e.anc = x.anc BY <3>1
      <3>3. QED BY <3>2
    <2>2. QED BY <2>1
  <1> HIDE DEF First, Above
  <1>20. deps' = ExpectedDependencies'
    <2>1. deps' = deps \cup Chain(d, origin') BY <1>1, <1>15, <1>16
    <2>2. ASSUME NEW e PROVE e \in deps' <=> \E x \in Dependents : e \in Chain(x, origin')
      <3>1. e \in deps <=> \E x \in Dependents : e \in Chain(x, origin) BY <1>9
      <3>2. QED BY <1>2, <1>15, <1>17, <2>1, <3>1
    <2>3. QED BY <1>10, <2>2
  <1>21. \A e \in deps' : e.dep \in Adopted' /\ e.depth \in 1..Cardinality(Adopted')
    <2>1. \A e \in deps : e.dep \in Adopted /\ e.depth \in 1..A BY <1>7 DEF DepsHeld
    <2>2. \A e \in deps' : e \in deps \/ e \in {First} \cup Above BY <1>1, <1>16
    <2>3. \A k \in 1..A : k \in 1..(A + 1) BY <1>8
    <2>4. QED BY <1>6, <1>8, <1>18, <2>1, <2>2, <2>3
  <1>22. ASSUME NEW x \in Adopted' PROVE Root \in AncestorsOf(x)'
    <2>1. \A e \in deps' : e.dep = x => e.anc \in AncestorsOf(x)' BY DEF AncestorsOf
    <2>2. CASE x \in Adopted
      <3>1. PICK e \in deps : e.dep = x /\ e.anc = Root BY <2>2 DEF DepsHeld, AncestorsOf
      <3>2. QED BY <1>1, <2>1, <3>1
    <2>3. CASE x = d
      <3>1. {First} \cup Above \subseteq deps' BY <1>1, <1>16
      <3>2. CASE from = Root BY <1>19, <2>1, <2>3, <3>1, <3>2
      <3>3. CASE from \in Adopted
        <4>1. PICK e \in deps : e.dep = from /\ e.anc = Root BY <3>3 DEF DepsHeld, AncestorsOf
        <4>2. e \in up BY <1>12, <4>1
        <4>3. PICK y \in Above : y.dep = d /\ y.anc = Root BY <1>19, <4>1, <4>2
        <4>4. QED BY <2>1, <2>3, <3>1, <4>3
      <3>4. QED BY <1>2, <3>2, <3>3
    <2>4. QED BY <1>6, <2>2, <2>3
  <1>23. QED BY <1>20, <1>21, <1>22 DEF DepsHeld

(* An adoption is made while no fence stands and the slot is free. *)
LEMMA AdoptionKeepsSources ==
  ASSUME FactInvariant, SourceState, NEW d \in Dependents,
         NEW now \in floor..MaxTime, AdoptVerifiedEffect(d, now)
  PROVE  SourceState'
  <1>0. SourceTypes /\ UsesHeld /\ AdoptionsHeld /\ DepsHeld /\ DisputesHeld BY DEF SourceState
  <1>1. /\ terms[d] # Unregistered /\ holder = None /\ fences = {} /\ depFences = {} /\ ~disputed /\ mismatched = {}
        /\ OriginFinal(d, terms[d].from) /\ Consumes(d, Adopting, now) /\ AdoptionRecorded(d)
        /\ UNCHANGED <<facts, fences, depFences, disputed, mismatched>>
    BY DEF AdoptVerifiedEffect, NoFence, sharedVars
  <1>2. /\ stage' = [stage EXCEPT ![d] = "VALIDATING"] /\ origin' = [origin EXCEPT ![d] = terms[d].from]
        /\ holder' = d
    BY <1>1 DEF AdoptionRecorded
  <1>3. /\ now \in Nat /\ floor' = now /\ terms' = terms /\ ~KeyUsed(d, Adopting)
        /\ uses' = uses \cup {[grant |-> d, key |-> Adopting, at |-> now, after |-> Len(facts)]}
    BY <1>0, <1>1, AdoptionBounds DEF SourceTypes, Consumes, StoreUtcNow
  <1>4. d \notin Adopted
    BY <1>0, <1>3 DEF KeyUsed, AdoptionsHeld, BindingRead, UsesOf
  <1>5. terms[d].from \in (Adopted \cup {Root}) \ {d} /\ terms[d].from # None
    BY <1>1, RootIsNoDependent, NoneIsNoCommand DEF OriginFinal, Adopted, Dependents
  <1>6. SourceTypes'
    <2>1. origin' \in [Dependents -> Runs \cup {None}] BY <1>0, <1>2, <1>5 DEF SourceTypes, Runs, Adopted
    <2>2. stage' \in [Runs -> Stages] BY <1>0, <1>2 DEF SourceTypes, Stages
    <2>3. QED BY <1>0, <1>1, <1>2, <1>3, <2>1, <2>2 DEF SourceTypes
  <1>7. UsesHeld' BY <1>0, <1>1, <1>3, NewUseHeld DEF Dependents
  <1>8. DepsHeld' BY <1>0, <1>1, <1>4, <1>5, AdoptionLinks
  <1>9. Adopted' = Adopted \cup {d} BY <1>0, <1>2, <1>5 DEF Adopted, SourceTypes
  <1>10. /\ \A x \in Dependents : stage'[x] = IF x = d THEN "VALIDATING" ELSE stage[x]
         /\ \A x \in Dependents : origin'[x] = IF x = d THEN terms[d].from ELSE origin[x]
    BY <1>0, <1>2 DEF SourceTypes, Runs
  <1>11. AdoptionsHeld'
    <2>1. ASSUME NEW x \in Adopted' PROVE BindingRead(x)'
      <3>1. PICK u : u = [grant |-> d, key |-> Adopting, at |-> now, after |-> Len(facts)] OBVIOUS
      <3>2. u \in uses' /\ u.grant = d /\ u.key = Adopting BY <1>3, <3>1
      <3>3. CASE x = d BY <1>3, <1>10, <3>2, <3>3 DEF BindingRead, UsesOf
      <3>4. CASE x \in Adopted /\ x # d
        <4>1. origin'[x] = origin[x] BY <1>10, <3>4 DEF Adopted
        <4>2. BindingRead(x) BY <1>0, <3>4 DEF AdoptionsHeld
        <4>3. QED BY <1>3, <4>1, <4>2 DEF BindingRead, UsesOf
      <3>5. QED BY <1>9, <3>3, <3>4
    <2>2. \A x \in Adopted' : origin'[x] \in Adopted' \cup {Root}
      BY <1>0, <1>5, <1>9, <1>10 DEF AdoptionsHeld, Adopted
    <2>3. \A x \in Adopted' : stage'[x] \in {"VALIDATING", "RECONCILIATION_REQUIRED", "COMPLETED"}
      BY <1>0, <1>9, <1>10 DEF AdoptionsHeld, Adopted
    <2>4. \A x \in Dependents \ Adopted' : stage'[x] \in {"PLANNED", "BLOCKED"}
      BY <1>0, <1>9, <1>10 DEF AdoptionsHeld
    <2>5. SlotRead'
      <3> SUFFICES ASSUME NEW x \in Dependents
                   PROVE  (origin'[x] # None /\ stage'[x] # "COMPLETED") <=> (holder' = x)
        BY DEF SlotRead
      <3>1. (origin[x] # None /\ stage[x] # "COMPLETED") <=> (holder = x) BY <1>0 DEF AdoptionsHeld, SlotRead
      <3>2. holder # x BY <1>1, NoneIsNoCommand DEF Dependents
      <3>3. QED BY <1>2, <1>5, <1>10, <3>1, <3>2
    <2>6. QED BY <1>1, <2>1, <2>2, <2>3, <2>4, <2>5 DEF AdoptionsHeld
  <1>12. DisputesHeld' BY <1>1 DEF DisputesHeld
  <1>13. QED BY <1>6, <1>7, <1>8, <1>11, <1>12 DEF SourceState

(* Every step keeps what is known of the source grants and the adoptions. *)
LEMMA NextKeepsSources == FactInvariant /\ SourceInvariant /\ [AdoptionNext]_allVars => SourceInvariant'
  <1> SUFFICES ASSUME FactInvariant, SourceInvariant, [AdoptionNext]_allVars PROVE SourceInvariant' OBVIOUS
  <1>1. CASE UNCHANGED <<kind, facts, fences, adoptionVars>>
    <2> SUFFICES ASSUME SourceState PROVE SourceState' BY <1>1 DEF SourceInvariant
    <2>0. SourceTypes /\ UsesHeld /\ AdoptionsHeld /\ DepsHeld /\ DisputesHeld BY DEF SourceState
    <2>1. UNCHANGED <<facts, fences, terms, uses, floor, stage, origin, deps, holder, depFences, disputed, mismatched>>
      BY <1>1 DEF adoptionVars
    <2>2. TermsKept /\ floor' \in Nat /\ floor <= floor' BY <2>0, <2>1 DEF TermsKept, SourceTypes
    <2>3. UsesHeld' BY <2>0, <2>1, <2>2, SameFactsGrow, UsesStay
    <2>4. SourceTypes' BY <2>0, <2>1 DEF SourceTypes
    <2>5. AdoptionsHeld' /\ DepsHeld' /\ DisputesHeld'
      BY <2>0, <2>1, <2>2, AdoptionsStay, DepsStay, DisputesStay
    <2>6. QED BY <2>3, <2>4, <2>5 DEF SourceState
  <1>2. CASE kind # "SOURCE" /\ Next
    <2>1. kind' = kind
      <3>1. CASE \E f \in Requests : RecordFact(f) BY <3>1 DEF RecordFact
      <3>2. CASE Reopen BY <3>2 DEF Reopen
      <3>3. QED BY <1>2, <3>1, <3>2, OthersKeepFacts DEF Next
    <2>2. QED BY <1>2, <2>1 DEF SourceInvariant
  <1>3. CASE kind = "SOURCE" /\ \E now \in floor..MaxTime : AdoptionStep(now)
    <2>1. SourceState BY <1>3 DEF SourceInvariant
    <2>2. PICK now \in floor..MaxTime : AdoptionStep(now) BY <1>3
    <2>3. SourceState'
      BY <2>1, <2>2, RegisterKeepsSources, ConsumeKeepsSources, AdoptionKeepsSources, FactKeepsSources
         DEF AdoptionStep, Dependents, Runs
    <2>4. QED BY <2>3 DEF SourceInvariant
  <1>4. CASE /\ kind = "SOURCE"
             /\ \/ \E d \in Dependents : FinalizeAdopted(d)
                \/ LateReceiptRecorded
                \/ \E r \in Dependents : RecordBindingMismatch(r)
    <2>1. SourceState BY <1>4 DEF SourceInvariant
    <2>2. SourceState' BY <1>4, <2>1, FinalizeKeepsSources, LateReceiptKeepsSources, MismatchKeepsSources
    <2>3. QED BY <2>2 DEF SourceInvariant
  <1>5. CASE UNCHANGED allVars BY <1>1, <1>5 DEF allVars, vars, factVars
  <1>6. QED BY <1>2, <1>3, <1>4, <1>5 DEF AdoptionNext

(* The invariant of the source log and of the adoptions it authorizes, for *)
(* any number of grants, uses, facts, adoptions and disputes.              *)
THEOREM SourcesHold == AdoptionSpec => []SourceInvariant
  <1>1. AdoptionInit => SourceInvariant BY InitSources DEF SourceInvariant
  <1>2. QED BY <1>1, NextKeepsSources, FactsHold, PTL DEF AdoptionSpec, allVars

(* A run rests on exactly the runs it is recorded to depend on. *)
LEMMA StandsOnDeps ==
  ASSUME DepsHeld, NEW d \in Dependents
  PROVE  StandsOn(d) = {e \in deps : e.dep = d}
  <1>1. deps = UNION {Chain(x, origin) : x \in Dependents} /\ StandsOn(d) = Chain(d, origin)
    BY DEF DepsHeld, ExpectedDependencies, StandsOn, Chain
  <1>2. ASSUME NEW e \in Chain(d, origin) PROVE e \in deps /\ e.dep = d
    <2>1. e.dep = d BY ChainFields
    <2>2. QED BY <1>1, <2>1
  <1>3. ASSUME NEW e \in deps, e.dep = d PROVE e \in Chain(d, origin)
    <2>1. PICK x \in Dependents : e \in Chain(x, origin) BY <1>1
    <2>2. e.dep = x BY <2>1, ChainFields
    <2>3. QED BY <1>3, <2>1, <2>2
  <1>4. QED BY <1>1, <1>2, <1>3

(* SourceHistoryReplays: the source log, the adoptions, their dependencies *)
(* and the slot of storage.py can be read back at all times, however the   *)
(* uses, the facts and their corrections are interleaved.                  *)
THEOREM SourceHistoriesReplay == AdoptionSpec => []SourceHistoryReplays
  <1>1. FactInvariant /\ SourceInvariant => SourceHistoryReplays
    <2> SUFFICES ASSUME FactInvariant, SourceState, kind = "SOURCE"
                 PROVE  /\ ClockRead /\ \A u \in uses : UseRead(u)
                        /\ \A i \in DOMAIN facts : FactRead(i)
                        /\ \A d \in Dependents : origin[d] # None => BindingRead(d) /\ ActivityRead(d) /\ OriginRead(d)
                        /\ deps = ExpectedDependencies /\ SlotRead
                        /\ \A r \in mismatched : MismatchRead(r)
      BY DEF SourceInvariant, SourceHistoryReplays
    <2>0. SourceTypes /\ UsesHeld /\ AdoptionsHeld /\ DepsHeld BY DEF SourceState
    <2>1. ClockRead /\ \A u \in uses : UseRead(u) BY <2>0 DEF UsesHeld
    <2>2. ASSUME NEW i \in DOMAIN facts PROVE FactRead(i)
      <3>1. i \in Nat /\ facts[i].corrects \in 0..(i - 1) /\ (facts[i].kind = "CORRECTION" => facts[i].corrects # 0)
        BY <2>2 DEF FactInvariant, HistoryTyped
      <3>2. QED BY <2>0, <3>1 DEF UsesHeld, FactRead
    <2>3. ASSUME NEW d \in Dependents, origin[d] # None PROVE BindingRead(d) /\ ActivityRead(d) /\ OriginRead(d)
      <3>1. d \in Adopted BY <2>3 DEF Adopted
      <3>2. BindingRead(d) BY <2>0, <3>1 DEF AdoptionsHeld
      <3>3. ActivityRead(d) BY <2>0 DEF UsesHeld, ActivityRead, UsesOf
      <3>4. OriginRead(d)
        <4>1. {e.anc : e \in StandsOn(d)} = AncestorsOf(d) BY <2>0, StandsOnDeps DEF AncestorsOf
        <4>2. QED BY <2>0, <3>1, <4>1 DEF OriginRead, DepsHeld
      <3>5. QED BY <3>2, <3>3, <3>4
    <2>4. QED BY <2>0, <2>1, <2>2, <2>3 DEF AdoptionsHeld, DepsHeld
  <1>2. QED BY <1>1, SourcesHold, FactsHold, PTL

(* DisputeReachesDependents: a dispute of storage.py reaches every run     *)
(* that rests on the disputed one, over chains of any length, and is       *)
(* lifted by the correction of that very fact only.                        *)
THEOREM DisputesReachDependents == AdoptionSpec => []DisputeReachesDependents
  <1>1. FactInvariant /\ SourceInvariant => DisputeReachesDependents
    <2> SUFFICES ASSUME FactInvariant, SourceState, kind = "SOURCE"
                 PROVE  /\ \A d \in Dependents :
                             {i \in DOMAIN facts : [why |-> "AUTHORITY", fact |-> i, dep |-> d] \in depFences}
                               = ExpectedDependentFences(d)
                        /\ disputed => \A d \in Dependents :
                             origin[d] # None =>
                               /\ [why |-> "CONTRARY_RECEIPT", fact |-> 0, dep |-> d] \in depFences
                               /\ stage[d] \in {"RECONCILIATION_REQUIRED", "BLOCKED", "COMPLETED"}
      BY DEF SourceInvariant, DisputeReachesDependents
    <2>0. DepsHeld /\ DisputesHeld BY DEF SourceState
    <2>1. ASSUME NEW d \in Dependents
          PROVE  {i \in DOMAIN facts : [why |-> "AUTHORITY", fact |-> i, dep |-> d] \in depFences}
                   = ExpectedDependentFences(d)
      <3>1. {e.anc : e \in StandsOn(d)} = AncestorsOf(d) BY <2>0, StandsOnDeps DEF AncestorsOf
      <3>2. fences = ExpectedAuthorityFences(facts) /\ fences \subseteq DOMAIN facts
        BY DEF FactInvariant, FactTablesReplay, ExpectedAuthorityFences
      <3>3. ExpectedDependentFences(d) = {i \in fences : facts[i].run \in AncestorsOf(d)}
        BY <3>1, <3>2 DEF ExpectedDependentFences
      <3>4. \A i \in DOMAIN facts :
              [why |-> "AUTHORITY", fact |-> i, dep |-> d] \in depFences
                <=> i \in fences /\ facts[i].run \in AncestorsOf(d)
        BY <2>0 DEF DisputesHeld
      <3>5. QED BY <3>2, <3>3, <3>4
    <2>2. ASSUME disputed, NEW d \in Dependents, origin[d] # None
          PROVE  /\ [why |-> "CONTRARY_RECEIPT", fact |-> 0, dep |-> d] \in depFences
                 /\ stage[d] \in {"RECONCILIATION_REQUIRED", "BLOCKED", "COMPLETED"}
      BY <2>0, <2>2 DEF DisputesHeld, Adopted
    <2>3. QED BY <2>1, <2>2
  <1>2. QED BY <1>1, SourcesHold, FactsHold, PTL
================================================================================
