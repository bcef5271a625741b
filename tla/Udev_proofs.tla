------------------------------- MODULE Udev_proofs ------------------------------
(***************************************************************************)
(* Proofs about the references of Udev, for any numbers of objects and of  *)
(* wrappers and any length of the chains of parents.                       *)
(***************************************************************************)
EXTENDS Udev, FiniteSetTheorems, TLAPS

Wrappers(o) == {w \in Wrapper : raw[w] = o}
Children(o) == {c \in Object : parent[c] = o}

\* A device that holds a parent is there itself, and is one level below it.
ParentsAbove ==
    \A c \in Object : parent[c] # Null => refs[c] > 0 /\ level[c] = level[parent[c]] + 1

UdevInv == TypeOK /\ ParentsAbove /\ CountsAreExact /\ NeverUndefined

-------------------------------------------------------------------------------
(* Counting *)

LEMMA Finite ==
  ASSUME NEW o
  PROVE  /\ IsFiniteSet(Wrappers(o)) /\ Cardinality(Wrappers(o)) \in Nat
         /\ IsFiniteSet(Children(o)) /\ Cardinality(Children(o)) \in Nat
<1>1. Wrappers(o) \subseteq Wrapper /\ Children(o) \subseteq Object
  BY DEF Wrappers, Children
<1> QED
  BY <1>1, UdevAssumption, FS_Subset, FS_CardinalityType

LEMMA CountsSay ==
  ASSUME CountsAreExact
  PROVE  \A o \in Object : refs[o] = Cardinality(Wrappers(o)) + Cardinality(Children(o))
BY DEF CountsAreExact, Wrappers, Children

LEMMA SayCounts ==
  ASSUME \A o \in Object : refs'[o] = Cardinality(Wrappers(o)') + Cardinality(Children(o)')
  PROVE  CountsAreExact'
BY DEF CountsAreExact, Wrappers, Children

\* An object without references is nobody's.
LEMMA GoneIsNobodys ==
  ASSUME UdevInv, NEW o \in Object, refs[o] = 0
  PROVE  Wrappers(o) = {} /\ Children(o) = {} /\ parent[o] = Null
<1>1. /\ Cardinality(Wrappers(o)) \in Nat /\ Cardinality(Children(o)) \in Nat
      /\ Cardinality(Wrappers(o)) + Cardinality(Children(o)) = 0
  BY Finite, CountsSay DEF UdevInv
<1>2. Cardinality(Wrappers(o)) = 0 /\ Cardinality(Children(o)) = 0
  BY <1>1
<1>3. Wrappers(o) = {} /\ Children(o) = {}
  BY <1>2, Finite, FS_EmptySet
<1> QED
  BY <1>3 DEF UdevInv, ParentsAbove

\* An object with one reference has one wrapper or one child, and no other.
LEMMA OneReference ==
  ASSUME UdevInv, NEW o \in Object, refs[o] <= 1
  PROVE  /\ \A w \in Wrappers(o) : Wrappers(o) = {w} /\ Children(o) = {}
         /\ \A c \in Children(o) : Children(o) = {c} /\ Wrappers(o) = {}
<1>1. /\ Cardinality(Wrappers(o)) \in Nat /\ Cardinality(Children(o)) \in Nat
      /\ Cardinality(Wrappers(o)) + Cardinality(Children(o)) <= 1
  BY Finite, CountsSay DEF UdevInv
<1>2. IsFiniteSet(Wrappers(o)) /\ IsFiniteSet(Children(o))
  BY Finite
<1>3. ASSUME NEW w \in Wrappers(o) PROVE Wrappers(o) = {w} /\ Children(o) = {}
  <2>1. Cardinality(Wrappers(o)) # 0
    BY <1>2, <1>3, FS_EmptySet
  <2>2. Cardinality(Wrappers(o)) = 1 /\ Cardinality(Children(o)) = 0
    BY <1>1, <2>1
  <2>3. Children(o) = {}
    BY <1>2, <2>2, FS_EmptySet
  <2>4. Cardinality(Wrappers(o) \ {w}) = 0 /\ IsFiniteSet(Wrappers(o) \ {w})
    BY <1>2, <1>3, <2>2, FS_RemoveElement
  <2>5. Wrappers(o) \ {w} = {}
    BY <2>4, FS_EmptySet
  <2> QED
    BY <1>3, <2>3, <2>5
<1>4. ASSUME NEW c \in Children(o) PROVE Children(o) = {c} /\ Wrappers(o) = {}
  <2>1. Cardinality(Children(o)) # 0
    BY <1>2, <1>4, FS_EmptySet
  <2>2. Cardinality(Children(o)) = 1 /\ Cardinality(Wrappers(o)) = 0
    BY <1>1, <2>1
  <2>3. Wrappers(o) = {}
    BY <1>2, <2>2, FS_EmptySet
  <2>4. Cardinality(Children(o) \ {c}) = 0 /\ IsFiniteSet(Children(o) \ {c})
    BY <1>2, <1>4, <2>2, FS_RemoveElement
  <2>5. Children(o) \ {c} = {}
    BY <2>4, FS_EmptySet
  <2> QED
    BY <1>4, <2>3, <2>5
<1> QED
  BY <1>3, <1>4

-------------------------------------------------------------------------------
(* What goes with the last reference *)

\* A chain has its beginning and the parents of its members, if they are in the
\* set; anything that has them contains it.
LEMMA ChainFacts ==
  ASSUME NEW o, NEW some
  PROVE  /\ Chain(o, some) \subseteq some
         /\ o \in some => o \in Chain(o, some)
         /\ \A c \in Chain(o, some) : parent[c] \in some => parent[c] \in Chain(o, some)
         /\ \A S \in SUBSET some :
               (\A q \in some : (q = o \/ \E c \in S : parent[c] = q) => q \in S)
                  => Chain(o, some) \subseteq S
<1>1. Chain(o, some) \subseteq some
  BY DEF Chain
<1>2. o \in some => o \in Chain(o, some)
  BY DEF Chain
<1>3. ASSUME NEW c \in Chain(o, some), parent[c] \in some
      PROVE  parent[c] \in Chain(o, some)
  <2> SUFFICES ASSUME NEW S \in SUBSET some,
                      \A q \in some : (q = o \/ \E d \in S : parent[d] = q) => q \in S
               PROVE  parent[c] \in S
    BY <1>3 DEF Chain
  <2>1. c \in S
    BY <1>3 DEF Chain
  <2> QED
    BY <1>3, <2>1
<1>4. \A S \in SUBSET some :
         (\A q \in some : (q = o \/ \E c \in S : parent[c] = q) => q \in S)
            => Chain(o, some) \subseteq S
  BY DEF Chain
<1> QED
  BY <1>1, <1>2, <1>3, <1>4

LEMMA GoneFacts ==
  ASSUME UdevInv, NEW o \in Object
  PROVE  /\ \A p \in Gone(o) : p \in Object /\ refs[p] <= 1
         /\ refs[o] <= 1 => o \in Gone(o)
         /\ refs[o] > 1 => Gone(o) = {}
         /\ \A c \in Gone(o) : parent[c] # Null /\ refs[parent[c]] <= 1 => parent[c] \in Gone(o)
         /\ \A p \in Gone(o) : p # o => \E c \in Gone(o) : parent[c] = p
<1> DEFINE some == {p \in Object : refs[p] <= 1}
<1>1. Gone(o) = Chain(o, some)
  BY DEF Gone
<1>2. \A p \in Gone(o) : p \in Object /\ refs[p] <= 1
  BY <1>1, ChainFacts
<1>3. refs[o] <= 1 => o \in Gone(o)
  BY <1>1, ChainFacts
<1>4. ASSUME NEW c \in Gone(o), parent[c] # Null, refs[parent[c]] <= 1
      PROVE  parent[c] \in Gone(o)
  <2>1. parent[c] \in Object
    BY <1>2, <1>4 DEF UdevInv, TypeOK
  <2>2. parent[c] \in some
    BY <1>4, <2>1
  <2> QED
    BY <1>1, <1>4, <2>2, ChainFacts
<1>5. ASSUME NEW p \in Gone(o), p # o
      PROVE  \E c \in Gone(o) : parent[c] = p
  <2> SUFFICES ASSUME \A c \in Gone(o) : parent[c] # p
               PROVE  FALSE
    OBVIOUS
  <2> DEFINE S == Gone(o) \ {p}
  <2>1. S \in SUBSET some
    BY <1>2
  <2>2. ASSUME NEW q \in some, q = o \/ \E c \in S : parent[c] = q
        PROVE  q \in S
    <3>1. CASE q = o
      BY <1>3, <1>5, <2>2, <3>1
    <3>2. CASE \E c \in S : parent[c] = q
      <4>1. PICK c \in Gone(o) : parent[c] = q
        BY <3>2
      <4>2. q \in Gone(o)
        BY <1>1, <4>1, <2>2, ChainFacts
      <4> QED
        BY <4>1, <4>2
    <3> QED
      BY <2>2, <3>1, <3>2
  <2>3. Gone(o) \subseteq S
    <3> HIDE DEF S, some
    <3> QED
      BY <1>1, <2>1, <2>2, ChainFacts
  <2> QED
    BY <1>5, <2>3
<1>6. refs[o] > 1 => Gone(o) = {}
  <2> SUFFICES ASSUME refs[o] > 1 PROVE Gone(o) \subseteq {}
    OBVIOUS
  <2>1. o \notin some
    BY DEF UdevInv, TypeOK
  <2>2. \A q \in some : (q = o \/ \E c \in {} : parent[c] = q) => q \in {}
    BY <2>1
  <2>3. PICK S : S = {}
    OBVIOUS
  <2>4. S \in SUBSET some /\ \A q \in some : (q = o \/ \E c \in S : parent[c] = q) => q \in S
    BY <2>2, <2>3
  <2> HIDE DEF some
  <2>5. Chain(o, some) \subseteq S
    BY <2>4, ChainFacts
  <2> QED
    BY <1>1, <2>3, <2>5
<1> QED
  BY <1>2, <1>3, <1>4, <1>5, <1>6

\* The devices that go are one above the other: no two are on the same level.
LEMMA GoneIsALine ==
  ASSUME UdevInv, NEW o \in Object
  PROVE  \A p, q \in Gone(o) : level[p] = level[q] => p = q
<1> DEFINE some == {p \in Object : refs[p] <= 1}
           Below == {p \in Gone(o) : level[p] <= level[o]}
           Alone == {p \in Gone(o) : \A q \in Gone(o) : level[q] = level[p] => q = p}
<1>1. Gone(o) = Chain(o, some) /\ Gone(o) \subseteq some /\ Gone(o) \subseteq Object
  BY GoneFacts DEF Gone
<1>2. \A p \in Object : level[p] \in Nat
  BY UdevAssumption DEF UdevInv, TypeOK
<1>3. \A c \in Gone(o), q \in Object : parent[c] = q => level[c] = level[q] + 1
  BY <1>1, UdevAssumption DEF UdevInv, ParentsAbove
<1>4. \A c \in Gone(o), q \in some : parent[c] = q => q \in Gone(o)
  <2> HIDE DEF some
  <2> QED
    BY <1>1, ChainFacts
<1>5. o \in some => o \in Gone(o)
  <2> HIDE DEF some
  <2> QED
    BY <1>1, ChainFacts
<1>6. Gone(o) \subseteq Below
  <2>1. ASSUME NEW q \in some, q = o \/ \E c \in Below : parent[c] = q
        PROVE  q \in Below
    <3>1. CASE q = o
      BY <1>2, <1>5, <2>1, <3>1
    <3>2. CASE \E c \in Below : parent[c] = q
      <4>1. PICK c \in Gone(o) : parent[c] = q /\ level[c] <= level[o]
        BY <3>2
      <4>2. level[c] = level[q] + 1 /\ q \in Gone(o) /\ q \in Object
        BY <1>3, <1>4, <2>1, <4>1
      <4>3. level[q] <= level[o]
        BY <1>1, <1>2, <4>1, <4>2
      <4> QED
        BY <4>2, <4>3
    <3> QED
      BY <2>1, <3>1, <3>2
  <2>2. Below \in SUBSET some
    BY <1>1
  <2> HIDE DEF Below, some
  <2> QED
    BY <1>1, <2>1, <2>2, ChainFacts
<1>7. Gone(o) \subseteq Alone
  <2>1. ASSUME NEW q \in some, q = o \/ \E c \in Alone : parent[c] = q
        PROVE  q \in Alone
    <3>1. q \in Gone(o) /\ q \in Object
      BY <1>4, <1>5, <2>1
    <3> SUFFICES ASSUME NEW r \in Gone(o), level[r] = level[q], r # q
                 PROVE  FALSE
      BY <3>1
    <3>2. level[q] <= level[o] /\ level[q] \in Nat
      BY <1>2, <1>6, <3>1
    <3>3. CASE r = o
      <4>1. PICK c \in Alone : parent[c] = q
        BY <2>1, <3>3
      <4>2. level[c] = level[q] + 1 /\ level[c] <= level[o]
        BY <1>3, <1>6, <3>1, <4>1
      <4> QED
        BY <3>2, <3>3, <4>2
    <3>4. CASE r # o
      <4>1. PICK d \in Gone(o) : parent[d] = r
        BY <3>4, GoneFacts
      <4>2. level[d] = level[q] + 1 /\ level[d] <= level[o]
        BY <1>1, <1>3, <1>6, <4>1
      <4>3. q # o
        BY <3>2, <4>2
      <4>4. PICK c \in Alone : parent[c] = q
        BY <2>1, <4>3
      <4>5. level[c] = level[q] + 1
        BY <1>3, <3>1, <4>4
      <4>6. d = c
        BY <4>1, <4>2, <4>4, <4>5
      <4> QED
        BY <4>1, <4>4, <4>6
    <3> QED
      BY <3>3, <3>4
  <2>2. Alone \in SUBSET some
    BY <1>1
  <2> HIDE DEF Alone, some
  <2> QED
    BY <1>1, <2>1, <2>2, ChainFacts
<1> QED
  BY <1>7

-------------------------------------------------------------------------------
(* The steps *)

\* A new object with its wrapper: whoever was here before is gone.
LEMMA NewKeeps ==
  ASSUME UdevInv, NEW o \in Object, NEW w \in Wrapper, NEW k \in Kind, NEW l \in 0..MaxLevel,
         New(o, k, l), Wrap(w, o), UNCHANGED undefined
  PROVE  UdevInv'
<1> USE DEF UdevInv
<1>1. /\ refs[o] = 0 /\ raw[w] = Null
      /\ kind' = [kind EXCEPT ![o] = k] /\ refs' = [refs EXCEPT ![o] = 1]
      /\ level' = [level EXCEPT ![o] = l] /\ parent' = [parent EXCEPT ![o] = Null]
      /\ raw' = [raw EXCEPT ![w] = o] /\ undefined' = undefined
  BY DEF New, Wrap
<1>2. Wrappers(o) = {} /\ Children(o) = {} /\ parent[o] = Null
  BY <1>1, GoneIsNobodys
<1>3. TypeOK'
  BY <1>1 DEF TypeOK
<1>4. parent' = parent
  BY <1>1, <1>2 DEF TypeOK
<1>5. ParentsAbove'
  <2>1. \A c \in Object : parent[c] # o
    BY <1>2 DEF Children
  <2> QED
    BY <1>1, <1>2, <1>4, <2>1 DEF ParentsAbove, TypeOK
<1>6. ASSUME NEW p \in Object
      PROVE  refs'[p] = Cardinality(Wrappers(p)') + Cardinality(Children(p)')
  <2>1. Children(p)' = Children(p)
    BY <1>4 DEF Children
  <2>2. CASE p = o
    <3>1. Wrappers(p)' = {w}
      BY <1>1, <1>2, <2>2, UdevAssumption DEF Wrappers, TypeOK
    <3>2. Cardinality(Wrappers(p)') = 1
      BY <3>1, FS_Singleton
    <3>3. Cardinality(Children(p)') = 0
      BY <1>2, <2>1, <2>2, FS_EmptySet
    <3>4. refs'[p] = 1
      BY <1>1, <2>2 DEF TypeOK
    <3> QED
      BY <3>2, <3>3, <3>4
  <2>3. CASE p # o
    <3>1. Wrappers(p)' = Wrappers(p)
      BY <1>1, <2>3, UdevAssumption DEF Wrappers, TypeOK
    <3>2. refs'[p] = refs[p]
      BY <1>1, <2>3 DEF TypeOK
    <3> QED
      BY <2>1, <3>1, <3>2, CountsSay
  <2> QED
    BY <2>2, <2>3
<1>7. CountsAreExact'
  BY <1>6, SayCounts
<1> QED
  BY <1>1, <1>3, <1>5, <1>7 DEF NeverUndefined

\* udev_device_get_parent() finds the parent.
LEMMA FindParentKeeps ==
  ASSUME UdevInv, NEW o \in Object, NEW p \in Object, FindParent(o, p)
  PROVE  UdevInv'
<1> USE DEF UdevInv
<1>1. /\ refs[o] > 0 /\ level[o] > 0 /\ parent[o] = Null /\ refs[p] = 0
      /\ kind' = [kind EXCEPT ![p] = "device"] /\ refs' = [refs EXCEPT ![p] = 1]
      /\ level' = [level EXCEPT ![p] = level[o] - 1]
      /\ parent' = [parent EXCEPT ![o] = p, ![p] = Null]
      /\ raw' = raw /\ undefined' = undefined
  BY DEF FindParent
<1>2. Wrappers(p) = {} /\ Children(p) = {} /\ parent[p] = Null /\ o # p /\ p # Null
  BY <1>1, GoneIsNobodys, UdevAssumption
<1>3. TypeOK'
  <2>1. level[o] - 1 \in 0..MaxLevel
    BY <1>1, UdevAssumption DEF TypeOK
  <2> QED
    BY <1>1, <2>1 DEF TypeOK, Kind
<1>4. /\ parent'[o] = p
      /\ \A c \in Object : c # o => parent'[c] = parent[c]
  BY <1>1, <1>2 DEF TypeOK
<1>5. ParentsAbove'
  <2>1. \A c \in Object : parent[c] # p
    BY <1>2 DEF Children
  <2>2. /\ \A c \in Object : c # p => refs'[c] = refs[c] /\ level'[c] = level[c]
        /\ level'[p] = level[o] - 1 /\ level[o] \in Nat
    BY <1>1, UdevAssumption DEF TypeOK
  <2>3. ASSUME NEW c \in Object, parent'[c] # Null
        PROVE  refs'[c] > 0 /\ level'[c] = level'[parent'[c]] + 1
    <3>1. CASE c = o
      BY <1>1, <1>2, <1>4, <2>2, <3>1
    <3>2. CASE c # o
      <4>1. parent'[c] = parent[c] /\ c # p /\ parent[c] \in Object /\ parent[c] # p
        BY <1>2, <1>4, <2>1, <2>3, <3>2 DEF TypeOK
      <4> QED
        BY <2>2, <2>3, <4>1 DEF ParentsAbove
    <3> QED
      BY <3>1, <3>2
  <2> QED
    BY <2>3 DEF ParentsAbove
<1>6. ASSUME NEW q \in Object
      PROVE  refs'[q] = Cardinality(Wrappers(q)') + Cardinality(Children(q)')
  <2>1. Wrappers(q)' = Wrappers(q)
    BY <1>1 DEF Wrappers
  <2>2. CASE q = p
    <3>1. Children(q)' = {o}
      BY <1>2, <1>4, <2>2 DEF Children
    <3>2. Cardinality(Children(q)') = 1
      BY <3>1, FS_Singleton
    <3>3. Cardinality(Wrappers(q)') = 0
      BY <1>2, <2>1, <2>2, FS_EmptySet
    <3>4. refs'[q] = 1
      BY <1>1, <2>2 DEF TypeOK
    <3> QED
      BY <3>2, <3>3, <3>4
  <2>3. CASE q # p
    <3>1. Children(q)' = Children(q)
      BY <1>1, <1>4, <2>3, UdevAssumption DEF Children
    <3>2. refs'[q] = refs[q]
      BY <1>1, <2>3 DEF TypeOK
    <3> QED
      BY <2>1, <3>1, <3>2, CountsSay
  <2> QED
    BY <2>2, <2>3
<1>7. CountsAreExact'
  BY <1>6, SayCounts
<1> QED
  BY <1>1, <1>3, <1>5, <1>7 DEF NeverUndefined

\* A further wrapper with a reference of its own
LEMMA RefKeeps ==
  ASSUME UdevInv, NEW o \in Object, refs[o] > 0, NEW w \in Wrapper,
         Ref(o), Wrap(w, o), UNCHANGED undefined
  PROVE  UdevInv'
<1> USE DEF UdevInv
<1>1. /\ raw[w] = Null /\ raw' = [raw EXCEPT ![w] = o]
      /\ refs' = [refs EXCEPT ![o] = @ + 1]
      /\ UNCHANGED <<kind, level, parent, undefined>>
  BY DEF Ref, Wrap
<1>2. TypeOK'
  BY <1>1 DEF TypeOK
<1>3. ParentsAbove'
  BY <1>1 DEF ParentsAbove, TypeOK
<1>4. ASSUME NEW p \in Object
      PROVE  refs'[p] = Cardinality(Wrappers(p)') + Cardinality(Children(p)')
  <2>1. Children(p)' = Children(p)
    BY <1>1 DEF Children
  <2>2. CASE p = o
    <3>1. Wrappers(p)' = Wrappers(p) \cup {w} /\ w \notin Wrappers(p)
      BY <1>1, <2>2, UdevAssumption DEF Wrappers, TypeOK
    <3>2. Cardinality(Wrappers(p)') = Cardinality(Wrappers(p)) + 1
      BY <3>1, Finite, FS_AddElement
    <3>3. refs'[p] = refs[p] + 1
      BY <1>1, <2>2 DEF TypeOK
    <3> QED
      BY <2>1, <3>2, <3>3, CountsSay, Finite
  <2>3. CASE p # o
    <3>1. Wrappers(p)' = Wrappers(p)
      BY <1>1, <2>3, UdevAssumption DEF Wrappers, TypeOK
    <3>2. refs'[p] = refs[p]
      BY <1>1, <2>3 DEF TypeOK
    <3> QED
      BY <2>1, <3>1, <3>2, CountsSay
  <2> QED
    BY <2>2, <2>3
<1>5. CountsAreExact'
  BY <1>4, SayCounts
<1> QED
  BY <1>1, <1>2, <1>3, <1>5 DEF NeverUndefined

LEMMA ReleaseKeeps ==
  ASSUME UdevInv, NEW w \in Wrapper, Release(w)
  PROVE  UdevInv'
<1> USE DEF UdevInv
<1> DEFINE o == raw[w]
<1>1. /\ o \in Object /\ undefined' = undefined
      /\ raw' = [raw EXCEPT ![w] = Null]
      /\ refs' = [p \in Object |->
                     IF p \in Gone(o) THEN 0
                     ELSE IF p = o \/ \E c \in Gone(o) : parent[c] = p THEN refs[p] - 1
                     ELSE refs[p]]
      /\ parent' = [p \in Object |-> IF p \in Gone(o) THEN Null ELSE parent[p]]
      /\ UNCHANGED <<kind, level>>
  BY DEF Release, Unref, TypeOK
<1>2. w \in Wrappers(o)
  BY DEF Wrappers
<1> HIDE DEF o
<1>3. /\ \A p \in Gone(o) : p \in Object /\ refs[p] <= 1
      /\ refs[o] <= 1 => o \in Gone(o)
      /\ refs[o] > 1 => Gone(o) = {}
      /\ \A c \in Gone(o) : parent[c] # Null /\ refs[parent[c]] <= 1 => parent[c] \in Gone(o)
      /\ \A p \in Gone(o) : p # o => \E c \in Gone(o) : parent[c] = p
  BY <1>1, GoneFacts
<1>4. \A p \in Object : refs[p] \in Nat
  BY DEF TypeOK
<1>5. \A p \in Object : /\ Cardinality(Wrappers(p)) \in Nat /\ Cardinality(Children(p)) \in Nat
                        /\ IsFiniteSet(Wrappers(p)) /\ IsFiniteSet(Children(p))
                        /\ refs[p] = Cardinality(Wrappers(p)) + Cardinality(Children(p))
  BY CountsSay, Finite
<1>6. \A p \in Object : /\ Wrappers(p)' = Wrappers(p) \ {w}
                        /\ Children(p)' = Children(p) \ Gone(o)
  BY <1>1, UdevAssumption DEF Wrappers, Children, TypeOK
<1>7. \A p \in Object : p # o => w \notin Wrappers(p)
  BY DEF Wrappers, o
\* the references are dropped one by one, except those of what goes
<1>8. ASSUME NEW p \in Object
      PROVE  refs'[p] = Cardinality(Wrappers(p)') + Cardinality(Children(p)')
  <2>1. CASE p \in Gone(o)
    <3>1. Wrappers(p)' = {} /\ Children(p)' = {}
      <4>1. CASE p = o
        <5>1. Wrappers(p) = {w} /\ Children(p) = {}
          BY <1>2, <1>3, <2>1, <4>1, OneReference
        <5> QED
          BY <1>6, <5>1
      <4>2. CASE p # o
        <5>1. PICK c \in Gone(o) : parent[c] = p
          BY <1>3, <2>1, <4>2
        <5>2. c \in Children(p)
          BY <1>3, <5>1 DEF Children
        <5>3. Children(p) = {c} /\ Wrappers(p) = {}
          BY <1>3, <2>1, <5>2, OneReference
        <5> QED
          BY <1>6, <5>1, <5>3
      <4> QED
        BY <4>1, <4>2
    <3>2. refs'[p] = 0
      BY <1>1, <2>1
    <3> QED
      BY <3>1, <3>2, FS_EmptySet
  <2>2. CASE p \notin Gone(o) /\ p = o
    <3>1. Gone(o) = {}
      BY <1>3, <1>4, <2>2
    <3>2. Children(p)' = Children(p) /\ Wrappers(p)' = Wrappers(p) \ {w}
      BY <1>6, <3>1
    <3>3. Cardinality(Wrappers(p)') = Cardinality(Wrappers(p)) - 1
      BY <1>2, <1>5, <2>2, <3>2, FS_RemoveElement
    <3>4. refs'[p] = refs[p] - 1
      BY <1>1, <2>2
    <3> QED
      BY <1>5, <3>2, <3>3, <3>4
  <2>3. CASE p \notin Gone(o) /\ p # o /\ \E c \in Gone(o) : parent[c] = p
    <3>1. PICK c \in Gone(o) : parent[c] = p
      BY <2>3
    <3>2. c \in Children(p)
      BY <1>3, <3>1 DEF Children
    <3>3. \A d \in Children(p) : d \in Gone(o) => d = c
      <4> SUFFICES ASSUME NEW d \in Gone(o), parent[d] = p PROVE d = c
        BY DEF Children
      <4>1. level[c] = level[p] + 1 /\ level[d] = level[p] + 1
        BY <1>3, <3>1, UdevAssumption DEF ParentsAbove
      <4> QED
        BY <1>1, <4>1, GoneIsALine
    <3>4. Children(p)' = Children(p) \ {c}
      BY <1>6, <3>1, <3>3
    <3>5. Wrappers(p)' = Wrappers(p)
      BY <1>6, <1>7, <2>3
    <3>6. Cardinality(Children(p)') = Cardinality(Children(p)) - 1
      BY <1>5, <3>2, <3>4, FS_RemoveElement
    <3>7. refs'[p] = refs[p] - 1
      BY <1>1, <2>3
    <3> QED
      BY <1>5, <3>5, <3>6, <3>7
  <2>4. CASE p \notin Gone(o) /\ p # o /\ ~\E c \in Gone(o) : parent[c] = p
    <3>1. Children(p)' = Children(p)
      BY <1>6, <2>4 DEF Children
    <3>2. Wrappers(p)' = Wrappers(p)
      BY <1>6, <1>7, <2>4
    <3>3. refs'[p] = refs[p]
      BY <1>1, <2>4
    <3> QED
      BY <1>5, <3>1, <3>2, <3>3
  <2> QED
    BY <2>1, <2>2, <2>3, <2>4
<1>9. CountsAreExact'
  BY <1>8, SayCounts
\* what goes had one reference, and what stays has had more
<1>10. \A p \in Object :
         p \notin Gone(o) => refs'[p] \in Nat /\ (refs'[p] > 0 <=> refs[p] > 0)
  <2> TAKE p \in Object
  <2> HAVE p \notin Gone(o)
  <2>1. CASE p = o \/ \E c \in Gone(o) : parent[c] = p
    <3>1. p # Null
      BY UdevAssumption
    <3>2. refs[p] > 1
      BY <1>3, <1>4, <2>1, <3>1
    <3> QED
      BY <1>1, <1>4, <2>1, <3>2
  <2>2. CASE ~(p = o \/ \E c \in Gone(o) : parent[c] = p)
    BY <1>1, <1>4, <2>2
  <2> QED
    BY <2>1, <2>2
<1>11. TypeOK'
  <2>1. \A p \in Object : refs'[p] \in Nat
    BY <1>1, <1>4, <1>10
  <2>2. DOMAIN refs' = Object /\ refs' = [p \in Object |-> refs'[p]]
    BY <1>1
  <2>3. refs' \in [Object -> Nat]
    BY <2>1, <2>2
  <2> QED
    BY <1>1, <2>3 DEF TypeOK
<1>12. ParentsAbove'
  <2> SUFFICES ASSUME NEW c \in Object, parent'[c] # Null
               PROVE  refs'[c] > 0 /\ level'[c] = level'[parent'[c]] + 1
    BY DEF ParentsAbove
  <2>1. c \notin Gone(o) /\ parent'[c] = parent[c]
    BY <1>1
  <2> QED
    BY <1>1, <1>10, <2>1 DEF ParentsAbove
<1> QED
  BY <1>1, <1>9, <1>11, <1>12 DEF NeverUndefined

\* A wrapper has an object with at least its own reference.
LEMMA WrappedIsThere ==
  ASSUME UdevInv, NEW w \in Wrapper, raw[w] # Null
  PROVE  raw[w] \in Object /\ refs[raw[w]] # 0
<1>1. raw[w] \in Object
  BY DEF UdevInv, TypeOK
<1>2. w \in Wrappers(raw[w])
  BY DEF Wrappers
<1> QED
  BY <1>1, <1>2, GoneIsNobodys

LEMMA UseKeeps ==
  ASSUME UdevInv, NEW wrappers \in SUBSET Wrapper, \A w \in wrappers : raw[w] # Null,
         Use(wrappers)
  PROVE  UdevInv'
<1>1. \A w \in wrappers : refs[raw[w]] # 0
  BY WrappedIsThere
<1>2. undefined' = FALSE /\ UNCHANGED <<kind, refs, level, parent, raw>>
  BY <1>1 DEF Use, object
<1> QED
  BY <1>2 DEF UdevInv, TypeOK, ParentsAbove, CountsAreExact, NeverUndefined

LEMMA InitInv ==
  Init => UdevInv
<1> SUFFICES ASSUME Init PROVE UdevInv
  OBVIOUS
<1>1. TypeOK /\ ParentsAbove /\ NeverUndefined
  <2>1. /\ \A o \in Object : parent[o] = Null
        /\ "udev" \in Kind /\ 0 \in 0..MaxLevel
    BY UdevAssumption DEF Init, Kind
  <2>2. TypeOK
    BY <2>1 DEF Init, TypeOK
  <2> QED
    BY <2>1, <2>2 DEF Init, ParentsAbove, NeverUndefined
<1>2. ASSUME NEW o \in Object
      PROVE  refs[o] = Cardinality(Wrappers(o)) + Cardinality(Children(o))
  <2>1. Wrappers(o) = {} /\ Children(o) = {}
    BY UdevAssumption DEF Init, Wrappers, Children
  <2>2. refs[o] = 0
    BY DEF Init
  <2> QED
    BY <2>1, <2>2, FS_EmptySet
<1>3. CountsAreExact
  BY <1>2 DEF CountsAreExact, Wrappers, Children
<1> QED
  BY <1>1, <1>3 DEF UdevInv

\* parent() and parent_with_subsystem_devtype() give what a device holds.
LEMMA AncestorsAreThere ==
  ASSUME UdevInv, NEW o \in Object
  PROVE  \A p \in Ancestors(o) : p \in Object /\ refs[p] > 0
<1> DEFINE There == {p \in Object : refs[p] > 0}
<1>1. Ancestors(o) = Chain(parent[o], Object)
  BY DEF Ancestors
<1>2. ASSUME NEW c \in Object, parent[c] \in Object PROVE parent[c] \in There
  <2>1. refs[parent[c]] # 0
    BY <1>2, GoneIsNobodys DEF Children
  <2> QED
    BY <1>2, <2>1 DEF UdevInv, TypeOK
<1>3. There \in SUBSET Object
  OBVIOUS
<1>4. \A q \in Object : (q = parent[o] \/ \E c \in There : parent[c] = q) => q \in There
  BY <1>2
<1>5. Chain(parent[o], Object) \subseteq There
  <2> HIDE DEF There
  <2> QED
    BY <1>3, <1>4, ChainFacts
<1> QED
  BY <1>1, <1>5

LEMMA NextKeeps ==
  ASSUME UdevInv, [Next]_vars
  PROVE  UdevInv'
<1>1. ASSUME NEW w \in Wrapper, NEW o \in Object, MakeFactory(w, o)
      PROVE  UdevInv'
  BY <1>1, NewKeeps, UdevAssumption DEF MakeFactory, Kind
<1>2. ASSUME NEW v \in Wrapper, NEW w \in Wrapper, NEW o \in Object,
             Make(v, w, o) \/ ReceiveDevice(v, w, o)
      PROVE  UdevInv'
  BY <1>2, NewKeeps, UdevAssumption DEF Make, ReceiveDevice, Kind
<1>3. ASSUME NEW v \in Wrapper, NEW w \in Wrapper, Parent(v, w)
      PROVE  UdevInv'
  <2> DEFINE o == parent[raw[v]]
  <2>1. raw[v] \in Object /\ o \in Object /\ Ref(o) /\ Wrap(w, o) /\ UNCHANGED undefined
    BY <1>3, WrappedIsThere DEF Parent, Is, UdevInv, TypeOK
  <2>2. refs[o] > 0
    <3>1. refs[o] # 0
      BY <2>1, GoneIsNobodys DEF Children
    <3> QED
      BY <2>1, <3>1 DEF UdevInv, TypeOK
  <2> HIDE DEF o
  <2> QED
    BY <2>1, <2>2, RefKeeps
<1>4. ASSUME NEW v \in Wrapper, NEW w \in Wrapper, ParentWith(v, w)
      PROVE  UdevInv'
  <2>1. raw[v] \in Object
    BY <1>4, WrappedIsThere DEF ParentWith, Is
  <2>2. PICK o \in Ancestors(raw[v]) : Ref(o) /\ Wrap(w, o)
    BY <1>4 DEF ParentWith
  <2>3. o \in Object /\ refs[o] > 0
    BY <2>1, <2>2, AncestorsAreThere
  <2>4. UNCHANGED undefined
    BY <1>4 DEF ParentWith
  <2> QED
    BY <2>2, <2>3, <2>4, RefKeeps
<1>5. ASSUME NEW v \in Wrapper, NEW w \in Wrapper, MatchParent(v, w)
      PROVE  UdevInv'
  <2>1. Use({v, w}) /\ \A u \in {v, w} : raw[u] # Null
    BY <1>5 DEF MatchParent, Is
  <2> QED
    BY <2>1, UseKeeps
<1>6. ASSUME NEW w \in Wrapper, UseFactory(w) \/ UseDevice(w) \/ UseMonitor(w) \/ UseEnumerate(w)
      PROVE  UdevInv'
  <2>1. Use({w}) /\ \A u \in {w} : raw[u] # Null
    BY <1>6 DEF UseFactory, UseDevice, UseMonitor, UseEnumerate, Is
  <2> QED
    BY <2>1, UseKeeps
<1>7. CASE UNCHANGED vars
  BY <1>7 DEF vars, object, UdevInv, TypeOK, ParentsAbove, CountsAreExact, NeverUndefined
<1> QED
  BY <1>1, <1>2, <1>3, <1>4, <1>5, <1>6, <1>7, ReleaseKeeps, FindParentKeeps DEF Next

LEMMA AlwaysUdevInv ==
  Spec => []UdevInv
<1>1. UdevInv /\ [Next]_vars => UdevInv'
  BY NextKeeps
<1> QED
  BY InitInv, <1>1, PTL DEF Spec

-------------------------------------------------------------------------------
(* Theorems *)

\* An object has one reference for every wrapper that leads to it and for every
\* device that holds it as its parent, whatever is asked for and released, and in
\* whatever order (unref_unique_ptr and the calls of udev_..._ref in udev.cc).
THEOREM CountsAreExactHolds ==
  Spec => []CountsAreExact
<1>1. UdevInv => CountsAreExact
  BY DEF UdevInv
<1> QED
  BY AlwaysUdevInv, <1>1, PTL

\* No wrapper ever gives libudev an object that is gone.
THEOREM NeverUndefinedHolds ==
  Spec => []NeverUndefined
<1>1. UdevInv => NeverUndefined
  BY DEF UdevInv
<1> QED
  BY AlwaysUdevInv, <1>1, PTL
===============================================================================
