---------------------------------- MODULE Udev ---------------------------------
(***************************************************************************)
(* Ownership in the wrappers of libudev (src/src/udev.cc): every wrapper   *)
(* owns one reference of an object of libudev and drops it when the last   *)
(* shared_ptr to the wrapper goes.  A device of libudev holds the object   *)
(* of its parent, and udev_device_get_parent() only lends it.              *)
(*                                                                         *)
(* Wrappers are the shared_ptrs of the program that lead to different      *)
(* wrappers.  A call that fails, for which libudev returns nothing or a    *)
(* negative number, throws and leaves everything as it was.                *)
(***************************************************************************)
EXTENDS Naturals, FiniteSets

CONSTANTS
    Object,     \* where libudev may put its objects
    Wrapper,    \* where the program may put its wrappers
    Null,
    MaxLevel    \* bound on the parents that a device has

VARIABLES
    kind,       \* what an object is
    refs,       \* its reference count, 0 if it is not there
    level,      \* how many parents a device has
    parent,     \* the parent that a device holds
    raw,        \* raw_ of a wrapper
    undefined   \* libudev was called with an object that is gone

object == <<kind, refs, level, parent>>
vars == <<object, raw, undefined>>

ASSUME UdevAssumption ==
    /\ IsFiniteSet(Object) /\ IsFiniteSet(Wrapper)
    /\ Null \notin Object
    /\ MaxLevel \in Nat

Kind == {"udev", "device", "monitor", "enumerate"}

TypeOK ==
    /\ kind \in [Object -> Kind]
    /\ refs \in [Object -> Nat]
    /\ level \in [Object -> 0..MaxLevel]
    /\ parent \in [Object -> Object \cup {Null}]
    /\ raw \in [Wrapper -> Object \cup {Null}]
    /\ undefined \in BOOLEAN

Init ==
    /\ kind = [o \in Object |-> "udev"]
    /\ refs = [o \in Object |-> 0]
    /\ level = [o \in Object |-> 0]
    /\ parent = [o \in Object |-> Null]
    /\ raw = [w \in Wrapper |-> Null]
    /\ undefined = FALSE

Is(w, k) == raw[w] # Null /\ kind[raw[w]] = k

-------------------------------------------------------------------------------
(* libudev *)

\* An object is made with one reference, the caller's.
New(o, k, l) ==
    /\ refs[o] = 0
    /\ kind' = [kind EXCEPT ![o] = k]
    /\ refs' = [refs EXCEPT ![o] = 1]
    /\ level' = [level EXCEPT ![o] = l]
    /\ parent' = [parent EXCEPT ![o] = Null]

\* A device looks for its parent the first time it is asked; it holds it.
FindParent(o, p) ==
    /\ refs[o] > 0 /\ kind[o] = "device" /\ level[o] > 0
    /\ parent[o] = Null
    /\ refs[p] = 0
    /\ kind' = [kind EXCEPT ![p] = "device"]
    /\ refs' = [refs EXCEPT ![p] = 1]
    /\ level' = [level EXCEPT ![p] = level[o] - 1]
    /\ parent' = [parent EXCEPT ![o] = p, ![p] = Null]
    /\ UNCHANGED <<raw, undefined>>

Ref(o) == refs' = [refs EXCEPT ![o] = @ + 1] /\ UNCHANGED <<kind, level, parent>>

\* o, its parent, the parent of that and so on, as long as they are in some set:
\* the smallest part of it that has o and, with a device, its parent
Chain(o, some) ==
    {p \in some : \A S \in SUBSET some :
                     (\A q \in some : (q = o \/ \E c \in S : parent[c] = q) => q \in S)
                        => p \in S}

\* what goes when a reference to o is dropped: o, if that was its last one, and
\* then, dropped by o, its parent
Gone(o) == Chain(o, {p \in Object : refs[p] <= 1})

Unref(o) ==
    /\ refs' = [p \in Object |->
                    IF p \in Gone(o) THEN 0
                    ELSE IF p = o \/ \E c \in Gone(o) : parent[c] = p THEN refs[p] - 1
                    ELSE refs[p]]
    /\ parent' = [p \in Object |-> IF p \in Gone(o) THEN Null ELSE parent[p]]
    /\ UNCHANGED <<kind, level>>

-------------------------------------------------------------------------------
(* The wrappers *)

Wrap(w, o) ==
    /\ raw[w] = Null
    /\ raw' = [raw EXCEPT ![w] = o]

\* Factory::make()
MakeFactory(w, o) == ~undefined /\ New(o, "udev", 0) /\ Wrap(w, o) /\ UNCHANGED undefined

\* make_device_from_...(), make_monitor() and make_enumerate()
Make(factory, w, o) ==
    /\ ~undefined
    /\ Is(factory, "udev")
    /\ \/ \E l \in 0..MaxLevel : New(o, "device", l)
       \/ \E k \in {"monitor", "enumerate"} : New(o, k, 0)
    /\ Wrap(w, o)
    /\ UNCHANGED undefined

ReceiveDevice(monitor, w, o) ==
    /\ ~undefined
    /\ Is(monitor, "monitor")
    /\ \E l \in 0..MaxLevel : New(o, "device", l)
    /\ Wrap(w, o)
    /\ UNCHANGED undefined

\* Mutant of Parent: the reference that libudev lends is wrapped.
ParentLent(device, w) ==
    /\ ~undefined
    /\ Is(device, "device")
    /\ parent[raw[device]] # Null
    /\ Wrap(w, parent[raw[device]])
    /\ UNCHANGED <<object, undefined>>

\* parent(); no memory for the wrapper drops the reference again, and a device
\* without a parent throws std::bad_alloc, too.
Parent(device, w) ==
    /\ ~undefined
    /\ Is(device, "device")
    /\ parent[raw[device]] # Null
    /\ Ref(parent[raw[device]])
    /\ Wrap(w, parent[raw[device]])
    /\ UNCHANGED undefined

Ancestors(o) == Chain(parent[o], Object)

\* parent_with_subsystem_devtype(): the first of all parents that matches
ParentWith(device, w) ==
    /\ ~undefined
    /\ Is(device, "device")
    /\ \E o \in Ancestors(raw[device]) : Ref(o) /\ Wrap(w, o)
    /\ UNCHANGED undefined

\* Mutant of Release: the deleter of the unique_ptr is empty.
ReleaseLeaks(w) ==
    /\ ~undefined
    /\ raw[w] # Null
    /\ raw' = [raw EXCEPT ![w] = Null]
    /\ UNCHANGED <<object, undefined>>

\* The last shared_ptr to a wrapper goes; unref_unique_ptr drops its reference.
Release(w) ==
    /\ ~undefined
    /\ raw[w] # Null
    /\ Unref(raw[w])
    /\ raw' = [raw EXCEPT ![w] = Null]
    /\ UNCHANGED undefined

\* Wrappers call libudev with their objects, which have to be there.
Use(wrappers) ==
    /\ ~undefined
    /\ undefined' = (\E w \in wrappers : refs[raw[w]] = 0)
    /\ UNCHANGED <<object, raw>>

UseFactory(factory) == Is(factory, "udev") /\ Use({factory})
UseDevice(device) == Is(device, "device") /\ Use({device})
UseMonitor(monitor) == Is(monitor, "monitor") /\ Use({monitor})
UseEnumerate(enumerate) == Is(enumerate, "enumerate") /\ Use({enumerate})

\* add_match_parent()
MatchParent(enumerate, device) ==
    /\ Is(enumerate, "enumerate") /\ Is(device, "device")
    /\ Use({enumerate, device})

Next ==
    \/ \E w \in Wrapper, o \in Object :
          \/ MakeFactory(w, o)
          \/ \E v \in Wrapper : Make(v, w, o) \/ ReceiveDevice(v, w, o)
    \/ \E v, w \in Wrapper : Parent(v, w) \/ ParentWith(v, w) \/ MatchParent(v, w)
    \/ \E w \in Wrapper :
          Release(w) \/ UseFactory(w) \/ UseDevice(w) \/ UseMonitor(w) \/ UseEnumerate(w)
    \/ \E o, p \in Object : ~undefined /\ FindParent(o, p)

Spec == Init /\ [][Next]_vars

-------------------------------------------------------------------------------
(* Properties *)

\* No wrapper calls libudev with an object that is gone: a parent outlives the
\* device it was asked of, in whatever order the wrappers are released.
NeverUndefined == ~undefined

\* The references of an object are those of its wrappers and of the devices
\* whose parent it is: nothing is dropped twice, and nothing leaks.
CountsAreExact ==
    \A o \in Object :
        refs[o] = Cardinality({w \in Wrapper : raw[w] = o})
                  + Cardinality({c \in Object : parent[c] = o})
===============================================================================
