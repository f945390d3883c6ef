----------------------------- MODULE RingBuffer -----------------------------
(***************************************************************************)
(* RingBuffer<T, Capacity> of src/include/ring_buffer.h, one step for each *)
(* access to memory the other thread can see.  One thread pushes (the CTP  *)
(* SPI thread), one pops (a worker).  A thread may use the other's index   *)
(* long after it read it, and an acquire load may return an old value of   *)
(* it: a load made early is that load.  Between the acquire load and the   *)
(* release store the slot a thread works on is its own, or so the          *)
(* algorithm claims.                                                       *)
(*                                                                         *)
(* Capacity is a power of two (the static_assert), so `& kMask` is the     *)
(* step around the ring.                                                   *)
(***************************************************************************)
EXTENDS Integers, Sequences

CONSTANTS
    Capacity,   \* slots
    Values,     \* elements
    None        \* the value of a slot never constructed, and of `out` at first

ASSUME CapacityAssumption == Capacity \in Nat /\ Capacity >= 2

ASSUME NoneAssumption == None \notin Values

VARIABLES
    write_pos, read_pos,   \* the atomic indices
    buffer,                \* buffer[i]: the object in slot i
    alive,                 \* alive[i]: a pushed object lives in slot i
    producer, item,        \* where tryPush is, and what it pushes
    consumer, out,         \* where tryPop is, and what it moved out
    full,                  \* the last tryPush returned false
    popped                 \* what the last successful tryPop returned

pushVars == <<write_pos, producer, item, full>>

popVars == <<read_pos, consumer, out, popped>>

vars == <<pushVars, popVars, buffer, alive>>

Index == 0 .. Capacity - 1

\* Mutant of After: the mask is forgotten.
AfterUnmasked(i) == i + 1

\* (i + 1) & kMask
After(i) == IF i = Capacity - 1 THEN 0 ELSE i + 1

TypeOK ==
    /\ write_pos \in Index /\ read_pos \in Index
    /\ buffer \in [Index -> Values \cup {None}]
    /\ alive \in [Index -> BOOLEAN]
    /\ producer \in {"idle", "construct", "publish"}
    /\ item \in Values \cup {None}
    /\ consumer \in {"idle", "move", "destroy", "release"}
    /\ out \in Values \cup {None}
    /\ full \in BOOLEAN
    /\ popped \in Values \cup {None}

\* The vector holds Capacity default objects; none of them was pushed.
Init ==
    /\ write_pos = 0 /\ read_pos = 0
    /\ buffer = [i \in Index |-> None]
    /\ alive = [i \in Index |-> FALSE]
    /\ producer = "idle" /\ item = None
    /\ consumer = "idle" /\ out = None
    /\ full = FALSE /\ popped = None

----------------------------------------------------------------------------
(* tryPush.  Its own index needs no step: nobody else writes it.           *)

\* Loads read_pos (acquire) and returns false.
PushFull ==
    /\ producer = "idle"
    /\ After(write_pos) = read_pos
    /\ full' = TRUE
    /\ UNCHANGED <<write_pos, producer, item, popVars, buffer, alive>>

\* Mutant of PushStart: pushes into a full ring.
PushStartUnchecked(v) ==
    /\ producer = "idle"
    /\ producer' = "construct"
    /\ item' = v
    /\ UNCHANGED <<write_pos, full, popVars, buffer, alive>>

\* Loads read_pos (acquire) and finds room.
PushStart(v) ==
    /\ producer = "idle"
    /\ After(write_pos) # read_pos
    /\ producer' = "construct"
    /\ item' = v
    /\ UNCHANGED <<write_pos, full, popVars, buffer, alive>>

\* Placement new.
PushConstruct ==
    /\ producer = "construct"
    /\ buffer' = [buffer EXCEPT ![write_pos] = item]
    /\ alive' = [alive EXCEPT ![write_pos] = TRUE]
    /\ producer' = "publish"
    /\ UNCHANGED <<write_pos, item, full, popVars>>

\* Stores write_pos (release) and returns true.
PushPublish ==
    /\ producer = "publish"
    /\ write_pos' = After(write_pos)
    /\ producer' = "idle"
    /\ full' = FALSE
    /\ UNCHANGED <<item, popVars, buffer, alive>>

----------------------------------------------------------------------------
(* tryPop.  A pop that finds the ring empty returns false and changes      *)
(* nothing.                                                                *)

\* Mutant of HasElement: off by one, the last element stays.
HasElements == read_pos # write_pos /\ After(read_pos) # write_pos

HasElement == read_pos # write_pos

\* Loads write_pos (acquire) and finds an element.
PopStart ==
    /\ consumer = "idle"
    /\ HasElement
    /\ consumer' = "move"
    /\ UNCHANGED <<read_pos, out, popped, pushVars, buffer, alive>>

\* Mutant of PopMove: reads the slot after the oldest.
PopMoveNext ==
    /\ consumer = "move"
    /\ out' = buffer[After(read_pos)]
    /\ consumer' = "destroy"
    /\ UNCHANGED <<read_pos, popped, pushVars, buffer, alive>>

PopMove ==
    /\ consumer = "move"
    /\ out' = buffer[read_pos]
    /\ consumer' = "destroy"
    /\ UNCHANGED <<read_pos, popped, pushVars, buffer, alive>>

\* Mutant of PopDestroy: no destructor call.
PopWithoutDestroy ==
    /\ consumer = "destroy"
    /\ consumer' = "release"
    /\ UNCHANGED <<read_pos, out, popped, pushVars, buffer, alive>>

PopDestroy ==
    /\ consumer = "destroy"
    /\ alive' = [alive EXCEPT ![read_pos] = FALSE]
    /\ consumer' = "release"
    /\ UNCHANGED <<read_pos, out, popped, pushVars, buffer>>

\* Stores read_pos (release) and returns true.
PopRelease ==
    /\ consumer = "release"
    /\ read_pos' = After(read_pos)
    /\ popped' = out
    /\ consumer' = "idle"
    /\ UNCHANGED <<out, pushVars, buffer, alive>>

Push == PushFull \/ (\E v \in Values : PushStart(v)) \/ PushConstruct
            \/ PushPublish

Pop == PopStart \/ PopMove \/ PopDestroy \/ PopRelease

Next == Push \/ Pop

Spec == Init /\ [][Next]_vars

----------------------------------------------------------------------------
Count == IF write_pos >= read_pos THEN write_pos - read_pos
         ELSE write_pos - read_pos + Capacity

\* The slot of the k-th oldest element.
SlotOf(k) == IF read_pos + k - 1 < Capacity THEN read_pos + k - 1
             ELSE read_pos + k - 1 - Capacity

Pending == [k \in 1 .. Count |-> buffer[SlotOf(k)]]

\* The two threads never work on the same slot at the same time, however old
\* the index that let either of them in.
SlotsApart ==
    producer # "idle" /\ consumer # "idle" => write_pos # read_pos

\* Objects are constructed and destroyed in turn: exactly the published
\* elements are alive, but for the one a push has constructed and not yet
\* published and the one a pop has destroyed and not yet released.  So no push
\* constructs over a live element and no pop reads or destroys a dead one.
AliveExactly ==
    \A i \in Index :
        alive[i] <=>
            \/ /\ \E k \in 1 .. Count : i = SlotOf(k)
               /\ ~(consumer = "release" /\ i = read_pos)
            \/ producer = "publish" /\ i = write_pos

\* The ring is a bounded queue of Capacity - 1 elements: nothing lost, nothing
\* duplicated, in order, refused only when full.
Fifo == INSTANCE BoundedFifo WITH Cap <- Capacity - 1, queue <- Pending

ImplementsFifo == Fifo!Spec
=============================================================================
