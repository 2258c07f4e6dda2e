--------------------------- MODULE StorageRegion ---------------------------
(***************************************************************************)
(* EepromReaderWriter of storage_region.hpp: typed regions of one byte     *)
(* store.  write sends a value's bytes to the store one by one; the power  *)
(* may fail between two of them, and the store keeps what it has got.      *)
(***************************************************************************)
EXTENDS Integers

CONSTANTS
  Capacity,   \* Backend::capacity
  Regions,    \* the regions the application declares
  Address,    \* template parameter of each region
  Size,       \* sizeof(T) of each region
  Byte,       \* the values a byte takes
  Nobody      \* not a region

EndAddress(r) == Address[r] + Size[r]

\* The static assertions of a region, and the regions' claims on the store.
ASSUME RegionsAssumption ==
  /\ Capacity \in Nat
  /\ Address \in [Regions -> Nat]
  /\ Size \in [Regions -> Nat \ {0}]
  /\ \A r \in Regions : EndAddress(r) <= Capacity
  /\ \A r, s \in Regions :
       r # s => EndAddress(r) <= Address[s] \/ EndAddress(s) <= Address[r]
  /\ Nobody \notin Regions

Addresses == 0 .. (Capacity - 1)
Offsets(r) == 0 .. (Size[r] - 1)
Values(r) == [Offsets(r) -> Byte]

VARIABLES
  store,    \* the backend's bytes
  writing,  \* the region a write is in progress on, or Nobody
  i,        \* the index of write's loop
  value,    \* write's argument; history: of the last write to each region
  before,   \* history: what each region held when that write began
  cut       \* history: the regions whose last write the power cut short

vars == <<store, writing, i, value, before, cut>>

\* read(): the region's bytes.
Held(r) == [o \in Offsets(r) |-> store[Address[r] + o]]

Init ==
  /\ store \in [Addresses -> Byte]
  /\ writing = Nobody
  /\ i = 0
  /\ value = [r \in Regions |-> Held(r)]
  /\ before = value
  /\ cut = {}

\* write(value) is called.
Write(r) ==
  /\ writing = Nobody
  /\ writing' = r
  /\ i' = 0
  /\ \E v \in Values(r) : value' = [value EXCEPT ![r] = v]
  /\ before' = [before EXCEPT ![r] = Held(r)]
  /\ cut' = cut \ {r}
  /\ UNCHANGED store

\* Backend::update(Address + i, byte)
Update(r, byte) == store' = [store EXCEPT ![Address[r] + i] = byte]

\* As WriteByte, with one round of the loop too many.
WriteByteBeyond(r) ==
  /\ writing = r
  /\ \E byte \in Byte : (i < Size[r] => byte = value[r][i]) /\ Update(r, byte)
  /\ i' = i + 1
  /\ writing' = IF i + 1 > Size[r] THEN Nobody ELSE r
  /\ UNCHANGED <<value, before, cut>>

\* As WriteByte, starting at the second byte.
WriteByteAfter(r) ==
  /\ writing = r
  /\ \/ i = 0 /\ UNCHANGED store
     \/ i > 0 /\ Update(r, value[r][i])
  /\ i' = i + 1
  /\ writing' = IF i + 1 = Size[r] THEN Nobody ELSE r
  /\ UNCHANGED <<value, before, cut>>

\* One round of write's loop; after the last, write returns.
WriteByte(r) ==
  /\ writing = r
  /\ Update(r, value[r][i])
  /\ i' = i + 1
  /\ writing' = IF i + 1 = Size[r] THEN Nobody ELSE r
  /\ UNCHANGED <<value, before, cut>>

\* The power fails while a write is in progress; the program starts afresh.
PowerFails ==
  /\ writing # Nobody
  /\ writing' = Nobody
  /\ i' = 0
  /\ cut' = cut \cup {writing}
  /\ UNCHANGED <<store, value, before>>

Next ==
  \/ \E r \in Regions : Write(r) \/ WriteByte(r)
  \/ PowerFails

Spec == Init /\ [][Next]_vars

-----------------------------------------------------------------------------
TypeOK ==
  /\ store \in [Addresses -> Byte]
  /\ writing \in Regions \cup {Nobody}
  /\ i \in Nat
  /\ writing # Nobody => i \in Offsets(writing)
  /\ value \in [Regions -> UNION {Values(r) : r \in Regions}]
  /\ before \in [Regions -> UNION {Values(r) : r \in Regions}]
  /\ \A r \in Regions : value[r] \in Values(r) /\ before[r] \in Values(r)
  /\ cut \subseteq Regions
  /\ writing \notin cut

\* The first k bytes are those of the write, the others what was there.
Mixed(r, k) ==
  \A o \in Offsets(r) : Held(r)[o] = IF o < k THEN value[r][o] ELSE before[r][o]

(***************************************************************************)
(* What read() finds: the value of the last write to the region, whatever  *)
(* was written to its neighbours since; while that write is in progress,   *)
(* or when the power cut it short, part of it and then the bytes the       *)
(* region held before it, the last byte at least.                         *)
(***************************************************************************)
WrittenOrTorn ==
  \A r \in Regions :
    /\ writing = r => Mixed(r, i)
    /\ r \in cut => \E k \in Offsets(r) : Mixed(r, k)
    /\ writing # r /\ r \notin cut => Held(r) = value[r]

\* What reads find, and that writes stay within the store, at all times.
Inv == TypeOK /\ WrittenOrTorn

(***************************************************************************)
(* A step changes no byte outside the region that is being written, not at *)
(* its ends either, and no byte of it but the one whose turn it is.        *)
(***************************************************************************)
OthersUntouched ==
  [][\A a \in Addresses :
       store'[a] # store[a] => writing # Nobody /\ a = Address[writing] + i
                               /\ a < EndAddress(writing)]_vars

=============================================================================
