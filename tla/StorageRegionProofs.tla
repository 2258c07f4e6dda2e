------------------------ MODULE StorageRegionProofs ------------------------
(***************************************************************************)
(* Proofs about StorageRegion for any regions of any size that keep apart: *)
(* a read finds the last value written or a torn one, and a write touches  *)
(* the one byte whose turn it is.  Both rest on where a byte of a region   *)
(* lies in the store.                                                      *)
(***************************************************************************)
EXTENDS StorageRegion, TLAPS

\* A byte of a region is in the store and before the region's end.
LEMMA InStore ==
  ASSUME NEW r \in Regions, NEW o \in Offsets(r)
  PROVE  Address[r] + o \in Addresses /\ Address[r] + o < EndAddress(r)
<1>1. Address[r] \in Nat /\ Size[r] \in Nat /\ Capacity \in Nat
  BY RegionsAssumption
<1>2. Address[r] + Size[r] <= Capacity
  BY RegionsAssumption DEF EndAddress
<1>3. o \in Nat /\ o < Size[r]
  BY <1>1 DEF Offsets
<1> QED BY <1>1, <1>2, <1>3 DEF Addresses, EndAddress

\* Bytes of different regions, or different bytes of one, lie apart.
LEMMA Disjoint ==
  ASSUME NEW r \in Regions, NEW s \in Regions,
         NEW o \in Offsets(r), NEW p \in Offsets(s),
         r # s \/ o # p
  PROVE  Address[r] + o # Address[s] + p
<1>1. /\ Address[r] \in Nat /\ Size[r] \in Nat /\ Address[s] \in Nat
      /\ Size[s] \in Nat
  BY RegionsAssumption
<1>2. /\ o \in Nat /\ o < Size[r] /\ p \in Nat /\ p < Size[s]
  BY <1>1 DEF Offsets
<1>3. r # s => \/ Address[r] + Size[r] <= Address[s]
               \/ Address[s] + Size[s] <= Address[r]
  BY RegionsAssumption DEF EndAddress
<1>4. CASE r = s
  BY <1>1, <1>2, <1>4
<1>5. CASE r # s
  BY <1>1, <1>2, <1>3, <1>5
<1> QED BY <1>4, <1>5

\* What a region holds is a value of its size.
LEMMA HeldIsValue ==
  ASSUME store \in [Addresses -> Byte], NEW r \in Regions
  PROVE  Held(r) \in Values(r)
BY InStore DEF Held, Values

\* A region has a first byte.
LEMMA FirstOffset == ASSUME NEW r \in Regions PROVE 0 \in Offsets(r)
<1>1. Size[r] \in Nat \ {0}
  BY RegionsAssumption
<1> QED BY <1>1 DEF Offsets

\* What a region holds is a matter of the store alone.
LEMMA HeldUnchanged ==
  ASSUME store' = store, NEW r \in Regions
  PROVE  Held(r)' = Held(r)
BY DEF Held

\* The first contents of the store count as written.
LEMMA InitInv == Init => Inv
<1> SUFFICES ASSUME Init PROVE Inv
  OBVIOUS
<1>1. store \in [Addresses -> Byte]
  BY DEF Init
<1>2. \A r \in Regions : value[r] = Held(r) /\ before[r] = Held(r)
  BY DEF Init
<1>3. \A r \in Regions : Held(r) \in Values(r)
  BY <1>1, HeldIsValue
<1>4. \A r \in Regions : value[r] \in Values(r) /\ before[r] \in Values(r)
  BY <1>2, <1>3
<1>5. /\ value \in [Regions -> UNION {Values(r) : r \in Regions}]
      /\ before \in [Regions -> UNION {Values(r) : r \in Regions}]
  BY <1>3 DEF Init
<1>6. TypeOK
  BY <1>1, <1>4, <1>5, RegionsAssumption DEF Init, TypeOK
<1>7. WrittenOrTorn
  BY <1>2, RegionsAssumption DEF Init, WrittenOrTorn
<1> QED BY <1>6, <1>7 DEF Inv

\* A call of write keeps the invariant.
LEMMA WriteKeeps ==
  ASSUME Inv, NEW r \in Regions, Write(r)
  PROVE  Inv'
<1>1. PICK v \in Values(r) : value' = [value EXCEPT ![r] = v]
  BY DEF Write
<1>2. /\ writing = Nobody /\ writing' = r /\ i' = 0 /\ cut' = cut \ {r}
      /\ before' = [before EXCEPT ![r] = Held(r)] /\ store' = store
  BY DEF Write
<1>3. /\ value \in [Regions -> UNION {Values(s) : s \in Regions}]
      /\ before \in [Regions -> UNION {Values(s) : s \in Regions}]
      /\ store \in [Addresses -> Byte] /\ cut \subseteq Regions
      /\ \A s \in Regions : value[s] \in Values(s) /\ before[s] \in Values(s)
  BY DEF Inv, TypeOK
<1>4. Held(r) \in Values(r)
  BY <1>3, HeldIsValue
<1>5. /\ value'[r] = v /\ before'[r] = Held(r)
      /\ \A s \in Regions : s # r => value'[s] = value[s] /\ before'[s] = before[s]
  BY <1>1, <1>2, <1>3
<1>6. /\ value' \in [Regions -> UNION {Values(s) : s \in Regions}]
      /\ before' \in [Regions -> UNION {Values(s) : s \in Regions}]
  BY <1>1, <1>2, <1>3, <1>4
<1>7. \A s \in Regions : value'[s] \in Values(s) /\ before'[s] \in Values(s)
  BY <1>3, <1>4, <1>5
<1>8. TypeOK'
  <2>1. i' \in Nat /\ i' \in Offsets(r)
    BY <1>2, FirstOffset
  <2>2. cut' \subseteq Regions /\ writing' \notin cut'
    BY <1>2, <1>3
  <2> QED BY <1>2, <1>3, <1>6, <1>7, <2>1, <2>2 DEF TypeOK, Values, Offsets
<1>9. ASSUME NEW s \in Regions
      PROVE  /\ writing' = s => Mixed(s, i)'
             /\ s \in cut' => \E k \in Offsets(s) : Mixed(s, k)'
             /\ writing' # s /\ s \notin cut' => Held(s)' = value'[s]
  <2>1. Held(s)' = Held(s)
    BY <1>2, HeldUnchanged
  <2>2. CASE s = r
    <3>1. \A o \in Offsets(s) : ~(o < 0)
      BY RegionsAssumption DEF Offsets
    <3>2. Mixed(s, i)'
      BY <1>2, <1>5, <2>1, <2>2, <3>1 DEF Mixed, Offsets
    <3> QED BY <1>2, <2>2, <3>2
  <2>3. CASE s # r
    <3>1. s # writing
      BY <1>2, RegionsAssumption
    <3>2. \A k : Mixed(s, k)' <=> Mixed(s, k)
      BY <1>5, <2>1, <2>3 DEF Mixed, Offsets
    <3> QED BY <1>2, <1>5, <2>1, <2>3, <3>1, <3>2 DEF Inv, WrittenOrTorn
  <2> QED BY <2>2, <2>3
<1>10. WrittenOrTorn'
  BY <1>9 DEF WrittenOrTorn, Offsets
<1> QED BY <1>8, <1>10 DEF Inv

\* So does each byte it writes.
LEMMA WriteByteKeeps ==
  ASSUME Inv, NEW r \in Regions, WriteByte(r)
  PROVE  Inv'
<1>1. /\ writing = r /\ i' = i + 1 /\ value' = value /\ before' = before
      /\ cut' = cut /\ writing' = IF i + 1 = Size[r] THEN Nobody ELSE r
      /\ store' = [store EXCEPT ![Address[r] + i] = value[r][i]]
  BY DEF WriteByte, Update
<1>2. /\ store \in [Addresses -> Byte] /\ i \in Nat /\ i \in Offsets(r)
      /\ value[r] \in [Offsets(r) -> Byte] /\ r \notin cut /\ r # Nobody
  BY <1>1, RegionsAssumption DEF Inv, TypeOK, Values
<1>3. Size[r] \in Nat /\ i < Size[r]
  BY <1>2, RegionsAssumption DEF Offsets
<1>4. Address[r] + i \in Addresses
  BY <1>2, InStore
<1>5. store' \in [Addresses -> Byte]
  BY <1>1, <1>2, <1>4
<1>6. ASSUME NEW s \in Regions, NEW o \in Offsets(s)
      PROVE  Held(s)'[o] = IF s = r /\ o = i THEN value[r][i] ELSE Held(s)[o]
  <2>1. Address[s] + o \in Addresses
    BY InStore
  <2>2. Held(s)'[o] = store'[Address[s] + o] /\ Held(s)[o] = store[Address[s] + o]
    BY DEF Held, Offsets
  <2>3. CASE s = r /\ o = i
    BY <1>1, <1>2, <2>1, <2>2, <2>3
  <2>4. CASE ~(s = r /\ o = i)
    <3>1. Address[s] + o # Address[r] + i
      BY <1>2, <2>4, Disjoint
    <3> QED BY <1>1, <1>2, <2>1, <2>2, <2>4, <3>1
  <2> QED BY <2>3, <2>4
<1>7. TypeOK'
  <2>1. i' \in Nat
    BY <1>1, <1>2
  <2>2. writing' # Nobody => i' \in Offsets(writing')
    BY <1>1, <1>2, <1>3 DEF Offsets
  <2>3. writing' \in Regions \cup {Nobody} /\ writing' \notin cut'
    BY <1>1, <1>2, RegionsAssumption DEF Inv, TypeOK
  <2> QED BY <1>1, <1>5, <2>1, <2>2, <2>3 DEF Inv, TypeOK, Values, Offsets
<1>8. Mixed(r, i)
  BY <1>1, RegionsAssumption DEF Inv, WrittenOrTorn
<1>9. ASSUME NEW o \in Offsets(r)
      PROVE  Held(r)'[o] = IF o < i + 1 THEN value[r][o] ELSE before[r][o]
  <2>1. o \in Nat
    BY <1>3 DEF Offsets
  <2>2. Held(r)[o] = IF o < i THEN value[r][o] ELSE before[r][o]
    BY <1>8 DEF Mixed
  <2>3. CASE o = i
    BY <1>2, <1>6, <2>3
  <2>4. CASE o # i
    BY <1>2, <1>6, <2>1, <2>2, <2>4
  <2> QED BY <2>3, <2>4
<1>10. ASSUME NEW s \in Regions
       PROVE  /\ writing' = s => Mixed(s, i)'
              /\ s \in cut' => \E k \in Offsets(s) : Mixed(s, k)'
              /\ writing' # s /\ s \notin cut' => Held(s)' = value'[s]
  <2>1. CASE s = r
    <3>1. Mixed(s, i)'
      BY <1>1, <1>9, <2>1 DEF Mixed, Offsets
    <3>2. ASSUME writing' # s PROVE Held(s)' = value'[s]
      <4>1. i + 1 = Size[r]
        BY <1>1, <2>1, <3>2
      <4>2. \A o \in Offsets(r) : o < i + 1
        BY <1>3, <4>1 DEF Offsets
      <4>3. \A o \in Offsets(r) : Held(r)'[o] = value[r][o]
        BY <1>9, <4>2
      <4>4. Held(r)' = [o \in Offsets(r) |-> store'[Address[r] + o]]
        BY DEF Held, Offsets
      <4> QED BY <1>1, <1>2, <2>1, <4>3, <4>4
    <3> QED BY <1>1, <1>2, <2>1, <3>1, <3>2
  <2>2. CASE s # r
    <3>1. \A o \in Offsets(s) : Held(s)'[o] = Held(s)[o]
      BY <1>6, <2>2
    <3>2. /\ Held(s)' = [o \in Offsets(s) |-> store'[Address[s] + o]]
          /\ Held(s) = [o \in Offsets(s) |-> store[Address[s] + o]]
      BY DEF Held, Offsets
    <3>3. Held(s)' = Held(s)
      BY <3>1, <3>2
    <3>4. \A k : Mixed(s, k)' <=> Mixed(s, k)
      BY <1>1, <3>3 DEF Mixed, Offsets
    <3>5. writing # s /\ writing' # s
      BY <1>1, <2>2, RegionsAssumption
    <3> QED BY <1>1, <3>3, <3>4, <3>5 DEF Inv, WrittenOrTorn
  <2> QED BY <2>1, <2>2
<1>11. WrittenOrTorn'
  BY <1>10 DEF WrittenOrTorn, Offsets
<1> QED BY <1>7, <1>11 DEF Inv

\* So does an outage between two bytes.
LEMMA PowerFailsKeeps ==
  ASSUME Inv, PowerFails
  PROVE  Inv'
<1>1. /\ writing # Nobody /\ writing' = Nobody /\ i' = 0
      /\ cut' = cut \cup {writing}
      /\ store' = store /\ value' = value /\ before' = before
  BY DEF PowerFails
<1>2. writing \in Regions /\ i \in Offsets(writing) /\ cut \subseteq Regions
  BY <1>1 DEF Inv, TypeOK
<1>3. TypeOK'
  BY <1>1, <1>2, RegionsAssumption DEF Inv, TypeOK, Values, Offsets
<1>4. ASSUME NEW s \in Regions
      PROVE  /\ writing' = s => Mixed(s, i)'
             /\ s \in cut' => \E k \in Offsets(s) : Mixed(s, k)'
             /\ writing' # s /\ s \notin cut' => Held(s)' = value'[s]
  <2>1. Held(s)' = Held(s)
    BY <1>1, HeldUnchanged
  <2>2. \A k : Mixed(s, k)' <=> Mixed(s, k)
    BY <1>1, <2>1 DEF Mixed, Offsets
  <2>3. writing = s => Mixed(s, i)
    BY DEF Inv, WrittenOrTorn
  <2>4. s \in cut' => \E k \in Offsets(s) : Mixed(s, k)'
    BY <1>1, <1>2, <2>2, <2>3 DEF Inv, WrittenOrTorn
  <2> QED BY <1>1, <2>1, <2>4, RegionsAssumption DEF Inv, WrittenOrTorn
<1>5. WrittenOrTorn'
  BY <1>4 DEF WrittenOrTorn, Offsets
<1> QED BY <1>3, <1>5 DEF Inv

\* So does a step of something else.
LEMMA StutterKeeps == ASSUME Inv, UNCHANGED vars PROVE Inv'
BY DEF Inv, TypeOK, WrittenOrTorn, Mixed, Held, Values, Offsets, vars

(***************************************************************************)
(* For any regions that keep apart, a read finds the last value written to *)
(* the region, or bytes of it followed by what was there before where the  *)
(* power cut the write short.                                              *)
(***************************************************************************)
THEOREM StorageInvariant == Spec => []Inv
<1>1. Inv /\ [Next]_vars => Inv'
  BY WriteKeeps, WriteByteKeeps, PowerFailsKeeps, StutterKeeps DEF Next
<1> QED BY InitInv, <1>1, PTL DEF Spec

(***************************************************************************)
(* For any such regions, a step of a write changes no byte of the store    *)
(* but the one of its region whose turn it is.                             *)
(***************************************************************************)
THEOREM StorageOthersUntouched == Spec => OthersUntouched
<1> DEFINE Only == \A a \in Addresses :
       store'[a] # store[a] => writing # Nobody /\ a = Address[writing] + i
                               /\ a < EndAddress(writing)
<1>1. ASSUME Inv, [Next]_vars PROVE Only
  <2>1. ASSUME NEW r \in Regions, WriteByte(r) PROVE Only
    <3>1. /\ writing = r /\ r # Nobody /\ i \in Offsets(r)
          /\ store \in [Addresses -> Byte]
          /\ store' = [store EXCEPT ![Address[r] + i] = value[r][i]]
      BY <1>1, <2>1, RegionsAssumption DEF WriteByte, Update, Inv, TypeOK
    <3>2. Address[r] + i < EndAddress(r)
      BY <3>1, InStore
    <3>3. \A a \in Addresses : a # Address[r] + i => store'[a] = store[a]
      BY <3>1
    <3> QED BY <3>1, <3>2, <3>3
  <2>2. store' = store \/ \E r \in Regions : WriteByte(r)
    BY <1>1 DEF Next, Write, PowerFails, vars
  <2> QED BY <2>1, <2>2
<1>2. Inv /\ [Next]_vars => [Only]_vars
  BY <1>1
<1> QED BY StorageInvariant, <1>2, PTL DEF Spec, OthersUntouched

=============================================================================
