------------------------------ MODULE SnmpProofs ------------------------------
(***************************************************************************)
(* Theorems of Snmp: the lengths of an answer are true, a SET is read back *)
(* and a walk is in order, for any requests, bindings and values, until a  *)
(* message is longer than its buffer.  The invariant holds of the model    *)
(* beyond that, where the model says nothing of the program: the theorems  *)
(* leave it out.                                                           *)
(***************************************************************************)
EXTENDS Snmp, SequenceTheorems, WellFoundedInduction, TLAPS

\* What the field of an entry has room for, and what an entry of the table begins with.
Bytes == {s \in Seq(0..255) : Len(s) < MAX_STRING}
IsInteger(dataType) == dataType \in {"integer", "ticks"}
IsEntry(e) ==
  /\ e.oidlen \in 1..10 /\ e.dataType \in {"octets", "oid", "integer", "ticks"}
  /\ e.u \in Bytes /\ e.get \in Bytes /\ e.dataLen \in Nat
  /\ e.dataType \in {"integer", "ticks"} => Len(e.u) = 4 /\ Len(e.get) \in {0, 4} /\ e.dataLen <= 4
  /\ e.dataType = "oid" => e.dataLen <= Len(e.u) /\ e.get = <<>>

LEMMA BytesAre == \A s : s \in Bytes <=> s \in Seq(0..255) /\ Len(s) \in Nat /\ Len(s) <= 63
PROOF
<1>1. \A n \in Nat : n < MAX_STRING <=> n <= 63
  BY DEF MAX_STRING
<1>2. \A s \in Seq(0..255) : Len(s) \in Nat
  OBVIOUS
<1>3. QED
  BY <1>1, <1>2 DEF Bytes

LEMMA EntryIs ==
  ASSUME NEW oidlen \in 1..10, NEW dataType \in {"octets", "oid", "integer", "ticks"},
         NEW u \in Bytes, NEW get \in Bytes, NEW dataLen \in Nat,
         dataType \in {"integer", "ticks"} => Len(u) = 4 /\ Len(get) \in {0, 4} /\ dataLen <= 4,
         dataType = "oid" => dataLen <= Len(u) /\ get = <<>>
  PROVE  IsEntry(Entry(oidlen, dataType, dataLen, u, get))
PROOF
  BY DEF IsEntry, Entry

LEMMA OldIs == ASSUME NEW n \in 0..63 PROVE Old(n) \in Bytes /\ Len(Old(n)) = n
PROOF
  BY DEF Old, Bytes, MAX_STRING

LEMMA TableIs == Ids = 1..14 /\ \A id \in Ids : IsEntry(Table[id])
PROOF
<1>1. Ids = 1..14
  BY DEF Ids, maxData, Table
<1>2. /\ Zero \in Bytes /\ Len(Zero) = 4 /\ Uptime \in Bytes /\ Len(Uptime) = 4 /\ LedStatus \in Bytes
  BY DEF Zero, Uptime, LedStatus, Bytes, MAX_STRING
<1>3. /\ <<>> \in Bytes /\ Len(<<>>) = 0
      /\ <<255, 255, 255, 241>> \in Bytes /\ Len(<<255, 255, 255, 241>>) = 4
  BY DEF Bytes, MAX_STRING
<1> DEFINE e == <<>>  i == <<255, 255, 255, 241>>
<1>4. e \in Bytes /\ Len(e) = 0 /\ i \in Bytes /\ Len(i) = 4 /\ e = <<>>
  BY <1>3
<1>5. Table[1] = Entry(8, "octets", 30, Old(21), e) /\ Table[2] = Entry(8, "oid", 8, Old(8), e)
      /\ Table[3] = Entry(8, "ticks", 0, Zero, Uptime) /\ Table[4] = Entry(8, "octets", 30, Old(44), e)
      /\ Table[5] = Entry(8, "octets", 30, Old(22), e) /\ Table[6] = Entry(8, "octets", 30, Old(6), e)
      /\ Table[7] = Entry(8, "integer", 4, i, e)
  BY DEF Table
<1>6. Table[8] = Entry(8, "octets", 40, e, LedStatus) /\ Table[9] = Entry(8, "integer", 4, Zero, e)
      /\ Table[10] = Entry(8, "integer", 4, Zero, e) /\ Table[11] = Entry(10, "octets", 30, Old(30), e)
      /\ Table[12] = Entry(10, "octets", 30, Old(31), e) /\ Table[13] = Entry(10, "octets", 35, Old(23), e)
      /\ Table[14] = Entry(10, "oid", 10, Old(10), e)
  BY DEF Table
<1> HIDE DEF e, i
<1>7. \A n \in {21, 44, 22, 6, 30, 31, 23, 8, 10} : Old(n) \in Bytes /\ Len(Old(n)) = n
  <2>1. TAKE n \in {21, 44, 22, 6, 30, 31, 23, 8, 10}
  <2>2. n \in 0..63
    BY <2>1
  <2>3. QED
    BY <2>2, OldIs
<1>8. /\ IsEntry(Table[1]) /\ IsEntry(Table[4]) /\ IsEntry(Table[5]) /\ IsEntry(Table[6])
      /\ IsEntry(Table[11]) /\ IsEntry(Table[12]) /\ IsEntry(Table[13])
  <2>1. ASSUME NEW l \in {8, 10}, NEW n \in {21, 44, 22, 6, 30, 31, 23}, NEW d \in {30, 35}
        PROVE  IsEntry(Entry(l, "octets", d, Old(n), e))
    BY SMTT(30), <1>4, <1>7, EntryIs
  <2>2. QED
    BY <1>5, <1>6, <2>1
<1>11. IsEntry(Table[2]) /\ IsEntry(Table[14])
  <2>1. ASSUME NEW n \in {8, 10} PROVE IsEntry(Entry(n, "oid", n, Old(n), e))
    <3>0. n \in 0..63 /\ n \in 1..10
      OBVIOUS
    <3> DEFINE u == Old(n)
    <3>1. u \in Bytes /\ Len(u) = n
      BY <3>0, OldIs
    <3>2. u \in Bytes /\ n <= Len(u) /\ n \in 1..10 /\ n \in Nat
      BY <3>0, <3>1
    <3> HIDE DEF u
    <3>3. IsEntry(Entry(n, "oid", n, u, e))
      BY <1>4, <3>2, EntryIs
    <3>4. QED
      BY <3>3 DEF u
  <2>2. QED
    BY <1>5, <1>6, <2>1
<1>9. IsEntry(Table[3]) /\ IsEntry(Table[7]) /\ IsEntry(Table[8]) /\ IsEntry(Table[9]) /\ IsEntry(Table[10])
  BY <1>2, <1>4, <1>5, <1>6, EntryIs
<1>10. QED
  BY <1>1, <1>8, <1>9, <1>11

-----------------------------------------------------------------------------
(* The helpers of the table *)

LEMMA HeaderIs ==
  \A form \in Forms : Header(form) \in 2..4 /\ Capacity(form) \in {128, 256, 65536}
PROOF
  BY DEF Forms, Header, Capacity

\* A length that its form has room for is read as it was meant.
LEMMA DecodedIs ==
  ASSUME NEW form \in Forms, NEW size \in Nat, size < Capacity(form)
  PROVE  insertRespLen(form, size) \in Nat /\ Decoded(form, insertRespLen(form, size)) = size
PROOF
<1>1. CASE form = "short"
  <2>1. size < 128
    BY <1>1 DEF Capacity
  <2>2. QED
    BY <1>1, <2>1 DEF insertRespLen, Decoded
<1>2. CASE form = "long1"
  <2>1. size < 256
    BY <1>2 DEF Capacity
  <2>2. insertRespLen(form, size) = size % 256
    BY <1>2 DEF insertRespLen
  <2>3. Decoded(form, insertRespLen(form, size)) = insertRespLen(form, size)
    BY <1>2 DEF Decoded
  <2>4. size % 256 = size
    BY <2>1
  <2>5. QED
    BY <2>2, <2>3, <2>4
<1>3. CASE form = "long2"
  <2>1. size < 65536
    BY <1>3 DEF Capacity
  <2>2. QED
    BY <1>3, <2>1 DEF insertRespLen, Decoded
<1>4. QED
  BY <1>1, <1>2, <1>3 DEF Forms

LEMMA StrlenIs ==
  ASSUME NEW u \in Seq(0..255)
  PROVE  /\ strlen(u) \in 0..Len(u)
         /\ \A i \in 1..strlen(u) : u[i] # 0
         /\ strlen(u) # Len(u) => u[strlen(u) + 1] = 0
PROOF
<1>1. CASE Zeros(u) = {}
  BY <1>1 DEF strlen, Zeros
<1>2. CASE Zeros(u) # {}
  <2>1. Zeros(u) \subseteq Nat
    BY DEF Zeros
  <2>2. PICK n \in Zeros(u) : \A k \in Zeros(u) : ~ (<<k, n>> \in OpToRel(<, Nat))
    BY <1>2, <2>1, NatLessThanWellFounded, WFMin
  <2>3. \A k \in Zeros(u) : ~ (k < n)
    BY <2>1, <2>2 DEF OpToRel
  <2>4. \A k \in Zeros(u) : n <= k
    BY <2>1, <2>3
  <2> DEFINE first == CHOOSE j \in Zeros(u) : \A k \in Zeros(u) : j <= k
  <2>5. first \in Zeros(u) /\ \A k \in Zeros(u) : first <= k
    BY <2>4
  <2>6. strlen(u) = first - 1
    BY <1>2 DEF strlen
  <2> HIDE DEF first
  <2>7. first \in 1..Len(u) /\ u[first] = 0
    BY <2>5 DEF Zeros
  <2>8. \A i \in 1..(first - 1) : u[i] # 0
    BY <2>5, <2>7 DEF Zeros
  <2>9. QED
    BY <2>6, <2>7, <2>8
<1>3. QED
  BY <1>1, <1>2

LEMMA PrefixIs ==
  ASSUME NEW S, NEW s \in Seq(S), NEW n \in 0..Len(s)
  PROVE  /\ Prefix(s, n) \in Seq(S) /\ Len(Prefix(s, n)) = n
         /\ \A i \in 1..n : Prefix(s, n)[i] = s[i]
PROOF
  BY DEF Prefix

LEMMA FromIs ==
  ASSUME NEW S, NEW s \in Seq(S), NEW n \in 1..(Len(s) + 1)
  PROVE  /\ From(s, n) \in Seq(S) /\ Len(From(s, n)) = Len(s) - n + 1
         /\ \A i \in 1..(Len(s) - n + 1) : From(s, n)[i] = s[n + i - 1]
PROOF
  BY DEF From

\* A value copied over a text is found at its beginning.
LEMMA OverwriteIs ==
  ASSUME NEW u \in Bytes, NEW val \in Bytes
  PROVE  /\ Overwrite(u, val) \in Bytes
         /\ Len(val) <= Len(Overwrite(u, val))
         /\ Prefix(Overwrite(u, val), Len(val)) = val
PROOF
<1> DEFINE rest == From(u, Len(val) + 1)
<1>0. u \in Seq(0..255) /\ Len(u) \in Nat /\ Len(u) <= 63 /\ val \in Seq(0..255) /\ Len(val) \in Nat /\ Len(val) <= 63
  BY BytesAre
<1>1. rest \in Seq(0..255) /\ Len(rest) \in Nat /\ Len(val) + Len(rest) <= 63
  <2>1. CASE Len(val) <= Len(u)
    <3>1. Len(val) + 1 \in 1..(Len(u) + 1)
      BY <1>0, <2>1
    <3>2. rest \in Seq(0..255) /\ Len(rest) = Len(u) - (Len(val) + 1) + 1
      BY <1>0, <3>1, FromIs
    <3>3. QED
      BY <1>0, <2>1, <3>2
  <2>2. CASE Len(val) > Len(u)
    <3>1. rest = <<>>
      BY <1>0, <2>2 DEF From
    <3>2. rest \in Seq(0..255) /\ Len(rest) = 0
      BY <3>1, EmptySeq
    <3>3. QED
      BY <1>0, <3>2
  <2>3. QED
    BY <1>0, <2>1, <2>2
<1> HIDE DEF rest
<1>2. Overwrite(u, val) = val \o rest
  BY DEF Overwrite, rest
<1>3. val \in Seq(0..255) /\ Len(val) \in Nat /\ Len(rest) \in Nat
  BY <1>0, <1>1
<1>4. Overwrite(u, val) \in Seq(0..255) /\ Len(Overwrite(u, val)) = Len(val) + Len(rest)
  BY <1>1, <1>2, <1>3
<1>5. Prefix(Overwrite(u, val), Len(val)) = val
  BY <1>1, <1>2, <1>3 DEF Prefix
<1>6. Len(Overwrite(u, val)) \in Nat /\ Len(Overwrite(u, val)) <= 63 /\ Len(val) <= Len(Overwrite(u, val))
  BY <1>1, <1>3, <1>4
<1>7. QED
  BY <1>4, <1>5, <1>6, BytesAre

\* An integer keeps its bytes at the end of the four.
LEMMA GetValueIs ==
  ASSUME NEW val \in Bytes, Len(val) <= 4
  PROVE  /\ getValue(val) \in Bytes /\ Len(getValue(val)) = 4
         /\ val # <<>> => From(getValue(val), 5 - Len(val)) = val
PROOF
<1>1. val \in Seq(0..255) /\ Len(val) \in Nat /\ Len(val) <= 4
  <2>1. val \in Seq(0..255) /\ Len(val) \in Nat /\ Len(val) <= 63
    BY BytesAre
  <2>2. QED
    BY <2>1
<1>2. \A i \in 1..4 : getValue(val)[i] \in 0..255
  <2>1. TAKE i \in 1..4
  <2>2. i > 4 - Len(val) => i - 4 + Len(val) \in 1..Len(val)
    BY <1>1
  <2>3. i > 4 - Len(val) => val[i - 4 + Len(val)] \in 0..255
    <3>1. \A j \in 1..Len(val) : val[j] \in 0..255
      BY <1>1, ElementOfSeq
    <3>2. QED
      BY <2>2, <3>1
  <2>4. QED
    BY <2>3 DEF getValue
<1>3. getValue(val) \in Seq(0..255) /\ Len(getValue(val)) = 4
  BY <1>2 DEF getValue
<1>4. ASSUME val # <<>> PROVE From(getValue(val), 5 - Len(val)) = val
  <2>1. Len(val) \in 1..4
    <3>1. Len(val) # 0
      BY <1>1, <1>4, EmptySeq
    <3>2. \A n \in Nat : n <= 4 /\ n # 0 => n \in 1..4
      OBVIOUS
    <3>3. QED
      BY <1>1, <3>1, <3>2
  <2>2. /\ From(getValue(val), 5 - Len(val)) \in Seq(0..255)
        /\ Len(From(getValue(val), 5 - Len(val))) = Len(val)
        /\ \A i \in 1..Len(val) : From(getValue(val), 5 - Len(val))[i] = getValue(val)[4 - Len(val) + i]
    <3> DEFINE v == getValue(val)  n == 5 - Len(val)
    <3>1. v \in Seq(0..255) /\ Len(v) = 4
      BY <1>3
    <3> HIDE DEF v
    <3>2. n \in 1..(Len(v) + 1) /\ Len(v) - n + 1 = Len(val)
      BY <2>1, <3>1
    <3>3. /\ From(v, n) \in Seq(0..255) /\ Len(From(v, n)) = Len(v) - n + 1
          /\ \A i \in 1..(Len(v) - n + 1) : From(v, n)[i] = v[n + i - 1]
      BY <3>1, <3>2, FromIs
    <3>4. \A i \in 1..Len(val) : n + i - 1 = 4 - Len(val) + i
      BY <2>1
    <3>5. QED
      BY <3>2, <3>3, <3>4 DEF v
  <2>3. \A i \in 1..Len(val) : getValue(val)[4 - Len(val) + i] = val[i]
    BY <2>1 DEF getValue
  <2>4. QED
    BY <1>1, <2>2, <2>3
<1>5. Len(getValue(val)) \in Nat /\ Len(getValue(val)) <= 63
  BY <1>3
<1>6. QED
  BY <1>3, <1>4, <1>5, BytesAre

-----------------------------------------------------------------------------
(* What an entry holds, and what is read of it *)

\* An entry of the table as snmpData holds it, and one that holds the value val.
IsStored(id, e) ==
  /\ e.u \in Bytes /\ e.dataLen \in Nat
  /\ IsInteger(Table[id].dataType) => Len(e.u) = 4 /\ e.dataLen <= 4
  /\ Table[id].dataType = "oid" => e.dataLen <= Len(e.u)
Holds(id, e, val) ==
  /\ Table[id].dataType = "octets" => Len(val) <= Len(e.u) /\ Prefix(e.u, Len(val)) = val
  /\ Table[id].dataType = "oid" => e.dataLen = Len(val) /\ Prefix(e.u, Len(val)) = val
  /\ IsInteger(Table[id].dataType) => e.dataLen = Len(val) /\ e.u = getValue(val)

LEMMA TypesOfEntries ==
  ASSUME NEW id \in Ids
  PROVE  /\ Table[id].dataType \in {"octets", "oid", "integer", "ticks"}
         /\ IsText(id) <=> ~ IsInteger(Table[id].dataType)
         /\ IsText(id) <=> Table[id].dataType = "octets" \/ Table[id].dataType = "oid"
         /\ IsInteger(Table[id].dataType) => Table[id].dataType # "octets" /\ Table[id].dataType # "oid"
         /\ Table[id].oidlen \in 1..10
PROOF
  BY TableIs DEF IsEntry, IsText, IsInteger

LEMMA SetEntryIs ==
  ASSUME NEW id \in Ids, NEW e, NEW val \in Bytes, IsStored(id, e),
         IsInteger(Table[id].dataType) => Len(val) <= 4
  PROVE  /\ IsStored(id, setEntry(id, e, val))
         /\ Holds(id, setEntry(id, e, val), val)
PROOF
<1> DEFINE f == setEntry(id, e, val)
<1>1. Len(val) \in Nat /\ e.u \in Bytes
  BY BytesAre DEF IsStored
<1>2. f.dataLen = Len(val)
  BY DEF setEntry
<1>3. CASE IsText(id)
  <2>1. f.u = Overwrite(e.u, val)
    BY <1>3 DEF setEntry
  <2>2. f.u \in Bytes /\ Len(val) <= Len(f.u) /\ Prefix(f.u, Len(val)) = val
    BY <1>1, <2>1, OverwriteIs
  <2>3. QED
    BY <1>1, <1>2, <1>3, <2>2, TypesOfEntries DEF IsStored, Holds
<1>4. CASE ~ IsText(id)
  <2>1. f.u = getValue(val) /\ Len(val) <= 4
    BY <1>4, TypesOfEntries DEF setEntry
  <2>2. f.u \in Bytes /\ Len(f.u) = 4
    BY <2>1, GetValueIs
  <2>3. QED
    BY <1>1, <1>2, <1>4, <2>1, <2>2, TypesOfEntries DEF IsStored, Holds
<1>5. QED
  BY <1>3, <1>4

LEMMA RefreshedIs ==
  ASSUME NEW id \in Ids, NEW e, IsStored(id, e)
  PROVE  /\ IsStored(id, Refreshed(id, e))
         /\ Refreshed(id, e) \in [u : Bytes, dataLen : Nat]
         /\ Table[id].dataType = "octets" =>
              Refreshed(id, e).dataLen = strlen(Refreshed(id, e).u) /\ Refreshed(id, e).dataLen <= Len(Refreshed(id, e).u)
         /\ Table[id].get = <<>> =>
              Refreshed(id, e).u = e.u /\ (Table[id].dataType # "octets" => Refreshed(id, e).dataLen = e.dataLen)
PROOF
<1> DEFINE f == Refreshed(id, e)  v == IF Table[id].get = <<>> THEN e.u ELSE Table[id].get
<1>1. Table[id].get \in Bytes /\ e.u \in Bytes /\ e.dataLen \in Nat
  BY TableIs DEF IsEntry, IsStored
<1>2. f.u = v /\ v \in Bytes /\ Len(v) \in Nat
  BY <1>1, BytesAre DEF Refreshed
<1>3. f.dataLen = CASE Table[id].dataType = "octets" -> strlen(v)
                    [] Table[id].dataType # "octets" /\ Table[id].get # <<>> -> Len(v)
                    [] OTHER -> e.dataLen
  BY DEF Refreshed
<1>4. f = [u |-> f.u, dataLen |-> f.dataLen]
  BY DEF Refreshed
<1>5. Table[id].get = <<>> => v = e.u
  OBVIOUS
<1>6. Table[id].get # <<>> => v = Table[id].get
  OBVIOUS
<1> HIDE DEF v, f
<1>7. CASE Table[id].dataType = "octets"
  <2>1. f.dataLen = strlen(v)
    BY <1>3, <1>7
  <2>2. strlen(v) \in Nat /\ strlen(v) <= Len(v)
    BY <1>2, BytesAre, StrlenIs
  <2>3. IsStored(id, f) /\ f \in [u : Bytes, dataLen : Nat]
    BY <1>2, <1>4, <1>7, <2>1, <2>2, TypesOfEntries DEF IsStored
  <2>4. QED
    BY <1>2, <1>5, <1>7, <2>1, <2>2, <2>3 DEF f
<1>8. CASE Table[id].dataType # "octets" /\ Table[id].get # <<>>
  <2>1. f.dataLen = Len(v) /\ v = Table[id].get
    BY <1>3, <1>6, <1>8
  <2>2. IsInteger(Table[id].dataType) /\ Len(v) = 4
    <3>1. Table[id].dataType # "oid" /\ Table[id].dataType \in {"octets", "oid", "integer", "ticks"}
      BY <1>8, TableIs DEF IsEntry
    <3>2. IsInteger(Table[id].dataType) /\ Len(Table[id].get) \in {0, 4}
      BY <1>8, <3>1, TableIs DEF IsEntry, IsInteger
    <3>3. Len(Table[id].get) # 0
      BY <1>1, <1>8, BytesAre, EmptySeq
    <3>4. QED
      BY <2>1, <3>2, <3>3
  <2>3. IsStored(id, f) /\ f \in [u : Bytes, dataLen : Nat]
    BY <1>2, <1>4, <2>1, <2>2, TypesOfEntries DEF IsStored
  <2>4. QED
    BY <1>8, <2>3 DEF f
<1>9. CASE Table[id].dataType # "octets" /\ Table[id].get = <<>>
  <2>1. f.dataLen = e.dataLen /\ f.u = e.u
    BY <1>2, <1>3, <1>5, <1>9
  <2>2. IsStored(id, f) /\ f \in [u : Bytes, dataLen : Nat]
    BY <1>1, <1>4, <2>1 DEF IsStored
  <2>3. QED
    BY <1>9, <2>1, <2>2 DEF f
<1>10. QED
  BY <1>7, <1>8, <1>9

LEMMA WireIs ==
  ASSUME NEW id \in Ids, NEW e, IsStored(id, e), Table[id].dataType = "octets" => e.dataLen <= Len(e.u)
  PROVE  Wire(id, e) \in Bytes
PROOF
<1>1. e.u \in Seq(0..255) /\ Len(e.u) \in Nat /\ Len(e.u) <= 63 /\ e.dataLen \in Nat
  BY BytesAre DEF IsStored
<1>2. CASE IsText(id)
  <2>1. e.dataLen \in 0..Len(e.u)
    BY <1>1, <1>2, TypesOfEntries DEF IsStored
  <2>2. Prefix(e.u, e.dataLen) \in Seq(0..255) /\ Len(Prefix(e.u, e.dataLen)) = e.dataLen
    BY <1>1, <2>1, PrefixIs
  <2>3. Prefix(e.u, e.dataLen) \in Bytes
    BY <1>1, <2>1, <2>2, BytesAre
  <2>4. QED
    BY <1>2, <2>3 DEF Wire
<1>3. CASE ~ IsText(id) /\ e.dataLen = 0
  BY <1>3 DEF Wire, IsStored
<1>4. CASE ~ IsText(id) /\ e.dataLen # 0
  <2>1. Len(e.u) = 4 /\ e.dataLen <= 4
    BY <1>4, TypesOfEntries DEF IsStored
  <2>2. 5 - e.dataLen \in 1..(Len(e.u) + 1)
    BY <1>1, <1>4, <2>1
  <2>3. /\ From(e.u, 5 - e.dataLen) \in Seq(0..255)
        /\ Len(From(e.u, 5 - e.dataLen)) = Len(e.u) - (5 - e.dataLen) + 1
    BY SMTT(30), <1>1, <2>2, FromIs
  <2>4. Len(From(e.u, 5 - e.dataLen)) = e.dataLen
    BY <1>1, <2>1, <2>3
  <2>5. From(e.u, 5 - e.dataLen) \in Bytes
    BY <1>1, <2>1, <2>3, <2>4, BytesAre
  <2>6. QED
    BY <1>4, <2>5 DEF Wire
<1>5. QED
  BY <1>2, <1>3, <1>4

\* A value that is held is read back.
LEMMA ReadIs ==
  ASSUME NEW id \in Ids, NEW e, NEW val \in Bytes,
         IsStored(id, e), Holds(id, e, val), val # <<>>, Table[id].get = <<>>
  PROVE  LET read == Wire(id, Refreshed(id, e)) IN
         IF Table[id].dataType = "octets" THEN IsPrefix(Prefix(val, strlen(val)), read) ELSE read = val
PROOF
<1> DEFINE f == Refreshed(id, e)  read == Wire(id, f)
<1>1. val \in Seq(0..255) /\ Len(val) \in Nat /\ Len(val) # 0
  BY BytesAre, EmptySeq
<1>2. /\ f.u = e.u /\ IsStored(id, f)
      /\ Table[id].dataType = "octets" => f.dataLen = strlen(f.u)
      /\ Table[id].dataType # "octets" => f.dataLen = e.dataLen
  BY RefreshedIs
<1>3. e.u \in Seq(0..255) /\ Len(e.u) \in Nat
  BY BytesAre DEF IsStored
<1> HIDE DEF f
<1>4. CASE Table[id].dataType = "octets"
  <2> DEFINE n == strlen(val)  k == strlen(e.u)
  <2>1. read = Prefix(e.u, k)
    BY <1>2, <1>4, TypesOfEntries DEF Wire
  <2>2. n \in 0..Len(val) /\ \A i \in 1..n : val[i] # 0
    BY <1>1, StrlenIs
  <2>3. k \in 0..Len(e.u) /\ (k # Len(e.u) => e.u[k + 1] = 0)
    BY <1>3, StrlenIs
  <2> HIDE DEF n, k
  <2>4. Len(val) <= Len(e.u) /\ Prefix(e.u, Len(val)) = val
    BY <1>4 DEF Holds
  <2>5. Len(val) \in 0..Len(e.u)
    BY <1>1, <1>3, <2>4
  <2>6. \A i \in 1..Len(val) : e.u[i] = val[i]
    BY <1>3, <2>4, <2>5, PrefixIs
  <2>7. n <= k
    <3>1. SUFFICES ASSUME k < n PROVE FALSE
      BY <2>2, <2>3
    <3>2. k + 1 \in 1..n /\ k + 1 \in 1..Len(val) /\ k # Len(e.u)
      BY <1>1, <1>3, <2>2, <2>3, <2>4, <3>1
    <3>3. e.u[k + 1] = val[k + 1] /\ val[k + 1] # 0 /\ e.u[k + 1] = 0
      BY <2>2, <2>3, <2>6, <3>2
    <3>4. QED
      BY <3>3
  <2>8. /\ Prefix(val, n) \in Seq(0..255) /\ Len(Prefix(val, n)) = n
        /\ \A i \in 1..n : Prefix(val, n)[i] = val[i]
    BY <1>1, <2>2, PrefixIs
  <2>9. read \in Seq(0..255) /\ Len(read) = k /\ \A i \in 1..k : read[i] = e.u[i]
    <3>1. /\ Prefix(e.u, k) \in Seq(0..255) /\ Len(Prefix(e.u, k)) = k
          /\ \A i \in 1..k : Prefix(e.u, k)[i] = e.u[i]
      BY SMTT(30), <1>3, <2>3, PrefixIs
    <3>2. QED
      BY <2>1, <3>1
  <2>10. IsPrefix(Prefix(val, n), read)
    <3> DEFINE p == Prefix(val, n)  r == read
    <3>1. p \in Seq(0..255) /\ Len(p) = n /\ r \in Seq(0..255) /\ Len(r) = k /\ n \in Nat /\ k \in Nat
      BY <1>1, <1>3, <2>2, <2>3, <2>8, <2>9
    <3>2. \A i \in 1..n : p[i] = r[i]
      BY <1>1, <2>2, <2>3, <2>6, <2>7, <2>8, <2>9
    <3> HIDE DEF p, r
    <3>3. SubSeq(p, 1, Len(p)) = SubSeq(r, 1, Len(p))
      BY <2>7, <3>1, <3>2
    <3>4. IsPrefix(p, r)
      BY <2>7, <3>1, <3>3 DEF IsPrefix
    <3>5. QED
      BY <3>4 DEF p, r
  <2>11. QED
    BY <1>4, <2>10 DEF f, n
<1>5. CASE Table[id].dataType = "oid"
  <2>1. read = Prefix(e.u, Len(val))
    BY <1>2, <1>5, TypesOfEntries DEF Wire, Holds
  <2>2. QED
    BY <1>5, <2>1 DEF Holds, f
<1>6. CASE IsInteger(Table[id].dataType)
  <2>1. f.dataLen = Len(val) /\ f.u = getValue(val) /\ ~ IsText(id)
    BY <1>2, <1>6, TypesOfEntries DEF Holds
  <2>2. Len(val) <= 4
    BY <1>2, <1>6, <2>1 DEF IsStored
  <2>3. read = From(getValue(val), 5 - Len(val))
    BY <1>1, <2>1 DEF Wire
  <2>4. read = val
    BY <2>2, <2>3, GetValueIs
  <2>5. QED
    BY <1>6, <2>4, TypesOfEntries DEF f
<1>7. QED
  BY <1>4, <1>5, <1>6, TypesOfEntries DEF IsInteger

-----------------------------------------------------------------------------
(* The table *)

\* Every entry holds what its type allows and, unless a getfunction writes over it, what was
\* set last.
TableInv ==
  /\ snmpData \in [Ids -> [u : Bytes, dataLen : Nat]]
  /\ lastSet \in [Ids -> {<<>>} \cup {<<val>> : val \in Bytes}]
  /\ \A id \in Ids :
       /\ IsStored(id, snmpData[id])
       /\ lastSet[id] # <<>> /\ Table[id].get = <<>> => Holds(id, snmpData[id], lastSet[id][1])

LEMMA SetsAreHeld == TableInv => EntriesHoldSets
PROOF
<1>1. SUFFICES ASSUME TableInv, NEW id \in Ids,
                      lastSet[id] # <<>>, lastSet[id][1] # <<>>, Table[id].get = <<>>
               PROVE  LET val == lastSet[id][1]
                          read == Wire(id, Refreshed(id, snmpData[id])) IN
                      IF Table[id].dataType = "octets" THEN IsPrefix(Prefix(val, strlen(val)), read) ELSE read = val
  BY DEF EntriesHoldSets
<1>2. PICK val \in Bytes : lastSet[id] = <<val>>
  BY <1>1 DEF TableInv
<1>3. lastSet[id][1] = val
  BY <1>2
<1>4. IsStored(id, snmpData[id]) /\ Holds(id, snmpData[id], val)
  BY <1>1, <1>3 DEF TableInv
<1>5. QED
  BY <1>1, <1>3, <1>4, ReadIs

-----------------------------------------------------------------------------
(* Messages and the answer that is put together *)

\* What the agent may be asked: a numbered request is one of the walk and asks for the name
\* after the one that has the number before.
Numbered(m) ==
  /\ m.type = "next" /\ Len(m.bindings) = 1
  /\ m.id \in 1..(maxData + 1) /\ m.bindings[1].oid = m.id - 1
  /\ m.id # 1 => m.bindings[1].oidlen = Table[m.id - 1].oidlen
Asked ==
  {m \in Messages : /\ \A i \in DOMAIN m.bindings : IsBinding(m.bindings[i])
                    /\ m.id # 0 => Numbered(m)}

Added == [oid : Nat, oidlen : Nat, dataType : DataTypes, val : Seq(0..255), form : Forms,
          at : Nat, written : Nat]
Chained(start, bs) == \A i \in DOMAIN bs : bs[i].at = IF i = 1 THEN start ELSE End(bs[i - 1])
EndOf(start, bs) == IF bs = <<>> THEN start ELSE End(bs[Len(bs)])
Measured(bs) == \A i \in DOMAIN bs : Decoded(bs[i].form, bs[i].written) = BindingContent(bs[i])
\* What the walk is answered: the entry of that number, or the end after the last one.
Answers(id, bs, status) ==
  IF status = "noError" THEN id \in Ids /\ bs[1].oid = id ELSE id = maxData + 1

\* The bindings added so far follow one another up to response_msg.index, and the sizes
\* that are handed up are those of the bytes in between.
Assembled(p, status) ==
  /\ p \in [busy : {TRUE}, request : Asked, bindings : Seq(Added), size : Nat, index : Nat]
  /\ Len(p.bindings) <= Len(p.request.bindings)
  /\ Chained(ListStart(p.request), p.bindings)
  /\ Measured(p.bindings)
  /\ p.index = EndOf(ListStart(p.request), p.bindings)
  /\ p.index = ListStart(p.request) + p.size
  /\ p.request.id # 0 =>
       IF p.bindings = <<>> THEN status = "noError" ELSE Answers(p.request.id, p.bindings, status)
ParseInv == parse = Idle \/ Assembled(parse, errorStatus)

AnswerInv ==
  answer.kind = "response" =>
    /\ answer.request \in Asked
    /\ answer.request.id # 0 => Answers(answer.request.id, answer.bindings, answer.errorStatus)

\* A walk is given the entries in the order of the table, none twice and none left out,
\* and is told the end after the last one only.
WalkIsInOrder ==
  /\ walk.seen = [i \in 1..Len(walk.seen) |-> i]
  /\ walk.ended => Len(walk.seen) = maxData
WalkInv ==
  /\ walk \in [seen : Seq(Ids), ended : BOOLEAN]
  /\ Len(walk.seen) <= maxData
  /\ WalkIsInOrder

SnmpInv ==
  /\ rx \in Seq(Asked)
  /\ WalkInv
  /\ ParseInv
  /\ AnswerInv
  /\ AnswerNests

LEMMA WalkIsAsked ==
  ASSUME WalkInv
  PROVE  WalkRequest \in Asked
PROOF
<1> DEFINE b == [oid |-> WalkFrom.oid, oidlen |-> WalkFrom.oidlen,
                 dataType |-> "null", val |-> <<>>, form |-> "short"]
<1>0. walk.seen \in Seq(Ids) /\ Len(walk.seen) \in Nat /\ Len(walk.seen) <= maxData /\ maxData = 14
  BY DEF WalkInv, maxData, Table
<1>1. /\ WalkFrom.oid \in Nat /\ WalkFrom.oidlen \in 1..10
      /\ WalkFrom.oid = Len(walk.seen)
      /\ Len(walk.seen) # 0 => WalkFrom.oidlen = Table[Len(walk.seen)].oidlen
  <2>1. CASE walk.seen = <<>>
    BY <2>1 DEF WalkFrom, Root
  <2>2. CASE walk.seen # <<>>
    <3>1. Len(walk.seen) \in 1..Len(walk.seen)
      BY <1>0, <2>2, EmptySeq
    <3>2. Last(walk.seen) = Len(walk.seen)
      BY <3>1 DEF Last, WalkInv, WalkIsInOrder
    <3>3. Len(walk.seen) \in Ids
      <4>1. \A n \in Nat : n <= 14 /\ n \in 1..n => n \in 1..14
        OBVIOUS
      <4>2. QED
        BY <1>0, <3>1, <4>1 DEF Ids
    <3>4. QED
      BY <1>0, <2>2, <3>2, <3>3, TypesOfEntries DEF WalkFrom
  <2>3. QED
    BY <2>1, <2>2
<1>2. b.val = <<>> /\ <<>> \in Seq(0..255) /\ Len(<<>>) = 0
  BY EmptySeq
<1>3. b \in Bindings
  BY <1>1, <1>2 DEF Bindings, DataTypes, Forms
<1>4. IsBinding(b)
  <2>1. BindingContent(b) = 4 + b.oidlen /\ b.oidlen \in 1..10
    BY <1>1, <1>2 DEF BindingContent
  <2>2. Capacity(b.form) = 128
    BY DEF Capacity
  <2>3. b.dataType \notin {"octets", "oid"} /\ Len(b.val) < 5
    BY <1>2
  <2>4. QED
    BY <2>1, <2>2, <2>3 DEF IsBinding
<1>5. Len(walk.seen) + 1 \in Nat
  BY <1>0
<1>6. WalkRequest.bindings = <<b>>
  BY DEF WalkRequest
<1> HIDE DEF b
<1>7. <<b>> \in Seq(Bindings) /\ Len(<<b>>) = 1 /\ DOMAIN <<b>> = {1} /\ <<b>>[1] = b
  BY <1>3
<1>8. WalkRequest \in Messages
  <2>1. WalkRequest = [type |-> "next", id |-> Len(walk.seen) + 1, version |-> "v1", community |-> "public",
                       msg |-> "short", pdu |-> "short", list |-> "short", bindings |-> WalkRequest.bindings]
    BY DEF WalkRequest
  <2> DEFINE bs == WalkRequest.bindings  id == Len(walk.seen) + 1
  <2>2. bs \in Seq(Bindings) /\ id \in Nat
    BY <1>5, <1>6, <1>7
  <2> HIDE DEF bs, id
  <2>3. [type |-> "next", id |-> id, version |-> "v1", community |-> "public",
         msg |-> "short", pdu |-> "short", list |-> "short", bindings |-> bs] \in Messages
    BY <2>2 DEF Messages, Forms
  <2>4. QED
    BY <2>1, <2>3 DEF bs, id
<1>9. WalkRequest.type = "next" /\ WalkRequest.id = Len(walk.seen) + 1
  BY DEF WalkRequest
<1>10. b.oid = WalkFrom.oid /\ b.oidlen = WalkFrom.oidlen
  BY DEF b
<1>11. Numbered(WalkRequest)
  <2> DEFINE n == Len(walk.seen)
  <2>1. n + 1 \in 1..(maxData + 1) /\ (n + 1) - 1 = n /\ (n + 1 # 1 => n # 0)
    BY SMTT(30), <1>0
  <2>2. QED
    BY <1>1, <1>6, <1>7, <1>9, <1>10, <2>1 DEF Numbered
<1>12. QED
  BY <1>4, <1>6, <1>7, <1>8, <1>11 DEF Asked

\* A binding of less than its form has room for is added where the answer ends.
LEMMA AddKeeps ==
  ASSUME ParseInv, MoreBindings,
         NEW oid \in Nat, NEW oidlen \in Nat, NEW dataType \in DataTypes, NEW val \in Seq(0..255),
         4 + oidlen + Len(val) < Capacity(Current.form),
         Add(oid, oidlen, dataType, val),
         parse.request.id # 0 =>
           IF errorStatus' = "noError" THEN parse.request.id \in Ids /\ oid = parse.request.id
                                       ELSE parse.request.id = maxData + 1
  PROVE  ParseInv'
PROOF
<1> DEFINE m == parse.request  bs == parse.bindings  start == ListStart(m)  form == Current.form
           size == 4 + oidlen + Len(val)
           b == [oid |-> oid, oidlen |-> oidlen, dataType |-> dataType, val |-> val,
                 form |-> form, at |-> parse.index, written |-> insertRespLen(form, size)]
           bs1 == Append(bs, b)
<1>1. parse # Idle
  BY DEF MoreBindings, Parsing, Idle
<1>2. /\ parse \in [busy : {TRUE}, request : Asked, bindings : Seq(Added), size : Nat, index : Nat]
      /\ Len(bs) <= Len(m.bindings) /\ Chained(start, bs) /\ Measured(bs)
      /\ parse.index = EndOf(start, bs) /\ parse.index = start + parse.size
  BY <1>1 DEF ParseInv, Assembled
<1>3. m \in Asked /\ bs \in Seq(Added) /\ Len(bs) \in Nat /\ parse.size \in Nat /\ parse.index \in Nat
  BY <1>2
<1>4. m.bindings \in Seq(Bindings) /\ Len(m.bindings) \in Nat /\ Len(bs) < Len(m.bindings)
  BY <1>3 DEF Asked, Messages, MoreBindings
<1>5. form \in Forms
  <2>1. Len(bs) + 1 \in 1..Len(m.bindings)
    BY <1>3, <1>4
  <2>2. Current \in Bindings
    BY <1>4, <2>1, ElementOfSeq DEF Current
  <2>3. QED
    BY <2>2 DEF Bindings
<1>6. size \in Nat /\ Header(form) \in 2..4 /\ 2 + oidlen + 2 + Len(val) = size
  BY <1>5, HeaderIs
<1> HIDE DEF size, form
<1>7. /\ parse' = [busy |-> parse.busy, request |-> m, bindings |-> bs1,
                   size |-> parse.size + size + Header(form), index |-> parse.index + Header(form) + size]
  <2> DEFINE h == Header(Current.form)  l == Len(val)
  <2>1. /\ l \in Nat /\ h \in Nat /\ h = Header(form)
        /\ 2 + oidlen + 2 + l = size /\ parse.index + h + 2 + oidlen + 2 + l = parse.index + h + size
    BY SMTT(30), <1>3, <1>6 DEF size, form
  <2>2. parse' = [parse EXCEPT !.bindings = bs1, !.index = parse.index + h + 2 + oidlen + 2 + l,
                               !.size = parse.size + (2 + oidlen + 2 + l) + h]
    BY <2>1 DEF Add, size, form
  <2> HIDE DEF h, l
  <2>3. QED
    BY <1>2, <2>1, <2>2 DEF h, l
<1>8. insertRespLen(form, size) \in Nat /\ Decoded(form, insertRespLen(form, size)) = size
  <2>1. size < Capacity(form)
    BY DEF size, form
  <2>2. QED
    BY <1>5, <1>6, <2>1, DecodedIs
<1>9. b \in Added /\ b.oid = oid /\ b.at = parse.index
      /\ BindingContent(b) = size /\ End(b) = parse.index + Header(form) + size
      /\ Decoded(b.form, b.written) = BindingContent(b)
  BY <1>3, <1>5, <1>6, <1>8 DEF Added, BindingContent, BindingSize, End, size
<1> HIDE DEF b
<1>10. /\ bs1 \in Seq(Added) /\ Len(bs1) = Len(bs) + 1 /\ bs1 # <<>>
       /\ DOMAIN bs1 = 1..(Len(bs) + 1) /\ bs1[Len(bs) + 1] = b
       /\ \A i \in 1..Len(bs) : bs1[i] = bs[i]
  <2>1. /\ bs1 \in Seq(Added) /\ Len(bs1) = Len(bs) + 1 /\ bs1[Len(bs) + 1] = b
        /\ \A i \in 1..Len(bs) : bs1[i] = bs[i]
    BY <1>3, <1>9, AppendProperties
  <2>2. Len(bs1) # 0 /\ DOMAIN bs1 = 1..(Len(bs) + 1)
    BY <1>3, <2>1
  <2>3. QED
    BY <2>1, <2>2
<1>11. parse'.request = m /\ parse'.bindings = bs1 /\ parse'.index = parse.index + Header(form) + size
       /\ parse'.size = parse.size + size + Header(form) /\ parse'.busy = TRUE
  BY <1>2, <1>7
<1>12. parse' \in [busy : {TRUE}, request : Asked, bindings : Seq(Added), size : Nat, index : Nat]
  <2>1. parse.busy = TRUE
    BY <1>2
  <2>2. parse.size + size + Header(form) \in Nat /\ parse.index + Header(form) + size \in Nat
    <3> DEFINE h == Header(form)  s == parse.size  i == parse.index
    <3>1. h \in Nat /\ s \in Nat /\ i \in Nat /\ size \in Nat
      BY <1>3, <1>6
    <3> HIDE DEF h, s, i
    <3>2. s + size + h \in Nat /\ i + h + size \in Nat
      BY <3>1
    <3>3. QED
      BY <3>2 DEF h, s, i
  <2>3. QED
    BY <1>3, <1>7, <1>10, <2>1, <2>2
<1> HIDE DEF bs1
<1>13. Chained(start, bs1)
  <2>1. SUFFICES ASSUME NEW i \in 1..(Len(bs) + 1) PROVE bs1[i].at = IF i = 1 THEN start ELSE End(bs1[i - 1])
    BY <1>10 DEF Chained
  <2>2. CASE i \in 1..Len(bs)
    <3>1. i # 1 => i - 1 \in 1..Len(bs)
      BY <1>3, <2>2
    <3>2. bs[i].at = IF i = 1 THEN start ELSE End(bs[i - 1])
      BY <1>2, <1>3, <2>2 DEF Chained
    <3>3. QED
      BY <1>10, <2>2, <3>1, <3>2
  <2>3. CASE i = Len(bs) + 1
    <3>1. bs1[i].at = EndOf(start, bs)
      BY <1>2, <1>9, <1>10, <2>3
    <3>2. CASE bs = <<>>
      <4>1. Len(bs) = 0
        BY <3>2
      <4>2. QED
        BY <2>3, <3>1, <3>2, <4>1 DEF EndOf
    <3>3. CASE bs # <<>>
      <4>1. Len(bs) \in 1..Len(bs)
        BY <1>3, <3>3, EmptySeq
      <4>2. i # 1 /\ i - 1 = Len(bs)
        BY <2>3, <4>1
      <4>3. bs1[Len(bs)] = bs[Len(bs)]
        BY <1>10, <4>1
      <4>4. QED
        BY <3>1, <3>3, <4>2, <4>3 DEF EndOf
    <3>4. QED
      BY <3>2, <3>3
  <2>4. QED
    BY <1>3, <2>2, <2>3
<1>14. Measured(bs1)
  <2>1. SUFFICES ASSUME NEW i \in 1..(Len(bs) + 1)
                 PROVE  Decoded(bs1[i].form, bs1[i].written) = BindingContent(bs1[i])
    BY <1>10 DEF Measured
  <2>2. CASE i \in 1..Len(bs)
    <3>1. i \in DOMAIN bs /\ bs1[i] = bs[i]
      BY <1>3, <1>10, <2>2
    <3>2. QED
      BY <1>2, <3>1 DEF Measured
  <2>3. CASE i = Len(bs) + 1
    BY <1>9, <1>10, <2>3
  <2>4. QED
    BY <1>3, <2>2, <2>3
<1>15. parse'.index = EndOf(start, bs1) /\ parse'.index = start + parse'.size
  <2>1. start \in Nat
    <3>1. m.msg \in Forms /\ m.pdu \in Forms /\ m.list \in Forms
      BY <1>3 DEF Asked, Messages
    <3>2. Header(m.msg) \in Nat /\ Header(m.pdu) \in Nat /\ Header(m.list) \in Nat
      BY <3>1, HeaderIs
    <3>3. QED
      BY SMTT(30), <3>2 DEF ListStart, VersionSize, CommunitySize, CommunityLen, RequestSize
  <2>2. EndOf(start, bs1) = End(b)
    BY <1>10 DEF EndOf
  <2> HIDE DEF start
  <2>3. QED
    BY SMTT(30), <1>2, <1>3, <1>6, <1>9, <1>11, <2>1, <2>2
<1>16. m.id # 0 => Answers(m.id, bs1, errorStatus')
  <2>1. ASSUME m.id # 0 PROVE bs1[1].oid = oid
    <3>1. Len(m.bindings) = 1
      BY <1>3, <2>1 DEF Asked, Numbered
    <3>2. Len(bs) + 1 = 1
      BY <1>3, <1>4, <3>1
    <3>3. QED
      BY <1>9, <1>10, <3>2
  <2>2. QED
    BY <2>1 DEF Answers
<1>17. Len(bs1) <= Len(m.bindings)
  BY <1>3, <1>4, <1>10
<1>18. Assembled(parse', errorStatus')
  BY <1>10, <1>11, <1>12, <1>13, <1>14, <1>15, <1>16, <1>17 DEF Assembled
<1>19. QED
  BY <1>18 DEF ParseInv

-----------------------------------------------------------------------------
(* The steps *)

LEMMA CurrentIs ==
  ASSUME ParseInv, MoreBindings
  PROVE  /\ Assembled(parse, errorStatus) /\ parse.request \in Asked
         /\ Current \in Bindings /\ IsBinding(Current) /\ CurrentId \in Ids \cup {OID_NOT_FOUND}
         /\ parse.request.id # 0 =>
              /\ parse.request.type = "next" /\ errorStatus = "noError"
              /\ IF CurrentId = OID_NOT_FOUND THEN parse.request.id = maxData + 1
                                              ELSE parse.request.id = CurrentId
PROOF
<1>1. Assembled(parse, errorStatus)
  BY DEF ParseInv, MoreBindings, Parsing, Idle
<1>2. parse.request \in Asked /\ Len(parse.bindings) \in Nat
  BY <1>1 DEF Assembled
<1>3. parse.request.bindings \in Seq(Bindings) /\ Len(parse.bindings) < Len(parse.request.bindings)
  BY <1>2 DEF Asked, Messages, MoreBindings
<1>4. Len(parse.bindings) + 1 \in 1..Len(parse.request.bindings)
  BY <1>2, <1>3
<1>5. Current \in Bindings
  BY <1>3, <1>4, ElementOfSeq DEF Current
<1>6. IsBinding(Current)
  <2>1. Len(parse.bindings) + 1 \in DOMAIN parse.request.bindings
    BY <1>3, <1>4
  <2>2. QED
    BY <1>2, <2>1 DEF Asked, Current
<1>7. CurrentId \in Ids \cup {OID_NOT_FOUND}
  <2>1. findEntry(Current) \in Ids \cup {OID_NOT_FOUND}
    BY DEF findEntry
  <2>2. NextId(findEntry(Current)) \in Ids \cup {OID_NOT_FOUND}
    BY <2>1 DEF NextId, OID_NOT_FOUND, Ids, maxData, Table
  <2>3. QED
    BY <2>1, <2>2 DEF CurrentId, Target
<1>8. ASSUME parse.request.id # 0
      PROVE  /\ parse.request.type = "next" /\ errorStatus = "noError"
             /\ IF CurrentId = OID_NOT_FOUND THEN parse.request.id = maxData + 1
                                             ELSE parse.request.id = CurrentId
  <2> DEFINE m == parse.request  n == m.id
  <2>1. /\ m.type = "next" /\ Len(m.bindings) = 1
        /\ n \in 1..(maxData + 1) /\ m.bindings[1].oid = n - 1
        /\ n # 1 => m.bindings[1].oidlen = Table[n - 1].oidlen
    BY <1>2, <1>8 DEF Asked, Numbered
  <2>2. Len(parse.bindings) = 0
    BY <1>2, <1>3, <2>1
  <2>3. parse.bindings = <<>>
    BY <1>1, <2>2, EmptySeq DEF Assembled
  <2>4. errorStatus = "noError"
    BY <1>1, <1>8, <2>3 DEF Assembled
  <2>5. Current = m.bindings[1]
    BY <2>2 DEF Current
  <2> HIDE DEF n, m
  <2>6. maxData = 14 /\ Ids = 1..14
    BY DEF maxData, Ids, Table
  <2>7. findEntry(Current) = n - 1
    BY <2>1, <2>5, <2>6 DEF findEntry, OID_NOT_FOUND
  <2>8. CurrentId = NextId(n - 1)
    BY <2>1, <2>7 DEF CurrentId, Target, m
  <2>9. IF CurrentId = OID_NOT_FOUND THEN n = maxData + 1 ELSE n = CurrentId
    BY <2>1, <2>6, <2>8 DEF NextId, OID_NOT_FOUND
  <2>10. QED
    BY <2>1, <2>4, <2>9 DEF n, m
<1>9. QED
  BY <1>1, <1>2, <1>5, <1>6, <1>7, <1>8

\* Echo answers with the binding as it came.
LEMMA EchoKeeps ==
  ASSUME ParseInv, MoreBindings, Echo,
         parse.request.id # 0 => errorStatus' # "noError" /\ parse.request.id = maxData + 1
  PROVE  ParseInv'
PROOF
<1>1. Current \in Bindings /\ IsBinding(Current)
  BY CurrentIs
<1>2. /\ Current.oid \in Nat /\ Current.oidlen \in Nat /\ Current.dataType \in DataTypes
      /\ Current.val \in Seq(0..255)
  BY <1>1 DEF Bindings
<1>3. 4 + Current.oidlen + Len(Current.val) < Capacity(Current.form)
  <2> DEFINE l == Len(Current.val)  n == Current.oidlen
  <2>1. l \in Nat /\ n \in Nat /\ 2 + n + 2 + l < Capacity(Current.form)
    BY <1>1, <1>2 DEF IsBinding, BindingContent
  <2>2. 2 + n + 2 + l = 4 + n + l
    BY <2>1
  <2>3. QED
    BY <2>1, <2>2
<1>4. Add(Current.oid, Current.oidlen, Current.dataType, Current.val)
  BY DEF Echo
<1>5. QED
  BY <1>2, <1>3, <1>4, AddKeeps

LEMMA MissingKeeps == ASSUME TableInv, SnmpInv, VarBindMissing PROVE (TableInv /\ SnmpInv)'
PROOF
<1>1. ParseInv'
  <2>1. ParseInv /\ MoreBindings /\ Echo /\ errorStatus' = "noSuchName" /\ CurrentId = OID_NOT_FOUND
    BY DEF SnmpInv, VarBindMissing, Fail
  <2>2. QED
    BY <2>1, CurrentIs, EchoKeeps
<1>2. TableInv'
  BY DEF VarBindMissing, TableInv
<1>3. QED
  BY <1>1, <1>2 DEF VarBindMissing, SnmpInv, AnswerInv, AnswerNests, WalkInv, WalkIsInOrder

LEMMA BadValueKeeps == ASSUME TableInv, SnmpInv, VarBindBadValue PROVE (TableInv /\ SnmpInv)'
PROOF
<1>1. ParseInv'
  <2>1. ParseInv /\ MoreBindings /\ Echo /\ parse.request.type = "set"
    BY DEF SnmpInv, VarBindBadValue
  <2>2. QED
    BY <2>1, CurrentIs, EchoKeeps
<1>2. TableInv'
  BY DEF VarBindBadValue, TableInv
<1>3. QED
  BY <1>1, <1>2 DEF VarBindBadValue, SnmpInv, AnswerInv, AnswerNests, WalkInv, WalkIsInOrder

LEMMA SetKeeps == ASSUME TableInv, SnmpInv, VarBindSet PROVE (TableInv /\ SnmpInv)'
PROOF
<1>1. ParseInv'
  <2>1. ParseInv /\ MoreBindings /\ Echo /\ parse.request.type = "set"
    BY DEF SnmpInv, VarBindSet
  <2>2. QED
    BY <2>1, CurrentIs, EchoKeeps
<1> DEFINE id == CurrentId  val == Current.val
<1>2. id \in Ids /\ Current \in Bindings /\ IsBinding(Current) /\ Table[id].dataType = Current.dataType
  BY CurrentIs DEF SnmpInv, VarBindSet
<1>3. val \in Bytes /\ (IsInteger(Table[id].dataType) => Len(val) <= 4)
  <2>1. val \in Seq(0..255) /\ Len(val) \in Nat
    BY <1>2 DEF Bindings
  <2>2. CASE Current.dataType \in {"octets", "oid"}
    <3>1. Len(val) < MAX_STRING
      BY <1>2, <2>2 DEF IsBinding
    <3>2. val \in Bytes
      BY <2>1, <3>1 DEF Bytes
    <3>3. QED
      BY <1>2, <2>2, <3>2 DEF IsInteger
  <2>3. CASE Current.dataType \notin {"octets", "oid"}
    <3>1. Len(val) < 5
      BY <1>2, <2>3 DEF IsBinding
    <3>2. Len(val) <= 4 /\ Len(val) <= 63
      BY <2>1, <3>1
    <3>3. QED
      BY <2>1, <3>2, BytesAre
  <2>4. QED
    BY <2>2, <2>3
<1> DEFINE f == setEntry(id, snmpData[id], val)
<1>4. /\ snmpData' = [snmpData EXCEPT ![id] = f] /\ lastSet' = [lastSet EXCEPT ![id] = <<val>>]
  BY DEF VarBindSet
<1>5. IsStored(id, f) /\ Holds(id, f, val)
  BY <1>2, <1>3, SetEntryIs DEF TableInv
<1>6. f \in [u : Bytes, dataLen : Nat]
  <2>1. f = [u |-> f.u, dataLen |-> f.dataLen]
    BY DEF setEntry
  <2>2. f.u \in Bytes /\ f.dataLen \in Nat
    BY <1>5 DEF IsStored
  <2>3. QED
    BY <2>1, <2>2
<1> HIDE DEF f, id, val
<1>7. TableInv'
  <2>1. snmpData' \in [Ids -> [u : Bytes, dataLen : Nat]]
    BY <1>4, <1>6 DEF TableInv
  <2>2. lastSet' \in [Ids -> {<<>>} \cup {<<v>> : v \in Bytes}]
    BY <1>3, <1>4 DEF TableInv
  <2>3. ASSUME NEW i \in Ids
        PROVE  /\ IsStored(i, snmpData'[i])
               /\ lastSet'[i] # <<>> /\ Table[i].get = <<>> => Holds(i, snmpData'[i], lastSet'[i][1])
    <3>1. CASE i = id
      <4>1. snmpData'[i] = f /\ lastSet'[i] = <<val>>
        BY <1>4, <3>1 DEF TableInv
      <4>2. lastSet'[i][1] = val
        BY <4>1
      <4>3. QED
        BY <1>5, <3>1, <4>1, <4>2
    <3>2. CASE i # id
      <4>1. snmpData'[i] = snmpData[i] /\ lastSet'[i] = lastSet[i]
        BY <1>4, <3>2 DEF TableInv
      <4>2. QED
        BY <4>1 DEF TableInv
    <3>3. QED
      BY <3>1, <3>2
  <2>4. QED
    BY <2>1, <2>2, <2>3 DEF TableInv, IsStored, Holds
<1>8. QED
  BY <1>1, <1>7 DEF VarBindSet, SnmpInv, AnswerInv, AnswerNests, WalkInv, WalkIsInOrder

LEMMA GetKeeps == ASSUME TableInv, SnmpInv, VarBindGet PROVE (TableInv /\ SnmpInv)'
PROOF
<1> DEFINE id == CurrentId  e == Refreshed(id, snmpData[id])
<1>1. id \in Ids /\ ParseInv /\ MoreBindings /\ Current \in Bindings
  BY CurrentIs DEF SnmpInv, VarBindGet
<1>2. /\ snmpData' = [snmpData EXCEPT ![id] = e] /\ lastSet' = lastSet
      /\ Add(id, Table[id].oidlen, Table[id].dataType, Wire(id, e))
  BY DEF VarBindGet
<1>3. IsStored(id, snmpData[id])
  BY <1>1 DEF TableInv
<1>4. /\ IsStored(id, e) /\ e \in [u : Bytes, dataLen : Nat]
      /\ Table[id].dataType = "octets" => e.dataLen <= Len(e.u)
      /\ Table[id].get = <<>> =>
           e.u = snmpData[id].u /\ (Table[id].dataType # "octets" => e.dataLen = snmpData[id].dataLen)
  BY <1>1, <1>3, RefreshedIs
<1>5. Wire(id, e) \in Bytes
  BY <1>1, <1>4, WireIs
<1>6. ParseInv'
  <2>1. /\ id \in Nat /\ Table[id].oidlen \in Nat /\ Table[id].oidlen <= 10
        /\ Table[id].dataType \in DataTypes
    BY <1>1, TableIs, TypesOfEntries DEF DataTypes
  <2>2. Wire(id, e) \in Seq(0..255) /\ Len(Wire(id, e)) \in Nat /\ Len(Wire(id, e)) <= 63
    BY <1>5, BytesAre
  <2>3. Capacity(Current.form) \in {128, 256, 65536}
    BY <1>1, HeaderIs DEF Bindings
  <2>4. 4 + Table[id].oidlen + Len(Wire(id, e)) < Capacity(Current.form)
    BY <2>1, <2>2, <2>3
  <2>5. parse.request.id # 0 => errorStatus' = "noError" /\ id = parse.request.id
    BY <1>1, CurrentIs, TableIs DEF VarBindGet
  <2> HIDE DEF id, e
  <2>6. QED
    BY <1>1, <1>2, <2>1, <2>2, <2>4, <2>5, AddKeeps
<1> HIDE DEF e, id
<1>7. TableInv'
  <2>1. snmpData' \in [Ids -> [u : Bytes, dataLen : Nat]]
    BY <1>2, <1>4 DEF TableInv
  <2>2. ASSUME NEW i \in Ids
        PROVE  /\ IsStored(i, snmpData'[i])
               /\ (lastSet[i] # <<>> /\ Table[i].get = <<>> => Holds(i, snmpData'[i], lastSet[i][1]))
    <3>1. CASE i = id
      <4>1. snmpData'[i] = e
        BY <1>2, <3>1 DEF TableInv
      <4>2. lastSet[id] # <<>> /\ Table[id].get = <<>> => Holds(id, snmpData[id], lastSet[id][1])
        BY <1>1 DEF TableInv
      <4>3. lastSet[id] # <<>> /\ Table[id].get = <<>> => Holds(id, e, lastSet[id][1])
        BY <1>1, <1>4, <4>2, TypesOfEntries DEF Holds
      <4>4. QED
        BY <1>4, <3>1, <4>1, <4>3
    <3>2. CASE i # id
      <4>1. snmpData'[i] = snmpData[i]
        BY <1>2, <3>2 DEF TableInv
      <4>2. QED
        BY <4>1 DEF TableInv
    <3>3. QED
      BY <3>1, <3>2
  <2>3. QED
    BY <1>2, <2>1, <2>2 DEF TableInv, IsStored, Holds
<1>8. QED
  BY <1>6, <1>7 DEF VarBindGet, SnmpInv, AnswerInv, AnswerNests, WalkInv, WalkIsInOrder

\* The sizes handed up are those of what was added.
LEMMA SendKeeps == ASSUME TableInv, SnmpInv, SendResponse PROVE (TableInv /\ SnmpInv)'
PROOF
<1> DEFINE m == parse.request  bs == parse.bindings  start == ListStart(m)  a == Response
<1>1. Assembled(parse, errorStatus)
  BY DEF SnmpInv, ParseInv, SendResponse, Parsing, Idle
<1>2. /\ m \in Asked /\ bs \in Seq(Added) /\ Len(bs) \in Nat /\ parse.size \in Nat /\ parse.index \in Nat
      /\ Len(bs) <= Len(m.bindings) /\ Chained(start, bs) /\ Measured(bs)
      /\ parse.index = EndOf(start, bs) /\ parse.index = start + parse.size
      /\ m.id # 0 => IF bs = <<>> THEN errorStatus = "noError" ELSE Answers(m.id, bs, errorStatus)
  BY <1>1 DEF Assembled
<1>3. m \in Messages /\ Len(m.bindings) \in Nat /\ Len(bs) = Len(m.bindings)
      /\ m.msg \in Forms /\ m.pdu \in Forms /\ m.list \in Forms
  BY <1>2 DEF SendResponse, MoreBindings, Asked, Messages
<1>4. Header(m.msg) \in Nat /\ Header(m.pdu) \in Nat /\ Header(m.list) \in Nat
  BY <1>3, HeaderIs
<1>5. /\ a.kind = "response" /\ a.request = m /\ a.bindings = bs /\ a.len = parse.index
      /\ a.msg = m.msg /\ a.pdu = m.pdu /\ a.list = m.list /\ a.errorStatus = errorStatus
      /\ a.msgLen = insertRespLen(m.msg, MessageLength) /\ a.pduLen = insertRespLen(m.pdu, RequestReturns)
      /\ a.listLen = insertRespLen(m.list, parse.size)
  BY DEF Response
<1>6. ListStart(a) = start
  BY <1>5 DEF ListStart
<1> HIDE DEF a, m, bs, start
<1>7. ListContent(a) = parse.size
  <2>1. (IF bs = <<>> THEN start ELSE End(Last(bs))) = EndOf(start, bs)
    BY DEF EndOf, Last
  <2>2. ListContent(a) = parse.index - start
    BY <1>2, <1>5, <1>6, <2>1 DEF ListContent
  <2>3. start \in Nat
    BY <1>4 DEF start, ListStart, VersionSize, CommunitySize, CommunityLen, RequestSize
  <2>4. QED
    BY <1>2, <2>2, <2>3
<1> DEFINE hm == Header(m.msg)  hp == Header(m.pdu)  hl == Header(m.list)  n == parse.size
<1>8. VersionSize = 3 /\ CommunitySize = 8 /\ RequestSize = 12
  BY DEF VersionSize, CommunitySize, CommunityLen, RequestSize
<1>9. /\ hm \in Nat /\ hp \in Nat /\ hl \in Nat /\ n \in Nat
      /\ RequestContent(a) = 12 + hl + n /\ MessageContent(a) = 23 + hp + hl + n
      /\ start = 23 + hm + hp + hl /\ ListContent(a) = n
      /\ RequestReturns = 12 + hp + n /\ MessageLength = 23 + hp + hm + n
  <2>1. hm \in Nat /\ hp \in Nat /\ hl \in Nat /\ n \in Nat
    BY <1>2, <1>4
  <2>2. Header(a.list) = hl /\ Header(a.pdu) = hp /\ ListContent(a) = n
    BY <1>5, <1>7
  <2>3. RequestReturns = hp + RequestSize + n
    BY DEF RequestReturns, m
  <2>4. MessageLength = CommunitySize + RequestReturns + VersionSize + hm
    BY DEF MessageLength, VersionReturns, CommunityReturns, m
  <2>5. start = hm + VersionSize + CommunitySize + hp + RequestSize + hl
    BY DEF start, ListStart
  <2> HIDE DEF hm, hp, hl, n
  <2>6. RequestContent(a) = 12 + hl + n
    BY <1>8, <2>2 DEF RequestContent
  <2>7. MessageContent(a) = 23 + hp + hl + n
    BY <1>8, <2>1, <2>2, <2>6 DEF MessageContent
  <2>8. start = 23 + hm + hp + hl /\ RequestReturns = 12 + hp + n
    BY <1>8, <2>1, <2>3, <2>5
  <2>9. MessageLength = 23 + hp + hm + n
    BY <1>8, <2>1, <2>4, <2>8
  <2>10. QED
    BY <2>1, <2>2, <2>6, <2>7, <2>8, <2>9
<1> HIDE DEF hm, hp, hl, n
<1>10. Contiguous(a)
  <2>1. a.len = Header(a.msg) + MessageContent(a)
    <3>1. a.len = start + n /\ Header(a.msg) = hm
      BY <1>2, <1>5 DEF n, hm
    <3>2. QED
      BY <1>9, <3>1
  <2>2. \A i \in DOMAIN bs : bs[i].at = IF i = 1 THEN start ELSE End(bs[i - 1])
    BY <1>2 DEF Chained
  <2>3. QED
    BY <1>5, <1>6, <2>1, <2>2 DEF Contiguous
<1>11. ASSUME Fits(a, MessageContent(a))
       PROVE  /\ Decoded(a.msg, a.msgLen) = MessageContent(a)
              /\ Decoded(a.pdu, a.pduLen) = RequestContent(a)
              /\ Decoded(a.list, a.listLen) = ListContent(a)
  <2>1. a.msg = m.msg /\ a.pdu = m.msg /\ a.list = m.msg /\ m.pdu = m.msg /\ m.list = m.msg
        /\ MessageContent(a) < Capacity(m.msg)
    BY <1>5, <1>11 DEF Fits
  <2>2. /\ MessageLength = MessageContent(a) /\ RequestReturns = RequestContent(a)
        /\ parse.size = ListContent(a)
    <3>1. hm = hl /\ hp = hl
      BY <2>1 DEF hm, hp, hl
    <3>2. QED
      BY <1>7, <1>9, <3>1
  <2>3. /\ MessageContent(a) \in Nat /\ RequestContent(a) \in Nat /\ ListContent(a) \in Nat
        /\ RequestContent(a) <= MessageContent(a) /\ ListContent(a) <= MessageContent(a)
    BY <1>9
  <2>4. \A k \in Nat : k < Capacity(m.msg) => Decoded(m.msg, insertRespLen(m.msg, k)) = k
    BY <1>3, DecodedIs
  <2>5. Capacity(m.msg) \in Nat
    BY <1>3, HeaderIs
  <2>6. RequestContent(a) < Capacity(m.msg) /\ ListContent(a) < Capacity(m.msg)
    BY <2>1, <2>3, <2>5
  <2>7. QED
    BY <1>5, <2>1, <2>2, <2>3, <2>4, <2>6
<1>12. /\ answer' = a /\ parse' = Idle /\ errorStatus' = errorStatus
       /\ snmpData' = snmpData /\ lastSet' = lastSet /\ rx' = rx /\ walk' = walk
  BY DEF SendResponse, a
<1>13. AnswerNests'
  <2>1. \A i \in DOMAIN a.bindings : Decoded(a.bindings[i].form, a.bindings[i].written) = BindingContent(a.bindings[i])
    BY <1>2, <1>5 DEF Measured
  <2>2. a.kind # "trap"
    BY <1>5
  <2>3. QED
    BY <1>10, <1>11, <1>12, <2>1, <2>2 DEF AnswerNests
<1>14. AnswerInv'
  <2>1. ASSUME m.id # 0 PROVE Answers(m.id, bs, errorStatus)
    <3>1. Len(bs) = 1
      BY <1>2, <1>3, <2>1 DEF Asked, Numbered
    <3>2. bs # <<>>
      BY <3>1
    <3>3. QED
      BY <1>2, <2>1, <3>2
  <2>2. QED
    BY <1>2, <1>5, <1>12, <2>1 DEF AnswerInv
<1>15. TableInv'
  BY <1>12 DEF TableInv
<1>16. ParseInv'
  BY <1>12 DEF ParseInv
<1>17. QED
  BY <1>12, <1>13, <1>14, <1>15, <1>16 DEF SnmpInv, WalkInv, WalkIsInOrder

LEMMA ReceiveKeeps ==
  ASSUME TableInv, SnmpInv, Refuse \/ AnswerUnknown \/ ParseRequest
  PROVE  (TableInv /\ SnmpInv)'
PROOF
<1>1. rx \in Seq(Asked) /\ rx # <<>> /\ rx' = Tail(rx) /\ ~ Parsing /\ errorStatus' = "noError"
      /\ snmpData' = snmpData /\ lastSet' = lastSet /\ walk' = walk
  BY DEF SnmpInv, Refuse, AnswerUnknown, ParseRequest, Receive, Received, ClearError
<1>2. rx' \in Seq(Asked) /\ Head(rx) \in Asked
  BY <1>1, HeadTailProperties
<1>3. TableInv'
  BY <1>1 DEF TableInv
<1>4. parse = Idle
  BY <1>1 DEF SnmpInv, ParseInv, Parsing, Assembled
<1>5. CASE Refuse
  <2>1. answer' = answer /\ parse' = parse
    BY <1>5 DEF Refuse
  <2>2. QED
    BY <1>1, <1>2, <1>3, <1>4, <2>1 DEF SnmpInv, ParseInv, AnswerInv, AnswerNests, WalkInv, WalkIsInOrder
<1>6. CASE AnswerUnknown
  <2>1. answer' = Stub(Head(rx)) /\ parse' = parse
    BY <1>6 DEF AnswerUnknown
  <2>2. answer'.kind = "stub"
    BY <2>1 DEF Stub
  <2>3. QED
    BY <1>1, <1>2, <1>3, <1>4, <2>1, <2>2 DEF SnmpInv, ParseInv, AnswerInv, AnswerNests, WalkInv, WalkIsInOrder
<1>7. CASE ParseRequest
  <2> DEFINE m == Head(rx)  start == ListStart(m)
             p == [busy |-> TRUE, request |-> m, bindings |-> <<>>, size |-> 0, index |-> start]
  <2>1. answer' = answer /\ parse' = p
    BY <1>7 DEF ParseRequest
  <2>2. start \in Nat
    <3>1. m.msg \in Forms /\ m.pdu \in Forms /\ m.list \in Forms
      BY <1>2 DEF Asked, Messages
    <3>2. Header(m.msg) \in Nat /\ Header(m.pdu) \in Nat /\ Header(m.list) \in Nat
      BY <3>1, HeaderIs
    <3>3. QED
      BY <3>2 DEF ListStart, VersionSize, CommunitySize, CommunityLen, RequestSize
  <2>3. m.bindings \in Seq(Bindings) /\ Len(m.bindings) \in Nat
    BY <1>2 DEF Asked, Messages
  <2> HIDE DEF m, start
  <2>4. <<>> \in Seq(Added) /\ Len(<<>>) = 0 /\ DOMAIN <<>> = {}
    BY EmptySeq
  <2>5. Chained(start, <<>>) /\ Measured(<<>>) /\ EndOf(start, <<>>) = start
    BY <2>4 DEF Chained, Measured, EndOf
  <2>6. p \in [busy : {TRUE}, request : Asked, bindings : Seq(Added), size : Nat, index : Nat]
    BY <1>2, <2>2, <2>4 DEF m
  <2>7. /\ p.request = m /\ p.bindings = <<>> /\ p.index = start /\ p.size = 0
        /\ Len(p.bindings) <= Len(m.bindings) /\ p.index = start + p.size
    BY <2>2, <2>3, <2>4
  <2>8. ListStart(p.request) = start
    BY <2>7 DEF start
  <2> HIDE DEF p
  <2>9. Assembled(p, "noError")
    BY <2>5, <2>6, <2>7, <2>8 DEF Assembled
  <2>10. ParseInv'
    BY <1>1, <2>1, <2>9 DEF ParseInv
  <2>11. QED
    BY <1>1, <1>2, <1>3, <2>1, <2>10 DEF SnmpInv, AnswerInv, AnswerNests, WalkInv, WalkIsInOrder
<1>8. QED
  BY <1>5, <1>6, <1>7

LEMMA OverrunKeeps == ASSUME TableInv, SnmpInv, ReceiveOverruns PROVE (TableInv /\ SnmpInv)'
PROOF
<1>1. rx' \in Seq(Asked)
  BY HeadTailProperties DEF SnmpInv, ReceiveOverruns, Received
<1>2. QED
  BY <1>1 DEF ReceiveOverruns, TableInv, SnmpInv, ParseInv, AnswerInv, AnswerNests, WalkInv, WalkIsInOrder

LEMMA QueueKeeps ==
  ASSUME TableInv, SnmpInv, NEW m \in Asked, Queue(m),
         UNCHANGED <<sock, snmpData, parse, errorStatus, errorIndex, answer, lastSet, walk>>
  PROVE  (TableInv /\ SnmpInv)'
PROOF
<1>1. rx' \in Seq(Asked)
  BY AppendProperties DEF SnmpInv, Queue
<1>2. QED
  BY <1>1 DEF TableInv, SnmpInv, ParseInv, AnswerInv, AnswerNests, WalkInv, WalkIsInOrder

LEMMA RequestsAreAsked == \A m \in Requests : m \in Asked
PROOF
  BY SnmpAssumption DEF IsMessage, Asked

LEMMA HearsKeeps == ASSUME TableInv, SnmpInv, WalkHears PROVE (TableInv /\ SnmpInv)'
PROOF
<1>1. /\ answer' = NoAnswer /\ answer.kind = "response" /\ answer.request.id = Len(walk.seen) + 1
      /\ rx' = rx /\ parse' = parse /\ errorStatus' = errorStatus
      /\ snmpData' = snmpData /\ lastSet' = lastSet
  BY DEF WalkHears
<1>2. /\ walk \in [seen : Seq(Ids), ended : BOOLEAN] /\ Len(walk.seen) \in Nat
      /\ Len(walk.seen) <= maxData /\ WalkIsInOrder /\ maxData = 14
  BY DEF SnmpInv, WalkInv, maxData, Table
<1>3. WalkInv'
  <2> DEFINE n == Len(walk.seen)
  <2>1. Answers(n + 1, answer.bindings, answer.errorStatus)
    BY <1>1, <1>2 DEF SnmpInv, AnswerInv
  <2>2. CASE answer.errorStatus = "noError"
    <3>1. n + 1 \in Ids /\ n + 1 <= maxData /\ answer.bindings[1].oid = n + 1
      BY <1>2, <2>1, <2>2 DEF Answers, Ids
    <3> DEFINE s == Append(walk.seen, n + 1)
    <3>2. s \in Seq(Ids) /\ Len(s) = n + 1 /\ s[n + 1] = n + 1 /\ \A i \in 1..n : s[i] = walk.seen[i]
      BY <1>2, <3>1, AppendProperties
    <3>3. walk' = [seen |-> s, ended |-> walk.ended] /\ walk.ended = FALSE
      <4>1. walk' = [walk EXCEPT !.seen = s] /\ ~ walk.ended
        BY <2>2, <3>1 DEF WalkHears
      <4>2. QED
        BY <1>2, <4>1
    <3> HIDE DEF s
    <3>4. \A i \in 1..(n + 1) : s[i] = i
      <4>1. \A i \in 1..n : walk.seen[i] = i
        BY <1>2 DEF WalkIsInOrder
      <4>2. QED
        BY <1>2, <3>2, <4>1
    <3>5. s = [i \in 1..(n + 1) |-> i]
      BY <1>2, <3>2, <3>4
    <3>6. QED
      BY <3>1, <3>2, <3>3, <3>5 DEF WalkInv, WalkIsInOrder
  <2>3. CASE answer.errorStatus # "noError"
    <3>1. n = maxData
      <4>1. n + 1 = maxData + 1
        BY <2>1, <2>3 DEF Answers
      <4>2. \A k \in Nat : k + 1 = 14 + 1 => k = 14
        OBVIOUS
      <4>3. QED
        BY <1>2, <4>1, <4>2
    <3>2. walk' = [seen |-> walk.seen, ended |-> TRUE]
      BY <1>2, <2>3 DEF WalkHears
    <3>3. QED
      BY <1>2, <3>1, <3>2 DEF WalkInv, WalkIsInOrder
  <2>4. QED
    BY <2>2, <2>3
<1>4. answer'.kind = "none"
  BY <1>1 DEF NoAnswer
<1>5. QED
  BY <1>1, <1>3, <1>4 DEF TableInv, SnmpInv, ParseInv, AnswerInv, AnswerNests, WalkInv, WalkIsInOrder

LEMMA SnmpInit == Init => TableInv /\ SnmpInv
PROOF
<1> SUFFICES ASSUME Init PROVE TableInv /\ SnmpInv
  OBVIOUS
<1>1. TableInv
  <2>1. ASSUME NEW id \in Ids
        PROVE  /\ snmpData[id] = [u |-> Table[id].u, dataLen |-> Table[id].dataLen]
               /\ Table[id].u \in Bytes /\ Table[id].dataLen \in Nat
               /\ IsStored(id, snmpData[id]) /\ lastSet[id] = <<>>
    BY TableIs DEF Init, IsStored, IsEntry, IsInteger
  <2>2. snmpData \in [Ids -> [u : Bytes, dataLen : Nat]]
    <3>1. snmpData = [id \in Ids |-> [u |-> Table[id].u, dataLen |-> Table[id].dataLen]]
      BY DEF Init
    <3>2. QED
      BY <2>1, <3>1
  <2>3. lastSet \in [Ids -> {<<>>} \cup {<<val>> : val \in Bytes}]
    BY DEF Init
  <2>4. QED
    BY <2>1, <2>2, <2>3 DEF TableInv
<1>2. rx \in Seq(Asked) /\ WalkInv
  <2>1. <<>> \in Seq(Ids) /\ Len(<<>>) = 0 /\ <<>> = [i \in 1..0 |-> i] /\ maxData = 14
    BY EmptySeq DEF maxData, Table
  <2>2. walk.seen = <<>> /\ walk.ended = FALSE /\ walk \in [seen : Seq(Ids), ended : BOOLEAN]
    BY <2>1 DEF Init
  <2>3. WalkInv
    BY <2>1, <2>2 DEF WalkInv, WalkIsInOrder
  <2>4. QED
    BY <2>3, EmptySeq DEF Init
<1>3. ParseInv
  BY DEF Init, ParseInv
<1>4. AnswerInv /\ AnswerNests
  <2>1. answer = Trap
    BY DEF Init
  <2>2. answer.kind = "trap"
    BY <2>1 DEF Trap
  <2>3. /\ answer.pduLen = TrapIndex - (9 + CommunityLen) /\ answer.msgLen = TrapIndex - 2
    BY <2>1 DEF Trap
  <2>4. TrapIndex = 44 /\ TrapFields = 29 /\ VersionSize = 3 /\ CommunitySize = 8 /\ CommunityLen = 6
    BY DEF TrapIndex, TrapFields, EnterpriseLen, VersionSize, CommunitySize, CommunityLen
  <2>5. QED
    BY <2>2, <2>3, <2>4 DEF AnswerInv, AnswerNests, WalkInv, WalkIsInOrder
<1>5. QED
  BY <1>1, <1>2, <1>3, <1>4 DEF SnmpInv

LEMMA SnmpStep == TableInv /\ SnmpInv /\ [Next]_vars => (TableInv /\ SnmpInv)'
PROOF
<1> SUFFICES ASSUME TableInv, SnmpInv, [Next]_vars PROVE (TableInv /\ SnmpInv)'
  OBVIOUS
<1>1. CASE OpenSocket
  BY <1>1 DEF OpenSocket, TableInv, SnmpInv, ParseInv, AnswerInv, AnswerNests, WalkInv, WalkIsInOrder
<1>0. CASE ReceiveOverruns
  BY <1>0, OverrunKeeps
<1>2. CASE Refuse \/ AnswerUnknown \/ ParseRequest
  BY <1>2, ReceiveKeeps
<1>3. CASE VarBindMissing
  BY <1>3, MissingKeeps
<1>4. CASE VarBindGet
  BY <1>4, GetKeeps
<1>5. CASE VarBindSet
  BY <1>5, SetKeeps
<1>6. CASE VarBindBadValue
  BY <1>6, BadValueKeeps
<1>7. CASE SendResponse
  BY <1>7, SendKeeps
<1>8. ASSUME NEW m \in Requests, Request(m) PROVE (TableInv /\ SnmpInv)'
  BY <1>8, RequestsAreAsked, QueueKeeps DEF Request
<1>9. CASE WalkAsk
  <2>1. WalkRequest \in Asked
    BY WalkIsAsked DEF SnmpInv
  <2>2. QED
    BY <1>9, <2>1, QueueKeeps DEF WalkAsk
<1>10. CASE WalkHears
  BY <1>10, HearsKeeps
<1>11. CASE UNCHANGED vars
  BY <1>11 DEF vars, TableInv, SnmpInv, ParseInv, AnswerInv, AnswerNests, WalkInv, WalkIsInOrder
<1>12. QED
  BY <1>0, <1>1, <1>2, <1>3, <1>4, <1>5, <1>6, <1>7, <1>8, <1>9, <1>10, <1>11 DEF Next

LEMMA SnmpIsSound == Spec => [](TableInv /\ SnmpInv)
PROOF
  BY SnmpInit, SnmpStep, PTL DEF Spec

\* While no request and no answer is longer than its buffer, however many reads, failed
\* requests, writes to other entries and walks come in between, a GET delivers what the last
\* SET of its entry wrote (setEntry, getEntry).
THEOREM SetsAreKept == Spec => []SetsAreReadBack
PROOF
<1>1. TableInv => SetsAreReadBack
  BY SetsAreHeld DEF SetsAreReadBack
<1>2. QED
  BY <1>1, SnmpIsSound, PTL

\* While no request and no answer is longer than its buffer of MAX_SNMPMSG_LEN bytes, the
\* lengths of every answer and of the trap are those of what follows them, in every form of
\* length field, and the bindings fill the list without a gap (parseSequence, insertRespLen,
\* snmpd_run).
THEOREM LengthsAreTrue == Spec => []LengthsNest
PROOF
<1>1. SnmpInv => LengthsNest
  BY DEF SnmpInv, LengthsNest
<1>2. QED
  BY <1>1, SnmpIsSound, PTL

\* While no request and no answer is longer than its buffer, a walk is given every entry once,
\* in the order of the table, and is told the end after the last one only, whatever is asked
\* in between and however often its requests arrive (the GETNEXT of parseVarBind, findEntry).
THEOREM WalksAreInOrder == Spec => [](~overrun => WalkIsInOrder)
PROOF
<1>1. SnmpInv => (~overrun => WalkIsInOrder)
  BY DEF SnmpInv, WalkInv
<1>2. QED
  BY <1>1, SnmpIsSound, PTL
=============================================================================
