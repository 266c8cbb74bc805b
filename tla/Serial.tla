------------------------------- MODULE Serial -------------------------------
(***************************************************************************)
(* Integers and byte views written to a buffer and read back               *)
(* (include/AxleUtil/serialize.h): a Serializer is a view that shrinks     *)
(* from the front.  A byte has Base values, 256 in the code.               *)
(***************************************************************************)
EXTENDS Integers, SequencesExt

CONSTANTS
  Base,           \* the values of a byte
  ZerosAtOnce,    \* SerializeZeros' BUFFER_SIZE
  SerialSize,     \* the size of the buffer
  SerialItems     \* bound: the items written

ASSUME SerialAssumption == Base \in Nat \ {0, 1} /\ Base % 2 = 0 /\ ZerosAtOnce \in Nat \ {0} /\ SerialSize \in Nat

VARIABLES
  serOrder,     \* the ByteOrder of both serializers
  serBytes,     \* the bytes written
  serItems,     \* the items written, each with its type
  serRest,      \* the view of the deserializer
  serRead       \* the items read

serVars == <<serOrder, serBytes, serItems, serRest, serRead>>

\* SERIALIZE_SIZE.  i8 to i64 are converted to these and back.
Unsigned == [u8 |-> 1, u16 |-> 2, u32 |-> 4, u64 |-> 8]
Signed == [i8 |-> "u8", i16 |-> "u16", i32 |-> "u32", i64 |-> "u64"]
Views == [bytes1 |-> 1, bytes2 |-> 2]
Zeros == [zeros1 |-> 1, zeros3 |-> 3]

\* What a byte counts with n bytes below it: 1 << 8 * n.
Weight[n \in Nat] == IF n = 0 THEN 1 ELSE Base * Weight[n - 1]

\* The integer of each type lies in the range of that type.
Modulus(type) == Weight[Unsigned[type]]
Samples(n) == {x \in {0, 1, Base, n \div 2 - 1, n \div 2, n - 2, n - 1} : x \in 0..n - 1}

Items ==
  (UNION {{[type |-> t, value |-> v] : v \in Samples(Modulus(t))} : t \in DOMAIN Unsigned})
  \union (UNION {{[type |-> t, value |-> v - Modulus(Signed[t]) \div 2] : v \in Samples(Modulus(Signed[t]))} : t \in DOMAIN Signed})
  \union (UNION {[type : {t}, value : [1..Views[t] -> 0..Base - 1]] : t \in DOMAIN Views})
  \union {[type |-> t, value |-> [i \in 1..Zeros[t] |-> 0]] : t \in DOMAIN Zeros}

SerialTypeOK ==
  /\ serOrder \in {"LittleEndian", "BigEndian"}
  /\ serBytes \in Seq(0..Base - 1) /\ Len(serBytes) <= SerialSize /\ IsSuffix(serRest, serBytes)
  /\ serItems \in Seq(Items) /\ Len(serRead) <= Len(serItems)

SerialInit ==
  /\ serOrder \in {"LittleEndian", "BigEndian"}
  /\ serBytes = <<>> /\ serItems = <<>> /\ serRest = <<>> /\ serRead = <<>>

InOrder(bytes) == IF serOrder = "LittleEndian" THEN bytes ELSE Reverse(bytes)

\* serialize and deserialize of u8 to u64: the shifts, and the casts to a byte.
ToBytes(u, size) == InOrder([i \in 1..size |-> (u \div Weight[i - 1]) % Base])

\* Bytes shifted to their places, the least first.
Joint(bytes) ==
  LET value[n \in 0..Len(bytes)] == IF n = 0 THEN 0 ELSE value[n - 1] + bytes[n] * Weight[n - 1]
  IN value[Len(bytes)]

\* Mutant: the bytes are put together in the order they lie in.
FromBytesUnordered(bytes) == Joint(bytes)

FromBytes(bytes) == Joint(InOrder(bytes))

\* Serializable_Convert: the casts from a signed type and back.
Serialized(item) ==
  IF item.type \in DOMAIN Unsigned THEN ToBytes(item.value, Unsigned[item.type])
  ELSE IF item.type \in DOMAIN Signed
    THEN ToBytes(item.value % Modulus(Signed[item.type]), Unsigned[Signed[item.type]])
    ELSE item.value

Deserialized(type, bytes) ==
  IF type \in DOMAIN Unsigned THEN FromBytes(bytes)
  ELSE IF type \in DOMAIN Signed
    THEN LET u == FromBytes(bytes)
         IN IF u < Modulus(Signed[type]) \div 2 THEN u ELSE u - Modulus(Signed[type])
    ELSE bytes

SizeOf(type) ==
  IF type \in DOMAIN Unsigned THEN Unsigned[type]
  ELSE IF type \in DOMAIN Signed THEN Unsigned[Signed[type]]
  ELSE IF type \in DOMAIN Views THEN Views[type] ELSE Zeros[type]

\* write_bytes, for which the caller has room: it moves the view on by what it copies.
WriteBytes(view, bytes) == view \o bytes

\* SerializeZeros: whole buffers of zeros, then a part of one.
WriteZeros(view, n) ==
  LET zeros(k) == [i \in 1..k |-> 0]
      whole[i \in 0..n \div ZerosAtOnce] == IF i = 0 THEN view ELSE WriteBytes(whole[i - 1], zeros(ZerosAtOnce))
  IN WriteBytes(whole[n \div ZerosAtOnce], zeros(n % ZerosAtOnce))

SerialWrite(item) ==
  /\ serRead = <<>> /\ Len(serItems) < SerialItems
  /\ Len(serBytes) + SizeOf(item.type) <= SerialSize
  /\ serBytes' = IF item.type \in DOMAIN Zeros THEN WriteZeros(serBytes, SizeOf(item.type))
                 ELSE WriteBytes(serBytes, Serialized(item))
  /\ serItems' = Append(serItems, item)
  /\ serRest' = serBytes'
  /\ UNCHANGED <<serOrder, serRead>>

\* read_bytes returns false, and moves nothing, when the view has not enough; deserialize
\* and deserialize of a convertible type pass that on and leave the caller's value.
SerialDeserialize(type) ==
  LET n == SizeOf(type)
  IN IF Len(serRest) < n
       THEN UNCHANGED <<serRest, serRead>>
       ELSE /\ serRest' = SubSeq(serRest, n + 1, Len(serRest))
            /\ serRead' = Append(serRead, [type |-> type, value |-> Deserialized(type, SubSeq(serRest, 1, n))])

\* The next item by its type, or by a larger one for which the view is too small.
SerialRead(type) ==
  /\ Len(serRead) < Len(serItems)
  /\ type = serItems[Len(serRead) + 1].type \/ SizeOf(type) > Len(serRest)
  /\ SerialDeserialize(type)
  /\ UNCHANGED <<serOrder, serBytes, serItems>>

SerialNext ==
  \/ \E item \in Items : SerialWrite(item)
  \/ \E item \in Items : SerialRead(item.type)

\* What is read by the types it was written by is what was written, in either order, and
\* reads for which there was not enough change nothing.
RoundTrip ==
  /\ IsPrefix(serRead, serItems)
  /\ Len(serRead) = Len(serItems) => serRest = <<>>
=============================================================================
