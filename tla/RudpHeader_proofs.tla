--------------------------- MODULE RudpHeader_proofs ---------------------------
(***************************************************************************)
(* Theorems about RudpHeader, for every set of objects, arguments, sizes   *)
(* and contents of uninitialised memory.                                   *)
(***************************************************************************)
EXTENDS RudpHeader, TLAPS

(* A packet in flight is what Serialize makes of its origin, and an object *)
(* that was read is what Deserialize makes of that packet over whatever    *)
(* the object held.                                                        *)
WireOfOrigin ==
  wire # NoWire => origin \in Headers /\ size \in Nat /\ wire = Written(origin, size)

ReadsOfWire ==
  \A h \in reads : wire # NoWire /\ \E o \in Headers : header[h] = Parsed(o, wire)

HeaderInv == TypeOK /\ WireOfOrigin /\ ReadsOfWire

-------------------------------------------------------------------------------
(***************************************************************************)
(* Bits and words.                                                         *)
(***************************************************************************)
LEMMA ShiftTypes ==
  ASSUME NEW n, NEW k
  PROVE  ShiftLeft(n, k) \in SUBSET Bits(32)
BY DEF ShiftLeft

LEMMA ShiftRightTypes ==
  ASSUME NEW n \in SUBSET Bits(32), NEW k \in 24..32
  PROVE  ShiftRight(n, k) \in SUBSET Bits(8)
<1> SUFFICES ASSUME NEW b \in ShiftRight(n, k) PROVE b \in Bits(8)
  OBVIOUS
<1>1. b \in 0..31 /\ b + k \in 0..31
  BY DEF ShiftRight, Bits
<1> QED
  BY <1>1 DEF Bits

LEMMA ConstructedType ==
  ASSUME NEW r \in Leftovers
  PROVE  Constructed(r) \in Headers
<1>1. r \in Uninitialised
  BY LeftoversAssumption
<1> QED
  BY <1>1 DEF Constructed, Headers, Uninitialised, UInt16

LEMMA WrittenType ==
  ASSUME NEW o \in Headers, NEW n \in Nat
  PROVE  Written(o, n) \in Wires
<1>1. Length(o, n) \in UInt16
  BY DEF Length, Headers, UInt16
<1>2. SequenceWord(o) \in SUBSET Bits(32)
  BY ShiftTypes DEF SequenceWord, Headers
<1>3. MessageWord(o) \in SUBSET Bits(32)
  BY ShiftTypes DEF MessageWord, Headers
<1> QED
  BY <1>1, <1>2, <1>3 DEF Written, Wires, Headers

LEMMA ParsedType ==
  ASSUME NEW o \in Headers, NEW w \in Wires
  PROVE  Parsed(o, w) \in Headers
<1>1. (w.length - GetSerializedSize) % 65536 \in UInt16
  BY DEF Wires, GetSerializedSize, UInt16
<1>2. /\ ShiftRight(w.messageWord, 29) \in SUBSET Bits(8)
      /\ PositionBits(w.messageWord) \in SUBSET Bits(8)
  BY ShiftRightTypes DEF Wires, PositionBits
<1>3. ShiftRight(w.messageWord, 29) \cap {0} \in SUBSET Bits(8)
  BY <1>2
<1>4. /\ w.sequenceWord \cap Bits(31) \in SUBSET Bits(32)
      /\ w.messageWord \cap Bits(29) \in SUBSET Bits(32)
  BY DEF Wires
<1>5. (IF 31 \in w.sequenceWord THEN {0} ELSE {}) \in SUBSET Bits(8)
  BY DEF Bits
<1>6. /\ o.m_typeBits \in SUBSET Bits(8)
      /\ o.m_positionFlag \in SUBSET Bits(8)
      /\ o.m_inorderFlag \in SUBSET Bits(8)
  BY DEF Headers
<1>7. w.sourcePort \in UInt16 /\ w.destinationPort \in UInt16
  BY DEF Wires
<1> QED
  BY <1>1, <1>2, <1>3, <1>4, <1>5, <1>6, <1>7 DEF Parsed, Headers

(* The first word holds the control flag and 31 bits of sequence number.   *)
LEMMA FirstWord ==
  ASSUME NEW o \in Headers, FlagsSet(o)
  PROVE  /\ SequenceWord(o) \cap Bits(31) = o.m_sequenceNumber
         /\ (31 \in SequenceWord(o)) = IsControl(o)
         /\ (IF 31 \in SequenceWord(o) THEN {0} ELSE {}) = o.m_controlFlag
<1>1. \A b \in ShiftLeft(o.m_controlFlag, 31) : b = 31
  BY DEF FlagsSet, Bools, ShiftLeft, Bits
<1>2. 31 \notin o.m_sequenceNumber /\ 31 \notin Bits(31)
  BY DEF FlagsSet, Bits
<1>3. o.m_sequenceNumber \subseteq Bits(31)
  BY DEF FlagsSet
<1>4. CASE o.m_controlFlag = {}
  <2>1. ShiftLeft(o.m_controlFlag, 31) = {}
    BY <1>4 DEF ShiftLeft
  <2> QED
    BY <1>2, <1>3, <1>4, <2>1 DEF SequenceWord, IsControl
<1>5. CASE o.m_controlFlag = {0}
  <2>1. 31 \in ShiftLeft(o.m_controlFlag, 31)
    BY <1>5 DEF ShiftLeft, Bits
  <2> QED
    BY <1>1, <1>2, <1>3, <1>5, <2>1 DEF SequenceWord, IsControl
<1> QED
  BY <1>4, <1>5 DEF FlagsSet, Bools

(* The second word holds 29 bits of message number below three bits of     *)
(* type, or below one in-order and two position bits.                      *)
LEMMA MessageWordSplits ==
  ASSUME NEW o \in Headers, o.m_messageNumber \subseteq Bits(29)
  PROVE  /\ MessageWord(o) \cap Bits(29) = o.m_messageNumber
         /\ IsControl(o) /\ o.m_typeBits \subseteq Bits(3) =>
              ShiftRight(MessageWord(o), 29) = o.m_typeBits
         /\ ~IsControl(o) /\ o.m_positionFlag \subseteq Bits(2)
              /\ o.m_inorderFlag \in Bools =>
              /\ PositionBits(MessageWord(o)) = o.m_positionFlag
              /\ ShiftRight(MessageWord(o), 29) \cap {0} = o.m_inorderFlag
<1> DEFINE m == o.m_messageNumber
<1>1. \A b \in m : b \in Int /\ b >= 0 /\ b < 29
  BY DEF Bits
<1>2. CASE IsControl(o)
  <2>1. MessageWord(o) = ShiftLeft(o.m_typeBits, 29) \cup m
    BY <1>2 DEF MessageWord, IsControl
  <2>2. \A b \in ShiftLeft(o.m_typeBits, 29) : b \in 29..31
    BY DEF ShiftLeft, Bits, Headers
  <2>3. MessageWord(o) \cap Bits(29) = m
    BY <1>1, <2>1, <2>2 DEF Bits
  <2>4. ASSUME o.m_typeBits \subseteq Bits(3)
        PROVE  ShiftRight(MessageWord(o), 29) = o.m_typeBits
    <3>1. \A b \in Bits(32) : b \in ShiftRight(MessageWord(o), 29) <=> b \in o.m_typeBits
      <4> TAKE b \in Bits(32)
      <4>1. b \in ShiftRight(MessageWord(o), 29) <=> b + 29 \in ShiftLeft(o.m_typeBits, 29)
        BY <1>1, <2>1 DEF ShiftRight, Bits
      <4>2. b + 29 \in ShiftLeft(o.m_typeBits, 29) <=> b \in o.m_typeBits
        BY <2>4 DEF ShiftLeft, Bits
      <4> QED
        BY <4>1, <4>2
    <3>2. ShiftRight(MessageWord(o), 29) \subseteq Bits(32)
      BY DEF ShiftRight
    <3>3. o.m_typeBits \subseteq Bits(32)
      BY <2>4 DEF Bits
    <3> QED
      BY <3>1, <3>2, <3>3
  <2> QED
    BY <1>2, <2>3, <2>4
<1>3. CASE ~IsControl(o)
  <2>1. MessageWord(o) = ShiftLeft(o.m_positionFlag, 30)
                           \cup ShiftLeft(o.m_inorderFlag, 29) \cup m
    BY <1>3 DEF MessageWord, IsControl
  <2>2. /\ \A b \in ShiftLeft(o.m_positionFlag, 30) : b \in 30..31
        /\ \A b \in ShiftLeft(o.m_inorderFlag, 29) : b \in 29..31
    BY DEF ShiftLeft, Bits, Headers
  <2>3. MessageWord(o) \cap Bits(29) = m
    BY <1>1, <2>1, <2>2 DEF Bits
  <2>4. ASSUME o.m_positionFlag \subseteq Bits(2), o.m_inorderFlag \in Bools
        PROVE  /\ PositionBits(MessageWord(o)) = o.m_positionFlag
               /\ ShiftRight(MessageWord(o), 29) \cap {0} = o.m_inorderFlag
    <3>1. \A b \in ShiftLeft(o.m_inorderFlag, 29) : b = 29
      BY <2>4 DEF ShiftLeft, Bools, Bits
    <3>2. \A b \in Bits(32) : b \in PositionBits(MessageWord(o)) <=> b \in o.m_positionFlag
      <4> TAKE b \in Bits(32)
      <4>1. b \in PositionBits(MessageWord(o)) <=> b + 30 \in ShiftLeft(o.m_positionFlag, 30)
        BY <1>1, <2>1, <3>1 DEF PositionBits, ShiftRight, Bits
      <4>2. b + 30 \in ShiftLeft(o.m_positionFlag, 30) <=> b \in o.m_positionFlag
        BY <2>4 DEF ShiftLeft, Bits
      <4> QED
        BY <4>1, <4>2
    <3>3. PositionBits(MessageWord(o)) \subseteq Bits(32)
      BY DEF PositionBits, ShiftRight
    <3>4. o.m_positionFlag \subseteq Bits(32)
      BY <2>4 DEF Bits
    <3>5. PositionBits(MessageWord(o)) = o.m_positionFlag
      BY <3>2, <3>3, <3>4
    <3>6. 0 \in ShiftRight(MessageWord(o), 29) <=> 29 \in ShiftLeft(o.m_inorderFlag, 29)
      BY <1>1, <2>1, <2>2 DEF ShiftRight, Bits
    <3>7. 29 \in ShiftLeft(o.m_inorderFlag, 29) <=> 0 \in o.m_inorderFlag
      BY DEF ShiftLeft, Bits
    <3> QED
      BY <2>4, <3>5, <3>6, <3>7 DEF Bools
  <2> QED
    BY <1>3, <2>3, <2>4
<1> QED
  BY <1>2, <1>3

(* Whatever the words, reading them and writing them again changes none.   *)
LEMMA ParsedWords ==
  ASSUME NEW o \in Headers, NEW w \in Wires
  PROVE  /\ SequenceWord(Parsed(o, w)) = w.sequenceWord
         /\ MessageWord(Parsed(o, w)) = w.messageWord
<1> DEFINE p == Parsed(o, w)
           s == w.sequenceWord
           m == w.messageWord
<1>1. s \subseteq Bits(32) /\ m \subseteq Bits(32)
  BY DEF Wires
<1>2. /\ p.m_controlFlag = IF 31 \in s THEN {0} ELSE {}
      /\ p.m_sequenceNumber = s \cap Bits(31)
      /\ p.m_messageNumber = m \cap Bits(29)
      /\ 31 \in s => p.m_typeBits = ShiftRight(m, 29)
      /\ 31 \notin s => /\ p.m_positionFlag = ShiftRight(m, 30)
                        /\ p.m_inorderFlag = ShiftRight(m, 29) \cap {0}
  BY DEF Parsed, PositionBits
<1> HIDE DEF p, s, m
<1>3. SequenceWord(p) = s
  <2>1. \A b \in Bits(32) : b \in ShiftLeft(p.m_controlFlag, 31) <=> b = 31 /\ 31 \in s
    BY <1>2 DEF ShiftLeft, Bits
  <2>2. \A b \in Bits(32) : b \in SequenceWord(p) <=> b \in s
    BY <1>2, <2>1 DEF SequenceWord, Bits
  <2>3. SequenceWord(p) \subseteq Bits(32)
    BY <1>2, ShiftTypes DEF SequenceWord, Bits
  <2> QED
    BY <1>1, <2>2, <2>3
<1>4. \A k \in {29, 30} : \A b \in Bits(32) :
        b \in ShiftLeft(ShiftRight(m, k), k) <=> b >= k /\ b \in m
  BY DEF ShiftLeft, ShiftRight, Bits
<1>5. \A b \in Bits(32) :
        b \in ShiftLeft(ShiftRight(m, 29) \cap {0}, 29) <=> b = 29 /\ b \in m
  BY DEF ShiftLeft, ShiftRight, Bits
<1>6. MessageWord(p) \subseteq Bits(32)
  BY <1>2, ShiftTypes DEF MessageWord, Bits
<1>7. \A b \in Bits(32) : b \in MessageWord(p) <=> b \in m
  <2> TAKE b \in Bits(32)
  <2>1. b \in Bits(29) <=> ~(b >= 29)
    BY DEF Bits
  <2>2. CASE 31 \in s
    <3>1. MessageWord(p) = ShiftLeft(ShiftRight(m, 29), 29) \cup (m \cap Bits(29))
      BY <1>2, <2>2 DEF MessageWord
    <3> QED
      BY <1>4, <2>1, <3>1
  <2>3. CASE 31 \notin s
    <3>1. MessageWord(p) = ShiftLeft(ShiftRight(m, 30), 30)
             \cup ShiftLeft(ShiftRight(m, 29) \cap {0}, 29) \cup (m \cap Bits(29))
      BY <1>2, <2>3 DEF MessageWord
    <3>2. b >= 29 => b = 29 \/ b >= 30
      BY DEF Bits
    <3> QED
      BY <1>4, <1>5, <2>1, <3>1, <3>2
  <2> QED
    BY <2>2, <2>3
<1> QED
  BY <1>1, <1>3, <1>6, <1>7 DEF p, s, m

-------------------------------------------------------------------------------
(***************************************************************************)
(* The invariant.                                                          *)
(***************************************************************************)
LEMMA InitHeaderInv == Init => HeaderInv
  BY DEF Init, HeaderInv, TypeOK, WireOfOrigin, ReadsOfWire

(* Constructing an object or setting a field takes nothing from the wire.  *)
LEMMA AssignKeepsInv ==
  ASSUME HeaderInv, NEW h \in Objects, NEW fields \in Headers, Assign(h, fields)
  PROVE  HeaderInv'
<1>1. TypeOK'
  BY DEF HeaderInv, TypeOK, Assign
<1>2. WireOfOrigin'
  BY DEF HeaderInv, WireOfOrigin, Assign
<1>3. ReadsOfWire'
  BY DEF HeaderInv, TypeOK, ReadsOfWire, Assign
<1> QED
  BY <1>1, <1>2, <1>3 DEF HeaderInv

(* A setter keeps every field within its width.                            *)
LEMMA SettersKeepInv ==
  ASSUME HeaderInv, NEW h \in Objects,
         \/ Construct(h)
         \/ \E port \in PortValues : SetDestinationPort(h, port)
         \/ \E port \in PortValues : SetSourcePort(h, port)
         \/ \E flag \in Bools : SetControlFlag(h, flag)
         \/ \E flag \in Octets : SetPositionFlag(h, flag)
         \/ \E bits \in Octets : SetTypeBits(h, bits)
         \/ \E flag \in Bools : SetInorderFlag(h, flag)
         \/ \E n \in Words : SetSequenceNumber(h, n)
         \/ \E n \in Words : SetMessageNumber(h, n)
         \/ \E n \in Lengths : ForcePayloadSize(h, n)
  PROVE  HeaderInv'
<1>1. header[h] \in Headers \cup {NoHeader}
  BY DEF HeaderInv, TypeOK
<1>2. ASSUME NEW fields, Set(h, fields), header[h] \in Headers => fields \in Headers
      PROVE  HeaderInv'
  BY <1>1, <1>2, AssignKeepsInv DEF Set
<1>3. \A n \in Bools : n \in SUBSET Bits(8)
  BY DEF Bools, Bits
<1>4. CASE Construct(h)
  BY <1>4, ConstructedType, AssignKeepsInv DEF Construct
<1>5. CASE \E port \in PortValues : SetDestinationPort(h, port)
  BY <1>2, <1>5, PortValuesAssumption DEF SetDestinationPort, Headers
<1>6. CASE \E port \in PortValues : SetSourcePort(h, port)
  BY <1>2, <1>6, PortValuesAssumption DEF SetSourcePort, Headers
<1>7. CASE \E flag \in Bools : SetControlFlag(h, flag)
  BY <1>2, <1>3, <1>7 DEF SetControlFlag, Headers
<1>8. CASE \E flag \in Octets : SetPositionFlag(h, flag)
  BY <1>2, <1>8, OctetsAssumption DEF SetPositionFlag, Headers
<1>9. CASE \E bits \in Octets : SetTypeBits(h, bits)
  BY <1>2, <1>9, OctetsAssumption DEF SetTypeBits, Headers
<1>10. CASE \E flag \in Bools : SetInorderFlag(h, flag)
  BY <1>2, <1>3, <1>10 DEF SetInorderFlag, Headers
<1>11. CASE \E n \in Words : SetSequenceNumber(h, n)
  <2>1. \A n \in Words : n \cap Bits(31) \in SUBSET Bits(32)
    BY WordsAssumption
  <2> QED
    BY <1>2, <1>11, <2>1 DEF SetSequenceNumber, Headers
<1>12. CASE \E n \in Words : SetMessageNumber(h, n)
  <2>1. \A n \in Words : n \cap Bits(33) \in SUBSET Bits(32)
    BY WordsAssumption
  <2> QED
    BY <1>2, <1>12, <2>1 DEF SetMessageNumber, Headers
<1>13. CASE \E n \in Lengths : ForcePayloadSize(h, n)
  BY <1>2, <1>13, LengthsAssumption DEF ForcePayloadSize, Headers
<1> QED
  BY <1>4, <1>5, <1>6, <1>7, <1>8, <1>9, <1>10, <1>11, <1>12, <1>13

LEMMA SerializeKeepsInv ==
  ASSUME HeaderInv, NEW h \in Objects, NEW n \in Sizes, Serialize(h, n)
  PROVE  HeaderInv'
<1>1. header[h] \in Headers /\ n \in Nat
  BY SizesAssumption DEF HeaderInv, TypeOK, Serialize
<1>2. wire' \in Wires
  BY <1>1, WrittenType DEF Serialize
<1>3. TypeOK'
  BY <1>1, <1>2 DEF HeaderInv, TypeOK, Serialize
<1>4. WireOfOrigin'
  BY <1>1 DEF WireOfOrigin, Serialize
<1>5. ReadsOfWire'
  BY DEF ReadsOfWire, Serialize
<1> QED
  BY <1>3, <1>4, <1>5 DEF HeaderInv

LEMMA DeserializeKeepsInv ==
  ASSUME HeaderInv, NEW h \in Objects, Deserialize(h)
  PROVE  HeaderInv'
<1>1. header[h] \in Headers /\ wire \in Wires /\ origin \in Headers /\ size \in Nat
  BY DEF HeaderInv, TypeOK, Deserialize
<1>2. Parsed(header[h], wire) \in Headers
  BY <1>1, ParsedType
<1>3. TypeOK'
  BY <1>1, <1>2 DEF HeaderInv, TypeOK, Deserialize
<1>4. WireOfOrigin'
  BY DEF HeaderInv, WireOfOrigin, Deserialize
<1>5. ReadsOfWire'
  <2> SUFFICES ASSUME NEW g \in reads'
               PROVE  wire' # NoWire /\ \E o \in Headers : header'[g] = Parsed(o, wire')
    BY DEF ReadsOfWire
  <2>1. CASE g = h
    BY <1>1, <2>1 DEF HeaderInv, TypeOK, Deserialize
  <2>2. CASE g # h
    BY <2>2 DEF HeaderInv, TypeOK, ReadsOfWire, Deserialize
  <2> QED
    BY <2>1, <2>2
<1> QED
  BY <1>3, <1>4, <1>5 DEF HeaderInv

LEMMA NextKeepsInv == HeaderInv /\ [Next]_vars => HeaderInv'
<1> SUFFICES ASSUME HeaderInv, [Next]_vars PROVE HeaderInv'
  OBVIOUS
<1>1. CASE UNCHANGED vars
  BY <1>1 DEF vars, HeaderInv, TypeOK, WireOfOrigin, ReadsOfWire
<1>2. CASE Next
  BY <1>2, SettersKeepInv, SerializeKeepsInv, DeserializeKeepsInv DEF Next
<1> QED
  BY <1>1, <1>2

LEMMA Invariance == Spec => []HeaderInv
  BY InitHeaderInv, NextKeepsInv, PTL DEF Spec

-------------------------------------------------------------------------------
(***************************************************************************)
(* What was read, in terms of what was written.                            *)
(***************************************************************************)
LEMMA ReadFields ==
  ASSUME HeaderInv, NEW h \in reads
  PROVE  /\ origin \in Headers /\ size \in Nat
         /\ wire \in Wires /\ wire = Written(origin, size)
         /\ \E o \in Headers : header[h] = Parsed(o, wire)
  BY DEF HeaderInv, TypeOK, WireOfOrigin, ReadsOfWire

(* Every field keeps to its declared width, whatever is set, written and   *)
(* read (rudp-header.h:137-152).                                           *)
THEOREM TypeCorrect == Spec => []TypeOK
  BY Invariance, PTL DEF HeaderInv

(* Numbers and flags that fit their fields are received as they were set   *)
(* (rudp-header.cc:193-202, 218-227).                                      *)
THEOREM RoundTrips == Spec => []RoundTrip
<1>1. HeaderInv => RoundTrip
  <2> SUFFICES ASSUME HeaderInv, NEW h \in reads, FlagsSet(origin), MessageFits(origin)
               PROVE  LET r == header[h] IN
                      /\ r.m_sequenceNumber = origin.m_sequenceNumber
                      /\ r.m_messageNumber = origin.m_messageNumber
                      /\ r.m_controlFlag = origin.m_controlFlag
                      /\ IsControl(origin) => r.m_typeBits = origin.m_typeBits
                      /\ ~IsControl(origin) =>
                           /\ r.m_positionFlag = origin.m_positionFlag
                           /\ r.m_inorderFlag = origin.m_inorderFlag
    BY DEF RoundTrip
  <2>1. PICK o \in Headers : header[h] = Parsed(o, wire)
    BY ReadFields
  <2>2. origin \in Headers /\ wire = Written(origin, size)
    BY ReadFields
  <2>3. /\ wire.sequenceWord = SequenceWord(origin)
        /\ wire.messageWord = MessageWord(origin)
    BY <2>2 DEF Written
  <2>4. /\ header[h].m_sequenceNumber = origin.m_sequenceNumber
        /\ header[h].m_controlFlag = origin.m_controlFlag
    BY <2>1, <2>2, <2>3, FirstWord DEF Parsed
  <2>5. (31 \in wire.sequenceWord) = IsControl(origin)
    BY <2>2, <2>3, FirstWord
  <2>6. header[h].m_messageNumber = origin.m_messageNumber
    BY <2>1, <2>2, <2>3, MessageWordSplits DEF Parsed, MessageFits
  <2>7. CASE IsControl(origin)
    <3>1. 31 \in wire.sequenceWord
      BY <2>5, <2>7
    <3>2. header[h].m_typeBits = ShiftRight(wire.messageWord, 29)
      BY <2>1, <3>1 DEF Parsed
    <3>3. ShiftRight(MessageWord(origin), 29) = origin.m_typeBits
      BY <2>2, <2>7, MessageWordSplits DEF MessageFits
    <3> QED
      BY <2>3, <2>4, <2>6, <2>7, <3>2, <3>3
  <2>8. CASE ~IsControl(origin)
    <3>1. 31 \notin wire.sequenceWord
      BY <2>5, <2>8
    <3>2. /\ header[h].m_positionFlag = PositionBits(wire.messageWord)
          /\ header[h].m_inorderFlag = ShiftRight(wire.messageWord, 29) \cap {0}
      BY <2>1, <3>1 DEF Parsed
    <3>3. /\ PositionBits(MessageWord(origin)) = origin.m_positionFlag
          /\ ShiftRight(MessageWord(origin), 29) \cap {0} = origin.m_inorderFlag
      BY <2>2, <2>8, MessageWordSplits DEF MessageFits
    <3> QED
      BY <2>3, <2>4, <2>6, <2>8, <3>2, <3>3
  <2> QED
    BY <2>7, <2>8
<1> QED
  BY <1>1, Invariance, PTL

(* Ports, sequence number and control flag arrive whatever overflows or    *)
(* was never set beside them (rudp-header.cc:49-79, 195, 217-218).         *)
THEOREM FirstWordsSurvive == Spec => []FirstWordSurvives
<1>1. HeaderInv => FirstWordSurvives
  <2> SUFFICES ASSUME HeaderInv, NEW h \in reads
               PROVE  LET r == header[h] IN
                      /\ r.m_sourcePort = origin.m_sourcePort
                      /\ r.m_destinationPort = origin.m_destinationPort
                      /\ FlagsSet(origin) =>
                           /\ r.m_sequenceNumber = origin.m_sequenceNumber
                           /\ r.m_controlFlag = origin.m_controlFlag
    BY DEF FirstWordSurvives
  <2>1. PICK o \in Headers : header[h] = Parsed(o, wire)
    BY ReadFields
  <2>2. origin \in Headers /\ wire = Written(origin, size)
    BY ReadFields
  <2>3. /\ wire.sequenceWord = SequenceWord(origin)
        /\ wire.sourcePort = origin.m_sourcePort
        /\ wire.destinationPort = origin.m_destinationPort
    BY <2>2 DEF Written
  <2>4. /\ header[h].m_sourcePort = origin.m_sourcePort
        /\ header[h].m_destinationPort = origin.m_destinationPort
    BY <2>1, <2>3 DEF Parsed
  <2>5. FlagsSet(origin) => /\ header[h].m_sequenceNumber = origin.m_sequenceNumber
                            /\ header[h].m_controlFlag = origin.m_controlFlag
    BY <2>1, <2>2, <2>3, FirstWord DEF Parsed
  <2> QED
    BY <2>4, <2>5
<1> QED
  BY <1>1, Invariance, PTL

(* A header passed on keeps both words, stale fields notwithstanding       *)
(* (rudp-header.cc:177-229).                                               *)
THEOREM Forwarding == Spec => []ForwardedUnchanged
<1>1. HeaderInv => ForwardedUnchanged
  BY ReadFields, ParsedWords DEF ForwardedUnchanged
<1> QED
  BY <1>1, Invariance, PTL

(* The receiver learns the number of bytes behind the header, up to the    *)
(* largest packet the 16-bit length can tell (rudp-header.cc:185-192, 214).*)
THEOREM PayloadLengths == Spec => []PayloadLengthArrives
<1> DEFINE AtLeastHeader == wire # NoWire => size >= 16
<1>1. Init => AtLeastHeader
  BY DEF Init
<1>2. AtLeastHeader /\ [Next]_vars => AtLeastHeader'
  BY SizesAssumption DEF Next, vars, Construct, Set, Assign, SetDestinationPort,
     SetSourcePort, SetControlFlag, SetPositionFlag, SetTypeBits, SetInorderFlag,
     SetSequenceNumber, SetMessageNumber, ForcePayloadSize, Serialize, Deserialize
<1>3. HeaderInv /\ AtLeastHeader => PayloadLengthArrives
  <2> SUFFICES ASSUME HeaderInv, AtLeastHeader, NEW h \in reads,
                      origin.m_payloadSize = 0, size <= 65535
               PROVE  header[h].m_payloadSize + GetSerializedSize = size
    BY DEF PayloadLengthArrives
  <2>1. PICK o \in Headers : header[h] = Parsed(o, wire)
    BY ReadFields
  <2>2. size \in Nat /\ size >= 16 /\ wire = Written(origin, size)
    BY ReadFields DEF HeaderInv, ReadsOfWire
  <2>3. wire.length = size
    BY <2>2 DEF Written, Length
  <2>4. header[h].m_payloadSize = (size - 16) % 65536
    BY <2>1, <2>3 DEF Parsed, GetSerializedSize
  <2> QED
    BY <2>2, <2>4 DEF GetSerializedSize
<1> QED
  BY <1>1, <1>2, <1>3, Invariance, PTL DEF Spec

===============================================================================
