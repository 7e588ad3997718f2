------------------------------ MODULE RudpHeader ------------------------------
(***************************************************************************)
(* RudpHeader: the header objects of the protocol, the words Serialize     *)
(* writes for them and what Deserialize reads back.                        *)
(*                                                                         *)
(* A word is the set of its bits that are one, bit 0 the least             *)
(* significant, at its real width: n | m is n \cup m, n & m is n \cap m,   *)
(* and bits shifted out are lost.  The 16-bit ports and lengths are        *)
(* numbers.  A bool is a byte: {0} when true, {} when false, anything else *)
(* only while it has never been assigned.                                  *)
(***************************************************************************)
EXTENDS Integers

CONSTANTS
  Objects,    \* header objects
  PortValues, \* the ports given to the setters
  Lengths,    \* the values ForcePayloadSize is given
  Sizes,      \* the sizes of the packets written, this header included
  Octets,     \* the values SetTypeBits and SetPositionFlag are given
  Words,      \* the values SetSequenceNumber and SetMessageNumber are given
  Leftovers,  \* what memory may hold in the fields the constructor skips
  Reused,     \* bound: the objects set again once a packet was written
  NoWire,     \* before anything was written
  NoHeader    \* an object that was not constructed yet

UInt16 == {n \in Nat : n < 65536}
Bits(width) == 0..(width - 1)
Bools == {{}, {0}}

(* Mutant of ShiftLeft: no bit is shifted out.                             *)
ShiftLeftWide(n, k) == {b + k : b \in n}

ShiftLeft(n, k) == {b \in Bits(32) : b - k \in n}
ShiftRight(n, k) == {b \in Bits(32) : b + k \in n}

\* The fields the constructor leaves as they are.
Uninitialised ==
  [m_sequenceNumber : SUBSET Bits(32), m_messageNumber : SUBSET Bits(32),
   m_typeBits : SUBSET Bits(8), m_positionFlag : SUBSET Bits(8),
   m_inorderFlag : SUBSET Bits(8), m_controlFlag : SUBSET Bits(8)]

ASSUME PortValuesAssumption == PortValues \subseteq UInt16
ASSUME LengthsAssumption == Lengths \subseteq UInt16
ASSUME SizesAssumption == \A n \in Sizes : n \in Nat /\ n >= 16
ASSUME OctetsAssumption == \A n \in Octets : n \subseteq Bits(8)
ASSUME WordsAssumption == \A n \in Words : n \subseteq Bits(32)
ASSUME LeftoversAssumption == Leftovers # {} /\ \A r \in Leftovers : r \in Uninitialised

VARIABLES
  header,  \* the fields of each object
  wire,    \* the bytes last written, as fields and words
  origin,  \* the fields of the object they were written from
  size,    \* the size of the packet they begin
  reads    \* the objects that are as Deserialize of those bytes left them

vars == <<header, wire, origin, size, reads>>

GetSerializedSize == 16

(* The constructor initialises the ports and the payload size only.        *)
Constructed(leftover) ==
  [m_sourcePort |-> 65533, m_destinationPort |-> 65533, m_payloadSize |-> 0,
   m_sequenceNumber |-> leftover.m_sequenceNumber,
   m_messageNumber |-> leftover.m_messageNumber,
   m_typeBits |-> leftover.m_typeBits,
   m_positionFlag |-> leftover.m_positionFlag,
   m_inorderFlag |-> leftover.m_inorderFlag,
   m_controlFlag |-> leftover.m_controlFlag]

Init ==
  /\ header = [h \in Objects |-> NoHeader]
  /\ wire = NoWire
  /\ origin = NoHeader
  /\ size = 0
  /\ reads = {}

-------------------------------------------------------------------------------
(***************************************************************************)
(* Setters.                                                                *)
(***************************************************************************)
Assign(h, fields) ==
  /\ header' = [header EXCEPT ![h] = fields]
  /\ reads' = reads \ {h}
  /\ UNCHANGED <<wire, origin, size>>

Construct(h) == \E r \in Leftovers : Assign(h, Constructed(r))

Set(h, fields) ==
  /\ header[h] # NoHeader
  /\ wire = NoWire \/ h \in Reused
  /\ Assign(h, fields)

SetDestinationPort(h, port) ==
  Set(h, [header[h] EXCEPT !.m_destinationPort = port])
SetSourcePort(h, port) == Set(h, [header[h] EXCEPT !.m_sourcePort = port])
SetControlFlag(h, flag) == Set(h, [header[h] EXCEPT !.m_controlFlag = flag])
SetPositionFlag(h, flag) == Set(h, [header[h] EXCEPT !.m_positionFlag = flag])
SetTypeBits(h, bits) == Set(h, [header[h] EXCEPT !.m_typeBits = bits])
SetInorderFlag(h, flag) == Set(h, [header[h] EXCEPT !.m_inorderFlag = flag])

SetSequenceNumber(h, n) ==
  Set(h, [header[h] EXCEPT !.m_sequenceNumber = n \cap Bits(31)])

(* The mask 0x1ffffffff has 33 bits: nothing of a 32-bit argument is cut.  *)
SetMessageNumber(h, n) ==
  Set(h, [header[h] EXCEPT !.m_messageNumber = n \cap Bits(33)])

ForcePayloadSize(h, n) == Set(h, [header[h] EXCEPT !.m_payloadSize = n])

-------------------------------------------------------------------------------
(***************************************************************************)
(* Serialize and Deserialize.                                              *)
(***************************************************************************)
(* Mutant of SequenceWord: the flag on the highest bit of the number.      *)
SequenceWordPacked(o) == ShiftLeft(o.m_controlFlag, 30) \cup o.m_sequenceNumber

SequenceWord(o) == ShiftLeft(o.m_controlFlag, 31) \cup o.m_sequenceNumber

(* Mutant of MessageWord: type and position bits one place too far.        *)
MessageWordPacked(o) ==
  IF o.m_controlFlag # {}
  THEN ShiftLeft(o.m_typeBits, 28) \cup o.m_messageNumber
  ELSE ShiftLeft(o.m_positionFlag, 29) \cup ShiftLeft(o.m_inorderFlag, 28)
         \cup o.m_messageNumber

MessageWord(o) ==
  IF o.m_controlFlag # {}
  THEN ShiftLeft(o.m_typeBits, 29) \cup o.m_messageNumber
  ELSE ShiftLeft(o.m_positionFlag, 30) \cup ShiftLeft(o.m_inorderFlag, 29)
         \cup o.m_messageNumber

(* Mutant of Length: the payload alone, as the field is named.             *)
LengthOfPayload(o, n) ==
  IF o.m_payloadSize = 0 THEN (n - 16) % 65536 ELSE o.m_payloadSize

(* A payload size of zero stands for the size of the whole packet.         *)
Length(o, n) == IF o.m_payloadSize = 0 THEN n % 65536 ELSE o.m_payloadSize

Written(o, n) ==
  [sourcePort |-> o.m_sourcePort, destinationPort |-> o.m_destinationPort,
   length |-> Length(o, n),
   sequenceWord |-> SequenceWord(o), messageWord |-> MessageWord(o)]

Serialize(h, n) ==
  /\ header[h] # NoHeader
  /\ wire' = Written(header[h], n)
  /\ origin' = header[h]
  /\ size' = n
  /\ reads' = {}
  /\ UNCHANGED header

(* Mutant of PositionBits: the in-order bit read as one of them.           *)
PositionBitsAndInorder(word) == ShiftRight(word, 29)

PositionBits(word) == ShiftRight(word, 30)

(* The fields of the other kind of packet keep what the object o had.      *)
Parsed(o, w) ==
  LET control == 31 \in w.sequenceWord IN
  [m_sourcePort |-> w.sourcePort,
   m_destinationPort |-> w.destinationPort,
   m_payloadSize |-> (w.length - GetSerializedSize) % 65536,
   m_sequenceNumber |-> w.sequenceWord \cap Bits(31),
   m_messageNumber |-> w.messageWord \cap Bits(29),
   m_controlFlag |-> IF control THEN {0} ELSE {},
   m_typeBits |->
     IF control THEN ShiftRight(w.messageWord, 29) ELSE o.m_typeBits,
   m_positionFlag |->
     IF control THEN o.m_positionFlag ELSE PositionBits(w.messageWord),
   m_inorderFlag |->
     IF control THEN o.m_inorderFlag
     ELSE ShiftRight(w.messageWord, 29) \cap {0}]

Deserialize(h) ==
  /\ header[h] # NoHeader
  /\ wire # NoWire
  /\ header' = [header EXCEPT ![h] = Parsed(header[h], wire)]
  /\ reads' = reads \cup {h}
  /\ UNCHANGED <<wire, origin, size>>

Next ==
  \E h \in Objects :
    \/ Construct(h)
    \/ \E port \in PortValues : SetDestinationPort(h, port)
    \/ \E port \in PortValues : SetSourcePort(h, port)
    \/ \E flag \in Bools : SetControlFlag(h, flag)
    \/ \E flag \in Octets : SetPositionFlag(h, flag)
    \/ \E bits \in Octets : SetTypeBits(h, bits)
    \/ \E flag \in Bools : SetInorderFlag(h, flag)
    \/ \E n \in Words : SetSequenceNumber(h, n)
    \/ \E n \in Words : SetMessageNumber(h, n)
    \/ \E n \in Lengths : ForcePayloadSize(h, n)
    \/ \E n \in Sizes : Serialize(h, n)
    \/ Deserialize(h)

Spec == Init /\ [][Next]_vars

-------------------------------------------------------------------------------
(***************************************************************************)
(* Properties.                                                             *)
(***************************************************************************)
Headers ==
  [m_sourcePort : UInt16, m_destinationPort : UInt16,
   m_payloadSize : UInt16,
   m_sequenceNumber : SUBSET Bits(32), m_messageNumber : SUBSET Bits(32),
   m_typeBits : SUBSET Bits(8), m_positionFlag : SUBSET Bits(8),
   m_inorderFlag : SUBSET Bits(8), m_controlFlag : SUBSET Bits(8)]

Wires ==
  [sourcePort : UInt16, destinationPort : UInt16, length : UInt16,
   sequenceWord : SUBSET Bits(32), messageWord : SUBSET Bits(32)]

(* Every field fits the width it is declared with (rudp-header.h:137-152), *)
(* what Deserialize puts into the 8-bit ones included.                     *)
TypeOK ==
  /\ header \in [Objects -> Headers \cup {NoHeader}]
  /\ \/ wire = NoWire /\ origin = NoHeader /\ size = 0 /\ reads = {}
     \/ wire \in Wires /\ origin \in Headers /\ size \in Nat
  /\ reads \subseteq Objects

IsControl(o) == o.m_controlFlag # {}

(* What a field of the word can hold: the flags assigned, three type bits, *)
(* two position bits, 29 bits of message number.                           *)
FlagsSet(o) ==
  /\ o.m_controlFlag \in Bools
  /\ o.m_sequenceNumber \subseteq Bits(31)

MessageFits(o) ==
  /\ o.m_messageNumber \subseteq Bits(29)
  /\ IsControl(o) => o.m_typeBits \subseteq Bits(3)
  /\ ~IsControl(o) => /\ o.m_positionFlag \subseteq Bits(2)
                      /\ o.m_inorderFlag \in Bools

(* What a sender sets is what the receiver gets, into whatever object it   *)
(* reads: the numbers, the kind of packet and the fields of that kind,     *)
(* packed side by side into two words (rudp-header.cc:193-202, 218-227).   *)
RoundTrip ==
  \A h \in reads :
    LET r == header[h] IN
    FlagsSet(origin) /\ MessageFits(origin) =>
      /\ r.m_sequenceNumber = origin.m_sequenceNumber
      /\ r.m_messageNumber = origin.m_messageNumber
      /\ r.m_controlFlag = origin.m_controlFlag
      /\ IsControl(origin) => r.m_typeBits = origin.m_typeBits
      /\ ~IsControl(origin) => /\ r.m_positionFlag = origin.m_positionFlag
                               /\ r.m_inorderFlag = origin.m_inorderFlag

(* Whatever else is out of range or never set, it does not reach the ports *)
(* the protocol demultiplexes by, the sequence number or the control flag  *)
(* (rudp-header.cc:49-79, 195, 217-218).                                   *)
FirstWordSurvives ==
  \A h \in reads :
    LET r == header[h] IN
    /\ r.m_sourcePort = origin.m_sourcePort
    /\ r.m_destinationPort = origin.m_destinationPort
    /\ FlagsSet(origin) =>
         /\ r.m_sequenceNumber = origin.m_sequenceNumber
         /\ r.m_controlFlag = origin.m_controlFlag

(* An object that was read writes the same two words again, stale and      *)
(* uninitialised fields notwithstanding: passing a header on changes       *)
(* neither its numbers nor its flags (rudp-header.cc:177-229).             *)
ForwardedUnchanged ==
  \A h \in reads :
    /\ SequenceWord(header[h]) = wire.sequenceWord
    /\ MessageWord(header[h]) = wire.messageWord

(* If no length was forced, the receiver learns the bytes that follow the  *)
(* header, as long as the packet's size fits the 16-bit field              *)
(* (rudp-header.cc:185-192, 214).                                          *)
PayloadLengthArrives ==
  \A h \in reads :
    origin.m_payloadSize = 0 /\ size <= 65535 =>
      header[h].m_payloadSize + GetSerializedSize = size

===============================================================================
