----------------------------- MODULE MCRudpHeader -----------------------------
(***************************************************************************)
(* TLC instances of RudpHeader, at the real widths.  The numbers are at    *)
(* the edges of their fields: zero, the highest bit a field has, the first *)
(* bit beyond it.                                                          *)
(***************************************************************************)
EXTENDS RudpHeader

Zero == [m_sequenceNumber |-> {}, m_messageNumber |-> {}, m_typeBits |-> {},
         m_positionFlag |-> {}, m_inorderFlag |-> {}, m_controlFlag |-> {}]
Junk == [m_sequenceNumber |-> {0, 31}, m_messageNumber |-> {28, 29},
         m_typeBits |-> {0, 3}, m_positionFlag |-> {1, 2},
         m_inorderFlag |-> {1}, m_controlFlag |-> {5}]
ZeroOrJunk == {Zero, Junk}

EdgeWords == {{0, 28}, {29}, {30, 31}}
EdgeOctets == {{1}, {0, 2}}
EdgeSizes == {16, 48}
EdgeLengths == {0, 32}

===============================================================================
