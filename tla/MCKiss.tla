-------------------------------- MODULE MCKiss --------------------------------
(* CspKiss for TLC: bytes that need no escape, bytes that do, and a payload with *)
(* which the frame fills the packet.                                             *)
EXTENDS CspKiss

CONSTANT d

\* One that needs no escape but for one byte, and is like the data elsewhere.
Identifier == <<d, d, FEND, d, d, d>>

Short == <<d, d>>
Escapes == <<FESC, FEND, TFESC>>
Full == <<d, d, d, d, d, d, d>>
Sample == {Short, Escapes, Full}
==============================================================================
