------------------------------- MODULE MCBridge -------------------------------
(* CspBridge for TLC.                                                         *)
EXTENDS CspBridge, TLC

CONSTANTS C, c1, c2, c3, c4

\* What comes from B, or from an interface that is not bridged, is a repeat of what
\* comes from A, or the other way round.
Mixed == [iface : {A}, crc : {c1, c2, c3, c4}] \cup [iface : {B, C}, crc : {c4}]

\* Checksums are only compared; that of an entry never written is apart.
Symmetry == Permutations({c1, c2, c3})
==============================================================================
