--------------------------- MODULE MCFileTransfer ----------------------------
(* Instances of FileTransfer for TLC.                                      *)
EXTENDS FileTransfer

\* Files of 0 to 7 bytes: none, one, two and three chunks; blocks that end
\* before, at and after the length field.
Files == {[i \in 1..n |-> IF i % 3 = 1 THEN One ELSE Zero] : n \in 0..7}
=============================================================================
