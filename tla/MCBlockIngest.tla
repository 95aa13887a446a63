---------------------------- MODULE MCBlockIngest ----------------------------
(***************************************************************************)
(* Instances of BlockIngest for TLC.                                       *)
(***************************************************************************)
EXTENDS BlockIngest, TLC

CONSTANTS p1, p2, s1, s2, s3, f1, old, new

\* Two blocks.  The first may be the one in which the new pair is found, and
\* be reorganised into one with a swap that may not fit.  The second, when it
\* is reorganised, keeps a swap of the new pair and gains one of the old.
MCBlock ==
  [h \in 1..2 |->
     CASE h = 1 -> [b \in 0..1 |-> IF b = 0 THEN <<f1>> ELSE <<s1>>]
       [] OTHER -> [b \in 0..1 |-> IF b = 0 THEN <<s2>> ELSE <<s2, s3>>]]
MCPairOf == [e \in Events |-> IF e \in {f1, s2} THEN new ELSE old]
=============================================================================
