------------------------------ MODULE MCJjProcess ------------------------------
(* Instances of JjProcess for TLC.                                         *)
EXTENDS JjProcess, TLC

\* Up to five blocks, more than a pipe holds, in every order.
UpToFive == UNION {[1..n -> Streams] : n \in 0..5}

===============================================================================
