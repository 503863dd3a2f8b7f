--------------------------- MODULE MCWorkSharing ---------------------------
(* Instances of WorkSharing for TLC. *)
EXTENDS WorkSharing, TLC

NoLimit == -1
WorkerSymmetry == Permutations(Workers)
==============================================================================
