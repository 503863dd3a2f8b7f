------------------------- MODULE MCParallelSearch -------------------------
(* Instances of ParallelSearch for TLC: one integer column with the values *)
(* 1 .. NumPoints, branched on by x <= k.                                  *)
EXTENDS ParallelProtocol, TLC

CONSTANTS NumPoints,       \* values of the integer column
          FeasiblePoints,  \* those the rows allow
          Step,            \* the objective step: every objective is a multiple
          Width,           \* how many neighbouring values share an objective
          TopBound,        \* the largest relaxation bound
          RelativeGap      \* mip_relative_gap in percent

MCPoints == 1 .. NumPoints
MCSplits == {1 .. k : k \in 1 .. NumPoints - 1}

\* The further up the column, the cheaper.
MCObj == [p \in MCPoints |-> Step * (1 + (NumPoints - p) \div Width)]

\* 0 stands for minus infinity: every objective is above it.
MCBounds == 0 .. TopBound
MCRounded == [b \in MCBounds |-> Step * ((b + Step - 1) \div Step)]

MCGapSlack ==
  [v \in 0 .. Step * NumPoints |->
     LET relative == (RelativeGap * v) \div 100 IN
     IF relative > Margin THEN relative ELSE Margin]

NoLimit == -1
WorkerSymmetry == Permutations(Workers)
==============================================================================
