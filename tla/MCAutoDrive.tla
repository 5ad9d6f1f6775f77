---------------------------- MODULE MCAutoDrive -----------------------------
EXTENDS AutoDrive

Narrow == [model |-> "narrow", image |-> "small"]
Large == [model |-> "narrow", image |-> "large"]
Wide == [model |-> "wide", image |-> "small"]
AllConfigs == {Narrow, Large, Wide}
WideOnly == {Wide}

(* Blocks of two numbers: 0 and 1, 2.  Image 2 shows what image 0 shows.   *)
TwoBlocks == {[number |-> 0, frame |-> 1], [number |-> 1, frame |-> 2], [number |-> 2, frame |-> 1]}
=============================================================================
