-------------------------- MODULE MC_PartitionUpkeep --------------------------
(* An empty log, one whose first partition exists, and one partitioned on a  *)
(* grid the configuration has since left.                                    *)
EXTENDS PartitionUpkeep, TLC

CONSTANTS r1, r2, e1, e2

Extent(a, b) == [from |-> a, to |-> b]

MCWorlds  == {{}, {Extent(0, 2)}, {Extent(0, 3)}}
NoParts   == {{}}
MCSymmetry == Permutations(Replicas) \cup Permutations(Events)

===============================================================================
