------------------------------- MODULE KdTree -------------------------------
(***************************************************************************)
(* The kd-trees of index files (fl-index, kdtree.rs): what parse accepts,  *)
(* and how the tables of a tree are read.                                  *)
(*                                                                         *)
(* A tree is the header's numbers and its tables, any of which may be      *)
(* missing.  Nodes and data are numbered from 0, as in the file: node n    *)
(* has children 2n+1 and 2n+2, the last nodes are leaves.  Coordinates are *)
(* packed integers, so that invscale is 1 and minval 0: one packing step   *)
(* is the unit of queries and radii.                                       *)
(***************************************************************************)
EXTENDS Integers, Sequences, FiniteSetsExt, Lists

Has(tree, table) == table \in DOMAIN tree.tables

\* Element i of a table, counted from 0.
Entry(tree, table, i) == tree.tables[table][i + 1]

\* A tree as the file gives it: the numbers of the tables are unsigned, splits
\* and coordinates may be floats and then of either sign.
IsTree(tree) ==
  /\ {tree.ndim, tree.nnodes, tree.ndata} \subseteq Nat
  /\ {tree.linear, tree.floats} \subseteq BOOLEAN
  /\ Has(tree, "data") => tree.tables["data"] \in Seq([1 .. tree.ndim -> Int])
  /\ Has(tree, "split") => tree.tables["split"] \in Seq(Int)
  /\ \A table \in {"splitdim", "lr", "perm"} :
       Has(tree, table) => tree.tables[table] \in Seq(Nat)

NBottom(tree) == (tree.nnodes + 1) \div 2
NInterior(tree) == tree.nnodes - NBottom(tree)

IsPowerOfTwo(n) == \E k \in 0 .. n : n = 2^k

\* KdTree::parse: a complete tree, tables of the right length, and the leaf
\* ranges given in one of two ways.  Splits may be missing, or be floats
\* without a table of dimensions.
Parses(tree) ==
  /\ IsPowerOfTwo(NBottom(tree)) /\ tree.nnodes = 2 * NBottom(tree) - 1
  /\ tree.ndim \in 1 .. 8
  /\ Has(tree, "data") /\ Len(tree.tables["data"]) = tree.ndata
  /\ Has(tree, "split") => Len(tree.tables["split"]) = NInterior(tree)
  /\ Has(tree, "lr") => Len(tree.tables["lr"]) = NBottom(tree)
  /\ Has(tree, "lr") \/ tree.linear
  /\ Has(tree, "perm") => Len(tree.tables["perm"]) = tree.ndata

\* The low bits of a split hold its dimension: so many values.
DimValues(tree) ==
  IF Has(tree, "splitdim") THEN 1 ELSE Min({v \in {1, 2, 4, 8} : tree.ndim <= v})

\* Forgets that masking moved the plane.
MutSplitEps(tree) == IF tree.floats THEN 0 ELSE 1

\* What masking and rounding may have moved a split by, and one step more.
SplitEps(tree) == IF tree.floats THEN 0 ELSE DimValues(tree) + 1

\* Takes the table at its word.
MutLeafRange(tree, node) ==
  LET leaf == node - NInterior(tree)
      n == NBottom(tree)
  IN IF tree.linear
     THEN [left |-> (leaf * tree.ndata) \div n, right |-> ((leaf + 1) * tree.ndata) \div n]
     ELSE [left |-> IF leaf = 0 THEN 0 ELSE Entry(tree, "lr", leaf - 1) + 1,
           right |-> Entry(tree, "lr", leaf) + 1]

\* leaf_range: the data of a leaf, from left to before right; linear_lr wins
\* over a table.
LeafRange(tree, node) ==
  LET leaf == node - NInterior(tree)
      n == NBottom(tree)
  IN IF tree.linear
     THEN [left |-> (leaf * tree.ndata) \div n, right |-> ((leaf + 1) * tree.ndata) \div n]
     ELSE [left |-> IF leaf = 0 THEN 0 ELSE Entry(tree, "lr", leaf - 1) + 1,
           right |-> Min({Entry(tree, "lr", leaf) + 1, tree.ndata})]

LeafData(tree, node) == LeafRange(tree, node).left .. LeafRange(tree, node).right - 1

\* split_plane panics: there are no splits, or no way to tell the dimension.
NoPlane(tree) ==
  \/ ~Has(tree, "split")
  \/ tree.floats /\ ~Has(tree, "splitdim")

\* split_plane: the dimension and the place of a node's plane.
SplitPlane(tree, node) ==
  LET raw == Entry(tree, "split", node)
      dim == raw % DimValues(tree)
  IN IF Has(tree, "splitdim")
     THEN [dim |-> Entry(tree, "splitdim", node), val |-> raw]
     ELSE [dim |-> dim, val |-> raw - dim]

Dist2(p, q) ==
  RunningSum([d \in DOMAIN p |-> (p[d] - q[d]) * (p[d] - q[d])], Len(p))[Len(p)]

\* The index a search reports for datum i.
Reported(tree, i) == IF Has(tree, "perm") THEN Entry(tree, "perm", i) ELSE i

-----------------------------------------------------------------------------
(* External: how libkd writes the trees of an index.                        *)

\* The data of the leaves below each node.
DataBelow(tree) ==
  LET below[node \in 0 .. tree.nnodes - 1] ==
        IF node >= NInterior(tree) THEN LeafData(tree, node)
        ELSE below[2 * node + 1] \cup below[2 * node + 2]
  IN below

\* Every datum lies on its side of every plane above it, give or take one step
\* of rounding if planes are packed; overwriting the low bits with the
\* dimension then moves the plane by up to DimValues - 1, to either side.
\* Leaf ranges follow each other without a gap.
WellFormed(tree) ==
  LET rounding == IF tree.floats THEN 0 ELSE 1
      At(i, dim) == tree.tables["data"][i + 1][dim + 1]
      below == DataBelow(tree)
  IN /\ Has(tree, "split") /\ (tree.floats => Has(tree, "splitdim"))
     /\ Has(tree, "splitdim") => Len(tree.tables["splitdim"]) = NInterior(tree)
     /\ ~tree.linear =>
          LET lr == tree.tables["lr"]
          IN /\ \A l \in 1 .. Len(lr) - 1 : lr[l] <= lr[l + 1]
             /\ lr[Len(lr)] = tree.ndata - 1
     /\ \A node \in 0 .. NInterior(tree) - 1 :
          LET plane == SplitPlane(tree, node)
          IN /\ plane.dim < tree.ndim
             /\ \E val \in plane.val .. plane.val + DimValues(tree) - 1 :
                  /\ \A i \in below[2 * node + 1] : At(i, plane.dim) <= val + rounding
                  /\ \A i \in below[2 * node + 2] : At(i, plane.dim) >= val - rounding
=============================================================================
