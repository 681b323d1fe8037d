----------------------------- MODULE IndexFiles -----------------------------
(***************************************************************************)
(* The index files of the engine (fl-index, and prewarm of fl-solve's      *)
(* engine.rs): a directory is opened, the files are sorted, prefetched     *)
(* within the cache budget, and their trees searched.  Every solve         *)
(* prefetches again for the scale it found.                                *)
(***************************************************************************)
EXTENDS KdTree, SequencesExt

CONSTANTS
  Directories,  \* the index directories: sequences of files in path order, each
                \* [bytes, id, lower, upper, dimquads, nquads, nstars, quads, codes, stars]
  Bands,        \* the scale a prefetch is for: <<>>, or <<[lo, hi]>>
  Budget,       \* the cache budget, in bytes
  Narrow, Broad,  \* the smallest and largest extent of a quad, in pixels
  Queries(_),   \* the points looked up in a tree of so many dimensions
  Radii,        \* and how far around them
  MaxPrewarms   \* bound: prefetches

ASSUME IndexAssumption ==
  /\ \A d \in Directories :
       /\ Len(d) \in Nat /\ DOMAIN d = 1 .. Len(d)
       /\ \A i \in DOMAIN d : d[i].bytes \in Nat /\ IsTree(d[i].codes) /\ IsTree(d[i].stars)
  /\ Budget \in Nat /\ Radii \subseteq Nat
  /\ \A ndim \in 1 .. 8 : Queries(ndim) \subseteq [1 .. ndim -> Int]

VARIABLES
  dir,       \* the files of the directory
  phase,     \* "open", "opened", "failed", "warming", "ready", "searching", "panic"
  files,     \* the positions in dir of the opened files: IndexCache.indexes
  next,      \* the file to open, or the place in order to prefetch
  order,     \* the priority of the prefetch, places in files
  band,      \* the scale it is for
  warm,      \* the files prefetched, places in files
  prewarms,  \* prefetches so far
  search,    \* the search at hand: [tree, query, radius], or nothing yet
  stack,     \* nodes to visit
  out        \* what the search found

vars == <<dir, phase, files, next, order, band, warm, prewarms, search, stack, out>>
cacheVars == <<dir, files, next, order, band, warm, prewarms>>
searchVars == <<search, stack, out>>

NoSearch == [tree |-> <<>>, query |-> <<>>, radius |-> 0]

Init ==
  /\ dir \in Directories
  /\ phase = "open" /\ files = <<>> /\ next = 1
  /\ order = <<>> /\ band = <<>> /\ warm = {} /\ prewarms = 0
  /\ search = NoSearch /\ stack = <<>> /\ out = <<>>

-----------------------------------------------------------------------------
(* IndexCache::open_dir                                                     *)

\* IndexFile::open: both trees parse, and everything has the same size.
Opens(file) ==
  /\ Parses(file.codes) /\ Parses(file.stars)
  /\ file.codes.ndim = 2 * (file.dimquads - 2)
  /\ file.stars.ndim = 3
  /\ file.codes.ndata = file.nquads /\ file.stars.ndata = file.nstars
  /\ file.dimquads \in 3 .. 5
  /\ Len(file.quads) = file.nquads

\* A file that does not open is skipped.
OpenFile ==
  /\ phase = "open" /\ next <= Len(dir)
  /\ files' = IF Opens(dir[next]) THEN Append(files, next) ELSE files
  /\ next' = next + 1
  /\ UNCHANGED <<dir, phase, order, band, warm, prewarms, searchVars>>

\* Finest quads first, then by id; equal ones stay in path order.
Finer(f, g) ==
  \/ dir[f].lower < dir[g].lower
  \/ dir[f].lower = dir[g].lower /\ dir[f].id < dir[g].id
  \/ dir[f].lower = dir[g].lower /\ dir[f].id = dir[g].id /\ f < g

Sorted(seq) ==
  {s \in [DOMAIN seq -> ToSet(seq)] : \A i, j \in DOMAIN seq : i < j => Finer(s[i], s[j])}

DirectoryRead ==
  /\ phase = "open" /\ next > Len(dir)
  /\ files' \in Sorted(files)
  /\ phase' = IF files = <<>> THEN "failed" ELSE "opened"
  /\ UNCHANGED <<dir, next, order, band, warm, prewarms, searchVars>>

-----------------------------------------------------------------------------
(* Engine::prewarm, IndexCache::prewarm                                     *)

\* Quads a usual image could contain at this scale.
Relevant(i, b) ==
  \A n \in DOMAIN b :
    /\ dir[files[i]].upper >= b[n].lo * Narrow
    /\ dir[files[i]].lower <= b[n].hi * Broad

\* Relevant files first, either kind in the order of the cache.
Priority(b) ==
  LET all == [i \in DOMAIN files |-> i]
      relevant == {i \in DOMAIN files : Relevant(i, b)}
  IN Retain(all, relevant) \o Retain(all, DOMAIN files \ relevant)

\* At start-up for the configured scale, if there is one; then for the scale of
\* every solution.
BeginPrewarm ==
  /\ \/ phase = "opened"
     \/ phase = "ready" /\ search # NoSearch
  /\ prewarms < MaxPrewarms
  /\ band' \in IF phase = "opened" THEN Bands ELSE Bands \ {<<>>}
  /\ order' = Priority(band')
  /\ next' = 1 /\ warm' = {} /\ prewarms' = prewarms + 1
  /\ phase' = "warming"
  /\ UNCHANGED <<dir, files, searchVars>>

\* The size of some of the files.
Bytes(some) ==
  LET n == Len(files)
  IN RunningSum([i \in 1 .. n |-> IF i \in some THEN dir[files[i]].bytes ELSE 0], n)[n]

\* Stops counting what is there already.
MutFits(i) == dir[files[i]].bytes <= Budget

Fits(i) == Bytes(warm) + dir[files[i]].bytes <= Budget

\* A file that does not fit is passed over; a later, smaller one may fit.
PrewarmFile ==
  /\ phase = "warming" /\ next <= Len(order)
  /\ warm' = IF Fits(order[next]) THEN warm \cup {order[next]} ELSE warm
  /\ next' = next + 1
  /\ UNCHANGED <<dir, phase, files, order, band, prewarms, searchVars>>

PrewarmEnds ==
  /\ phase = "warming" /\ next > Len(order)
  /\ phase' = "ready"
  /\ UNCHANGED <<cacheVars, searchVars>>

-----------------------------------------------------------------------------
(* KdTree::range_search                                                     *)

\* Searches share nothing, so one is enough (a bound).
BeginSearch ==
  /\ phase = "ready" /\ search = NoSearch
  /\ \E i \in DOMAIN files, radius \in Radii :
     \E tree \in {dir[files[i]].codes, dir[files[i]].stars} :
     \E query \in Queries(tree.ndim) :
       search' = [tree |-> tree, query |-> query, radius |-> radius]
  /\ stack' = <<0>> /\ out' = <<>>
  /\ phase' = "searching"
  /\ UNCHANGED cacheVars

Node == Last(stack)
IsLeaf(tree, node) == node >= NInterior(tree)

Near(tree, query, radius, i) == Dist2(tree.tables["data"][i + 1], query) <= radius * radius

VisitLeaf ==
  LET tree == search.tree
      left == LeafRange(tree, Node).left
      right == LeafRange(tree, Node).right
      places == 1 .. IF left < right THEN right - left ELSE 0
      all == [n \in places |-> Reported(tree, left + n - 1)]
      near == {n \in places : Near(tree, search.query, search.radius, left + n - 1)}
  IN /\ phase = "searching" /\ stack # <<>> /\ IsLeaf(tree, Node)
     /\ out' = out \o Retain(all, near)
     /\ stack' = Front(stack)
     /\ UNCHANGED <<cacheVars, phase, search>>

\* Both children, if the ball reaches over the plane.
Reached(tree, node) ==
  LET plane == SplitPlane(tree, node)
      q == search.query[plane.dim + 1]
      left == IF q - search.radius <= plane.val + SplitEps(tree) THEN <<2 * node + 1>> ELSE <<>>
      right == IF q + search.radius >= plane.val - SplitEps(tree) THEN <<2 * node + 2>> ELSE <<>>
  IN left \o right

\* No plane to go by, or one of a dimension the tree does not have.
Panics(tree, node) ==
  ~NoPlane(tree) => SplitPlane(tree, node).dim >= tree.ndim

VisitInterior ==
  /\ phase = "searching" /\ stack # <<>> /\ ~IsLeaf(search.tree, Node)
  /\ ~Panics(search.tree, Node)
  /\ stack' = Front(stack) \o Reached(search.tree, Node)
  /\ UNCHANGED <<cacheVars, phase, search, out>>

Panic ==
  /\ phase = "searching" /\ stack # <<>> /\ ~IsLeaf(search.tree, Node)
  /\ Panics(search.tree, Node)
  /\ phase' = "panic"
  /\ UNCHANGED <<cacheVars, searchVars>>

SearchEnds ==
  /\ phase = "searching" /\ stack = <<>>
  /\ phase' = "ready"
  /\ UNCHANGED <<cacheVars, searchVars>>

Next ==
  \/ OpenFile
  \/ DirectoryRead
  \/ BeginPrewarm
  \/ PrewarmFile
  \/ PrewarmEnds
  \/ BeginSearch
  \/ VisitLeaf
  \/ VisitInterior
  \/ Panic
  \/ SearchEnds

Spec == Init /\ [][Next]_vars

-----------------------------------------------------------------------------
\* A search of a tree as libkd writes it finds what a scan of all points finds,
\* each point once, although planes lost their low bits to the dimension and
\* subtrees are pruned (the claim of tests/golden.rs).
SearchIsExact ==
  LET tree == search.tree
      scan == {i \in 0 .. tree.ndata - 1 : Near(tree, search.query, search.radius, i)}
  IN phase = "ready" /\ search # NoSearch /\ WellFormed(tree) =>
       /\ ToSet(out) = {Reported(tree, i) : i \in scan}
       /\ Len(out) = Cardinality(scan)

\* No search reads past the end of the data, whatever leaf ranges a file that
\* parses may hold.
ReadsStayInside ==
  phase = "searching" /\ stack # <<>> /\ IsLeaf(search.tree, Node) =>
    LeafData(search.tree, Node) \subseteq 0 .. search.tree.ndata - 1

\* The budget goes where it serves: never exceeded, and at the end a file is
\* cold only if the warm files of its own kind or better leave no room for it.
BudgetWellSpent ==
  /\ Bytes(warm) <= Budget
  /\ phase = "ready" =>
       \A i \in DOMAIN files \ warm :
         LET rivals == {j \in warm : Relevant(i, band) => Relevant(j, band)}
         IN Bytes(rivals) + dir[files[i]].bytes > Budget
=============================================================================
