---------------------------- MODULE StarExtract ----------------------------
(***************************************************************************)
(* Star detection (fl-extract, simplexy.rs: extract_stars): one pass over  *)
(* the pixels labels the connected components above the threshold with a   *)
(* union-find forest, a second measures the components, and those that     *)
(* look like stars are returned, brightest first.                          *)
(*                                                                         *)
(* An image is what background subtraction and smoothing leave: a value a  *)
(* pixel, pixels numbered row by row from 1.  FITS images of floats have   *)
(* pixels without a value, and smoothing spreads them: a NaN is above      *)
(* every threshold, as the code compares, and brighter than nothing.       *)
(***************************************************************************)
EXTENDS Integers, Sequences, FiniteSets, SequencesExt, FiniteSetsExt, Lists

CONSTANTS
  Width, Height,   \* of the image
  Images,          \* sequences of Width * Height values
  Limit,           \* the threshold
  PosNaN, NegNaN,  \* as total_cmp orders them: above, below every number
  MaxPixels,       \* max_obj_pixels
  MaxStars         \* max_stars

Pixels == 1 .. Width * Height
NaNs == {PosNaN, NegNaN}

\* The light of some pixels of an image.
Light(image, some) ==
  RunningSum([p \in Pixels |-> IF p \in some THEN image[p] ELSE 0], Width * Height)[Width * Height]

\* Values and their sums are told from NaNs.
ASSUME ExtractAssumption ==
  /\ Width \in Nat \ {0} /\ Height \in Nat \ {0}
  /\ Images \subseteq [Pixels -> Int]
  /\ Limit \in Nat /\ PosNaN \in Nat /\ NegNaN \in Int \ Nat
  /\ \A image \in Images : Light(image, {p \in Pixels : image[p] \in Nat \ NaNs}) < PosNaN
  /\ MaxPixels \in Nat /\ MaxStars \in Nat

VARIABLES
  value,    \* the image
  pc,       \* "label", "measure", "done"
  k,        \* the pixel the pass is at
  label,    \* the label of each pixel; 0: none
  parent,   \* the forest: the parent of each label
  cursors,  \* the calls of find for this pixel: where each has got to
  comps,    \* what has been measured of each component
  stars     \* the result

vars == <<value, pc, k, label, parent, cursors, comps, stars>>

X(p) == (p - 1) % Width
Y(p) == (p - 1) \div Width

Bright(p) == value[p] \in NaNs \/ value[p] > Limit

\* The labels of the pixel to the left and of the one above, if they have any.
Left(p) == IF X(p) > 0 /\ label[p - 1] # 0 THEN <<label[p - 1]>> ELSE <<>>
Above(p) == IF Y(p) > 0 /\ label[p - Width] # 0 THEN <<label[p - Width]>> ELSE <<>>
Neighbours(p) == Left(p) \o Above(p)

NoComp == [peak |-> NegNaN, at |-> 1, flux |-> 0, npix |-> 0]

Init ==
  /\ value \in Images
  /\ pc = "label" /\ k = 1
  /\ label = [p \in Pixels |-> 0]
  /\ parent = <<>> /\ cursors = <<>> /\ comps = <<>> /\ stars = <<>>

-----------------------------------------------------------------------------
(* find                                                                     *)

AtRoots == \A i \in DOMAIN cursors : parent[cursors[i]] = cursors[i]

\* The calls come one after the other; each halves the path it walks.
Find ==
  /\ \E i \in DOMAIN cursors :
       /\ parent[cursors[i]] # cursors[i]
       /\ \A j \in 1 .. i - 1 : parent[cursors[j]] = cursors[j]
       /\ LET grandparent == parent[parent[cursors[i]]]
          IN /\ parent' = [parent EXCEPT ![cursors[i]] = grandparent]
             /\ cursors' = [cursors EXCEPT ![i] = grandparent]
  /\ UNCHANGED <<value, pc, k, label, comps, stars>>

-----------------------------------------------------------------------------
(* The first pass.                                                          *)

NextPixel(l) ==
  /\ label' = [label EXCEPT ![k] = l]
  /\ k' = k + 1
  /\ cursors' = <<>>
  /\ UNCHANGED <<value, pc, comps, stars>>

Dark ==
  /\ pc = "label" /\ k \in Pixels
  /\ ~Bright(k)
  /\ NextPixel(0)
  /\ UNCHANGED parent

NewLabel ==
  /\ pc = "label" /\ k \in Pixels
  /\ Bright(k) /\ Neighbours(k) = <<>>
  /\ parent' = Append(parent, Len(parent) + 1)
  /\ NextPixel(Len(parent) + 1)

StartFind ==
  /\ pc = "label" /\ k \in Pixels
  /\ Bright(k) /\ Neighbours(k) # <<>> /\ cursors = <<>>
  /\ cursors' = Neighbours(k)
  /\ UNCHANGED <<value, pc, k, label, parent, comps, stars>>

Lower(l, m) == IF l < m THEN l ELSE m
Higher(l, m) == IF l < m THEN m ELSE l

\* The component of the pixel above keeps its root.
MutJoined(l, m) == parent

\* The higher of two roots goes under the lower.
Joined(l, m) == [parent EXCEPT ![Higher(l, m)] = Lower(l, m)]

Join ==
  /\ pc = "label" /\ cursors # <<>> /\ AtRoots
  /\ LET l == cursors[1]
         m == cursors[Len(cursors)]
     IN /\ parent' = Joined(l, m)
        /\ NextPixel(Lower(l, m))

Labelled ==
  /\ pc = "label" /\ k \notin Pixels
  /\ pc' = "measure" /\ k' = 1
  /\ comps' = [l \in DOMAIN parent |-> NoComp]
  /\ UNCHANGED <<value, label, parent, cursors, stars>>

-----------------------------------------------------------------------------
(* The second pass.                                                         *)

\* A sum with a NaN is the NaN.
Plus(x, y) == IF x \in NaNs THEN x ELSE IF y \in NaNs THEN y ELSE x + y

\* Nothing beats with a NaN; a component starts below every value.
Beats(v, peak) == v \notin NaNs /\ (peak = NegNaN \/ v > peak)

With(comp, p) ==
  [flux |-> Plus(comp.flux, value[p]),
   npix |-> comp.npix + 1,
   peak |-> IF Beats(value[p], comp.peak) THEN value[p] ELSE comp.peak,
   at |-> IF Beats(value[p], comp.peak) THEN p ELSE comp.at]

Unlabelled ==
  /\ pc = "measure" /\ k \in Pixels /\ label[k] = 0
  /\ k' = k + 1
  /\ UNCHANGED <<value, pc, label, parent, cursors, comps, stars>>

LookUp ==
  /\ pc = "measure" /\ k \in Pixels /\ label[k] # 0 /\ cursors = <<>>
  /\ cursors' = <<label[k]>>
  /\ UNCHANGED <<value, pc, k, label, parent, comps, stars>>

Measure ==
  /\ pc = "measure" /\ cursors # <<>> /\ AtRoots
  /\ comps' = [comps EXCEPT ![cursors[1]] = With(@, k)]
  /\ k' = k + 1
  /\ cursors' = <<>>
  /\ UNCHANGED <<value, pc, label, parent, stars>>

OnBorder(p) == X(p) = 0 \/ Y(p) = 0 \/ X(p) = Width - 1 \/ Y(p) = Height - 1

\* A root with pixels, not too many, whose peak has pixels all around.
IsStar(l) ==
  /\ comps[l].npix # 0 /\ parent[l] = l
  /\ comps[l].npix <= MaxPixels
  /\ ~OnBorder(comps[l].at)

\* The first stars in the order of the labels.
MutBrightest(found) == {SubSeq(found, 1, Lower(Len(found), MaxStars))}

\* A stable sort by flux, and the first MaxStars.
Brightest(found) ==
  LET all == DOMAIN found
      Before(i, j) == found[i].flux > found[j].flux \/ (found[i].flux = found[j].flux /\ i < j)
      sorted == {order \in [all -> all] : \A i, j \in all : i < j => Before(order[i], order[j])}
  IN {[n \in 1 .. Lower(Len(found), MaxStars) |-> found[order[n]]] : order \in sorted}

Collect ==
  /\ pc = "measure" /\ k \notin Pixels
  /\ LET all == [l \in DOMAIN parent |-> [at |-> comps[l].at, flux |-> comps[l].flux]]
     IN stars' \in Brightest(Retain(all, {l \in DOMAIN parent : IsStar(l)}))
  /\ pc' = "done"
  /\ UNCHANGED <<value, k, label, parent, cursors, comps>>

Next ==
  \/ Find \/ Dark \/ NewLabel \/ StartFind \/ Join \/ Labelled
  \/ Unlabelled \/ LookUp \/ Measure \/ Collect

Spec == Init /\ [][Next]_vars

-----------------------------------------------------------------------------
(* What the labels should say: the components of the pixels up to n.        *)

Adjacent(p, q) ==
  \/ Y(p) = Y(q) /\ (X(p) - X(q)) \in {-1, 1}
  \/ X(p) = X(q) /\ (Y(p) - Y(q)) \in {-1, 1}

Component(p, n) ==
  LET Grow[S \in SUBSET (1 .. n)] ==
        LET wider == S \cup {q \in 1 .. n : Bright(q) /\ \E r \in S : Adjacent(q, r)}
        IN IF wider = S THEN S ELSE Grow[wider]
  IN Grow[{p}]

RootOf(l) ==
  LET Up[i \in DOMAIN parent] == IF parent[i] = i THEN i ELSE Up[parent[i]]
  IN Up[l]

\* The forest has no cycle, so that find ends: a parent is never above its
\* label, whatever is joined and whatever paths are halved meanwhile.
ParentsPointDown == \A l \in DOMAIN parent : parent[l] <= l

\* After each row of the first pass, two bright pixels have the same root
\* exactly if they are connected among the pixels seen: no star is cut in two
\* where its outline turns back on itself, no two stars that touch only at a
\* corner become one, and halving the paths changes no root.
LabelsAreComponents ==
  pc = "label" /\ cursors = <<>> /\ k > 1 /\ X(k) = 0 =>
    \A l \in {m \in DOMAIN parent : parent[m] = m} :
      LET same == {q \in 1 .. k - 1 : label[q] # 0 /\ RootOf(label[q]) = l}
      IN same # {} /\ same = Component(Min(same), k - 1)

\* The stars an image has: one for each component of a size that has a pixel
\* with a value and its first brightest pixel inside the image.
RefComponents == {Component(p, Width * Height) : p \in {q \in Pixels : Bright(q)}}
RefPeak(C) ==
  LET valued == {p \in C : value[p] \notin NaNs}
      peaks == {p \in valued : \A q \in valued : value[q] <= value[p]}
  IN IF valued = {} THEN 1 ELSE Min(peaks)
RefFlux(C) ==
  IF \E p \in C : value[p] \in NaNs
  THEN value[Min({p \in C : value[p] \in NaNs})]
  ELSE Light(value, C)
RefStars ==
  {[at |-> RefPeak(C), flux |-> RefFlux(C)] :
     C \in {D \in RefComponents : Cardinality(D) <= MaxPixels /\ ~OnBorder(RefPeak(D))}}

\* Each star once, with the light of all its pixels and where it is brightest;
\* a patch without values is none.  The list is sorted by flux, and a star
\* left out is no brighter than any that is in it: the quads start with the
\* brightest.  (A star that touches a pixel without a value has no flux
\* either, and comes first or last.)
StarsAreComponents ==
  pc = "done" =>
    /\ ToSet(stars) \subseteq RefStars
    /\ Len(stars) = Lower(Cardinality(RefStars), MaxStars)
    /\ \A i, j \in DOMAIN stars : i < j => stars[i] # stars[j] /\ stars[i].flux >= stars[j].flux
    /\ \A s \in RefStars \ ToSet(stars) : \A i \in DOMAIN stars : s.flux <= stars[i].flux
=============================================================================
