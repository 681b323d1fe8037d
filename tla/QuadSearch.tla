----------------------------- MODULE QuadSearch -----------------------------
(***************************************************************************)
(* The quad search over one scale band (fl-solve, engine.rs: quad_search,  *)
(* try_pquad, combos).  Stars come brightest first.  Each new star is the  *)
(* B end of new backbones, and then a new member of the backbones among    *)
(* the stars before it; a backbone remembers its members between the two.  *)
(*                                                                         *)
(* Positions are points of a pixel grid and lengths are compared squared,  *)
(* so the geometry is exact.  What a look-up finds is open: any batch of   *)
(* quads may hold the solution, or none.                                   *)
(***************************************************************************)
EXTENDS Integers, Sequences, FiniteSets, FiniteSetsExt

CONSTANTS
  Fields,         \* the star lists: sequences of positions, brightest first
  Indexes,        \* the index files: [dimquads, lower, upper], quad sizes
                  \* as pixels at one unit of scale
  Band,           \* <<lo, hi>>, in units of scale per pixel
  MinBackbone,    \* the shortest backbone used, in pixels
  Diagonal,       \* of the image, in pixels
  MaxQuadStars,   \* cfg.max_quad_stars
  CircleSlack     \* codetol (sqrt 2 + codetol), in 1/10000

ASSUME QuadSearchAssumption ==
  /\ \A f \in Fields : f \in Seq(Int \X Int)
  /\ Band \in Nat \X Nat /\ 0 < Band[1] /\ Band[1] < Band[2]
  /\ \A i \in DOMAIN Indexes :
       /\ Indexes[i].dimquads \in 3 .. 5
       /\ Indexes[i].lower % Band[2] = 0 /\ Indexes[i].upper % Band[1] = 0
  /\ MaxQuadStars \in Nat /\ CircleSlack \in Nat

VARIABLES
  field,      \* the stars of the image
  pc,         \* "start", "star", "new", "old", "checked", "done"
  newpoint,   \* the star being added
  a, b,       \* the backbone at hand
  inbox,      \* the members of each backbone: pquads
  batch,      \* the quads looked up by the last step
  tried,      \* history: every quad looked up
  outcome     \* "nothing", "found", "none", "timeout"

vars == <<field, pc, newpoint, a, b, inbox, batch, tried, outcome>>

-----------------------------------------------------------------------------
(* Indexes active in the band, and the quads of a backbone.                 *)

Sq(x) == x * x
Larger(x, y) == IF x > y THEN x ELSE y
Smaller(x, y) == IF x < y THEN x ELSE y

\* The squared lengths a backbone of an index may have in this band.
AbMin2(i) == Sq(Larger(Indexes[i].lower \div Band[2], MinBackbone))
AbMax2(i) == Sq(Smaller(Indexes[i].upper \div Band[1], Diagonal))

Active == {i \in DOMAIN Indexes : AbMin2(i) < AbMax2(i)}

InWindow(s2, i) == AbMin2(i) <= s2 /\ s2 <= AbMax2(i)

\* The hull of all windows; a backbone outside it gets no members.
InHull(s2) ==
  /\ \E i \in Active : AbMin2(i) <= s2
  /\ \E i \in Active : s2 <= AbMax2(i)

Stars == Smaller(Len(field), MaxQuadStars)

Scale2(p, q) == Sq(field[q][1] - field[p][1]) + Sq(field[q][2] - field[p][2])

\* In code space, A at (0,0) and B at (1,1), x^2 - x + y^2 - y is twice the
\* product of the vectors from the star to A and to B over |AB|^2.
InCircle(p, q, m) ==
  LET dot == (field[m][1] - field[p][1]) * (field[m][1] - field[q][1])
           + (field[m][2] - field[p][2]) * (field[m][2] - field[q][2])
  IN 20000 * dot <= CircleSlack * Scale2(p, q)

\* Every combination, with the new star or without.
MutQuads(p, q, box, must) ==
  {quad \in [ab : {<<p, q>>}, members : SUBSET box, index : Active] :
     /\ Cardinality(quad.members) = Indexes[quad.index].dimquads - 2
     /\ InWindow(Scale2(p, q), quad.index)}

\* combos, for each index the backbone fits: as many members as its quads have
\* besides A and B, the new star among them.
Quads(p, q, box, must) ==
  {quad \in [ab : {<<p, q>>}, members : SUBSET box, index : Active] :
     /\ Cardinality(quad.members) = Indexes[quad.index].dimquads - 2
     /\ must \subseteq quad.members
     /\ InWindow(Scale2(p, q), quad.index)}

-----------------------------------------------------------------------------
Init ==
  /\ field \in Fields
  /\ pc = "start" /\ newpoint = 2 /\ a = 1 /\ b = 2
  /\ inbox = <<>> /\ batch = {} /\ tried = {} /\ outcome = "nothing"

Finish(result) ==
  /\ pc' = "done" /\ outcome' = result /\ batch' = {}
  /\ UNCHANGED <<field, newpoint, a, b, inbox, tried>>

\* No index has quads of a size this band can show, or too few stars.
NothingToSearch ==
  /\ pc = "start"
  /\ Active = {} \/ Stars < 3
  /\ Finish("none")

Begin ==
  /\ pc = "start"
  /\ Active # {} /\ Stars >= 3
  /\ pc' = "star"
  /\ UNCHANGED <<field, newpoint, a, b, inbox, batch, tried, outcome>>

\* Stops one star early.
MutExhausted ==
  /\ pc = "star" /\ newpoint >= Stars
  /\ Finish("none")

\* Every star has been added.
Exhausted ==
  /\ pc = "star" /\ newpoint > Stars
  /\ Finish("none")

\* The clock is read before a star, before each B of the existing backbones,
\* and after the star.
Deadline ==
  /\ \/ pc = "star" /\ newpoint <= Stars
     \/ pc = "old" /\ a = 1 /\ b < newpoint
     \/ pc = "checked"
  /\ Finish("timeout")

AddStar ==
  /\ pc = "star" /\ newpoint <= Stars
  /\ pc' = "new" /\ a' = 1 /\ batch' = {}
  /\ UNCHANGED <<field, newpoint, b, inbox, tried, outcome>>

\* try_pquad: the quads are looked up, and one of them may hold the solution.
Try(quads, next) ==
  /\ batch' = quads
  /\ tried' = tried \cup quads
  /\ \/ quads # {} /\ pc' = "done" /\ outcome' = "found"
     \/ pc' = next /\ UNCHANGED outcome

\* The members a new backbone starts with: only those after A.
MutEarlier(p, q) == {m \in p + 1 .. q - 1 : InCircle(p, q, m)}

\* The members a new backbone starts with: the stars before B but A.
Earlier(p, q) == {m \in (1 .. q - 1) \ {p} : InCircle(p, q, m)}

\* (1) B is the new star.
NewBackbone ==
  LET box == IF InHull(Scale2(a, newpoint)) THEN Earlier(a, newpoint) ELSE {}
      last == a + 1 = newpoint
  IN /\ pc = "new"
     /\ inbox' = [ab \in DOMAIN inbox \cup {<<a, newpoint>>} |->
                    IF ab = <<a, newpoint>> THEN box ELSE inbox[ab]]
     /\ IF InHull(Scale2(a, newpoint))
        THEN Try(Quads(a, newpoint, box, {}), IF last THEN "old" ELSE "new")
        ELSE /\ pc' = IF last THEN "old" ELSE "new"
             /\ batch' = {} /\ UNCHANGED <<tried, outcome>>
     /\ a' = IF last THEN 1 ELSE a + 1
     /\ b' = IF last THEN 2 ELSE b
     /\ UNCHANGED <<field, newpoint>>

\* (2) The new star as a member of a backbone among the earlier ones.
ExtendBackbone ==
  LET joins == InHull(Scale2(a, b)) /\ InCircle(a, b, newpoint)
      box == IF joins THEN inbox[<<a, b>>] \cup {newpoint} ELSE inbox[<<a, b>>]
      last == a + 1 = b
  IN /\ pc = "old" /\ b < newpoint
     /\ inbox' = [inbox EXCEPT ![<<a, b>>] = box]
     /\ IF joins
        THEN Try(Quads(a, b, box, {newpoint}), "old")
        ELSE batch' = {} /\ UNCHANGED <<pc, tried, outcome>>
     /\ a' = IF last THEN 1 ELSE a + 1
     /\ b' = IF last THEN b + 1 ELSE b
     /\ UNCHANGED <<field, newpoint>>

StarDone ==
  /\ pc = "old" /\ b = newpoint
  /\ pc' = "checked" /\ batch' = {}
  /\ UNCHANGED <<field, newpoint, a, b, inbox, tried, outcome>>

NextStar ==
  /\ pc = "checked"
  /\ pc' = "star" /\ newpoint' = newpoint + 1
  /\ UNCHANGED <<field, a, b, inbox, batch, tried, outcome>>

Next ==
  \/ NothingToSearch
  \/ Begin
  \/ Exhausted
  \/ Deadline
  \/ AddStar
  \/ NewBackbone
  \/ ExtendBackbone
  \/ StarDone
  \/ NextStar

Spec == Init /\ [][Next]_vars

-----------------------------------------------------------------------------
\* Types: a backbone's members are stars already added and never its ends.
TypeOK ==
  /\ pc \in {"start", "star", "new", "old", "checked", "done"}
  /\ outcome \in {"nothing", "found", "none", "timeout"}
  /\ \A ab \in DOMAIN inbox :
       /\ ab[1] < ab[2] /\ ab[2] <= newpoint
       /\ inbox[ab] \subseteq (1 .. newpoint) \ {ab[1], ab[2]}

\* Every quad of the first n stars that an active index could hold.
QuadsAmong(n) ==
  LET pairs == {t \in (1 .. n) \X (1 .. n) \X Active :
                  t[1] < t[2] /\ InWindow(Scale2(t[1], t[2]), t[3])}
      Around(t) == {m \in (1 .. n) \ {t[1], t[2]} : InCircle(t[1], t[2], m)}
      Of(t) == {[ab |-> <<t[1], t[2]>>, members |-> ms, index |-> t[3]] :
                  ms \in kSubset(Indexes[t[3]].dimquads - 2, Around(t))}
  IN UNION {Of(t) : t \in pairs}

\* Brightest first: when a star comes up, exactly the quads among the stars
\* before it have been looked up, so that a deadline costs the faint ones only.
\* The two-phase bookkeeping of pquads is what could break it.
BrightestFirst ==
  pc = "star" => tried = QuadsAmong(newpoint - 1)

\* "None" before the deadline means that every quad of the field was tried.
NoneIsExhaustive ==
  outcome = "none" => tried = QuadsAmong(Stars)

\* No quad is looked up twice in the same index: a backbone that gains a star
\* tries only the combinations with that star.
NeverTwice == [][batch' # batch => batch' \cap tried = {}]_vars
=============================================================================
