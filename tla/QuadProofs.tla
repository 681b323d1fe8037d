----------------------------- MODULE QuadProofs -----------------------------
(***************************************************************************)
(* The enumeration of quads and of their codes, for every star list, set   *)
(* of indexes, band and tolerance.                                         *)
(*                                                                         *)
(* Of the geometry of the search only this is used: a backbone in the      *)
(* window of an index is in the hull of all windows.  Of the codes it is   *)
(* used to the full: what renaming, mirroring and an error of codetol do   *)
(* to coordinates and to the order an index keeps them in.                 *)
(***************************************************************************)
EXTENDS QuadSearch, QuadCodes, DataInduction, FiniteSetTheorems

-----------------------------------------------------------------------------
(* How far the loops have got.                                              *)

\* The backbone of p and the newest star has had its turn.
Added(p) == pc \in {"old", "checked"} \/ (pc = "new" /\ p < a)

\* The newest star has been offered to the backbone of p and q.
Extended(p, q) == pc = "checked" \/ (pc = "old" /\ (q < b \/ (q = b /\ p < a)))

\* The backbones that have a member list.
Known(p, q) ==
  /\ p \in Nat /\ q \in Nat /\ 1 <= p /\ p < q
  /\ q < newpoint \/ (q = newpoint /\ Added(p))

\* The newest star a backbone has been offered.
Offered(p, q) == IF q = newpoint \/ Extended(p, q) THEN newpoint ELSE newpoint - 1

\* The stars up to the n-th in the circle of a backbone.
Around(p, q, n) == {m \in (1 .. n) \ {p, q} : InCircle(p, q, m)}

\* A quad that an index may hold, of a backbone and some of the stars given.
IsQuad(t, box) ==
  /\ t \in [ab : Nat \X Nat, members : SUBSET Nat, index : Active]
  /\ t.members \subseteq box
  /\ Cardinality(t.members) = Indexes[t.index].dimquads - 2
  /\ InWindow(Scale2(t.ab[1], t.ab[2]), t.index)

\* What has been looked up, by the position of the loops.
LookedUp(t) ==
  /\ Known(t.ab[1], t.ab[2])
  /\ IsQuad(t, Around(t.ab[1], t.ab[2], Offered(t.ab[1], t.ab[2])))

\* Where the loops may be.
LoopInv ==
  /\ field \in Fields
  /\ pc \in {"start", "star", "new", "old", "checked", "done"}
  /\ newpoint \in Nat /\ 2 <= newpoint /\ a \in Nat /\ b \in Nat /\ 1 <= a
  /\ pc \in {"star", "new", "old", "checked"} => newpoint <= Stars + 1
  /\ pc \in {"new", "old", "checked"} => newpoint <= Stars
  /\ pc = "start" => newpoint = 2
  /\ pc = "new" => a < newpoint
  /\ pc = "old" => a < b /\ b <= newpoint /\ (b = newpoint => a = 1)

\* The member lists hold the stars offered, if any index could use them.
InboxInv ==
  pc # "done" =>
    /\ \A ab : ab \in DOMAIN inbox <=> ab \in Nat \X Nat /\ Known(ab[1], ab[2])
    /\ \A p, q \in Nat : Known(p, q) =>
         inbox[<<p, q>>] = IF InHull(Scale2(p, q)) THEN Around(p, q, Offered(p, q)) ELSE {}

\* Exactly the quads the loops have passed were looked up.
TriedInv ==
  /\ pc # "done" => \A t : t \in tried <=> LookedUp(t)
  /\ pc # "done" => outcome = "nothing"
  /\ outcome = "none" => tried = QuadsAmong(Stars)

IInv == LoopInv /\ InboxInv /\ TriedInv

-----------------------------------------------------------------------------
(* Facts about the operators.                                               *)

\* The number of stars searched is a natural number.
LEMMA StarsNat ==
  ASSUME field \in Fields
  PROVE  Stars \in Nat
<1>1. Len(field) \in Nat
  BY QuadSearchAssumption DEF QuadSearchAssumption
<1> QED
  BY <1>1, QuadSearchAssumption DEF QuadSearchAssumption, Stars, Smaller

\* A backbone some index can use is in the hull.
LEMMA WindowInHull ==
  ASSUME NEW s, NEW i \in Active, InWindow(s, i)
  PROVE  InHull(s)
  BY DEF InWindow, InHull

\* try_pquad's quads, one by one.
LEMMA QuadsAre ==
  ASSUME NEW p \in Nat, NEW q \in Nat, NEW box \in SUBSET Nat, NEW must, NEW t
  PROVE  t \in Quads(p, q, box, must) <=> IsQuad(t, box) /\ t.ab = <<p, q>> /\ must \subseteq t.members
<1>1. ASSUME t \in Quads(p, q, box, must)
      PROVE  IsQuad(t, box) /\ t.ab = <<p, q>> /\ must \subseteq t.members
  <2>1. /\ t \in [ab : {<<p, q>>}, members : SUBSET box, index : Active]
        /\ Cardinality(t.members) = Indexes[t.index].dimquads - 2
        /\ must \subseteq t.members
        /\ InWindow(Scale2(p, q), t.index)
    BY <1>1 DEF Quads
  <2>2. /\ t = [ab |-> t.ab, members |-> t.members, index |-> t.index]
        /\ t.ab = <<p, q>> /\ t.members \subseteq box /\ t.index \in Active
    BY <2>1
  <2>3. t.members \in SUBSET Nat /\ t.ab \in Nat \X Nat
    BY <2>2
  <2>4. t \in [ab : Nat \X Nat, members : SUBSET Nat, index : Active]
    BY <2>2, <2>3
  <2>5. InWindow(Scale2(t.ab[1], t.ab[2]), t.index)
    BY <2>1, <2>2
  <2> QED
    BY <2>1, <2>2, <2>4, <2>5 DEF IsQuad
<1>2. ASSUME IsQuad(t, box), t.ab = <<p, q>>, must \subseteq t.members
      PROVE  t \in Quads(p, q, box, must)
  <2>1. t \in [ab : {<<p, q>>}, members : SUBSET box, index : Active]
    BY <1>2 DEF IsQuad
  <2> QED
    BY <1>2, <2>1 DEF Quads, IsQuad
<1> QED
  BY <1>1, <1>2

\* All quads among the first n stars, one by one.
LEMMA QuadsAmongAre ==
  ASSUME NEW n \in Nat, NEW t
  PROVE  t \in QuadsAmong(n) <=>
           /\ t.ab \in (1 .. n) \X (1 .. n) /\ t.ab[1] < t.ab[2]
           /\ IsQuad(t, Around(t.ab[1], t.ab[2], n))
<1> DEFINE Pairs == {u \in (1 .. n) \X (1 .. n) \X Active :
                       u[1] < u[2] /\ InWindow(Scale2(u[1], u[2]), u[3])}
           Of(u) == {[ab |-> <<u[1], u[2]>>, members |-> ms, index |-> u[3]] :
                       ms \in kSubset(Indexes[u[3]].dimquads - 2, Around(u[1], u[2], n))}
<1>1. QuadsAmong(n) = UNION {Of(u) : u \in Pairs}
  BY DEF QuadsAmong, Around
<1>2. ASSUME t \in QuadsAmong(n)
      PROVE  /\ t.ab \in (1 .. n) \X (1 .. n) /\ t.ab[1] < t.ab[2]
             /\ IsQuad(t, Around(t.ab[1], t.ab[2], n))
  <2>1. PICK u \in Pairs : t \in Of(u)
    BY <1>1, <1>2
  <2>2. PICK ms \in kSubset(Indexes[u[3]].dimquads - 2, Around(u[1], u[2], n)) :
          t = [ab |-> <<u[1], u[2]>>, members |-> ms, index |-> u[3]]
    BY <2>1
  <2>3. /\ ms \subseteq Around(u[1], u[2], n) /\ Cardinality(ms) = Indexes[u[3]].dimquads - 2
    BY DEF kSubset
  <2>4. /\ u[1] \in 1 .. n /\ u[2] \in 1 .. n /\ u[3] \in Active
        /\ u[1] < u[2] /\ InWindow(Scale2(u[1], u[2]), u[3])
    OBVIOUS
  <2>5. Around(u[1], u[2], n) \subseteq Nat
    BY DEF Around
  <2> QED
    BY <2>2, <2>3, <2>4, <2>5 DEF IsQuad
<1>3. ASSUME t.ab \in (1 .. n) \X (1 .. n), t.ab[1] < t.ab[2],
             IsQuad(t, Around(t.ab[1], t.ab[2], n))
      PROVE  t \in QuadsAmong(n)
  <2> DEFINE u == <<t.ab[1], t.ab[2], t.index>>
  <2>1. u \in Pairs
    BY <1>3 DEF IsQuad
  <2>2. t.members \in kSubset(Indexes[t.index].dimquads - 2, Around(t.ab[1], t.ab[2], n))
    BY <1>3 DEF IsQuad, kSubset
  <2>3. t = [ab |-> <<t.ab[1], t.ab[2]>>, members |-> t.members, index |-> t.index]
    BY <1>3 DEF IsQuad
  <2>4. t \in Of(u)
    BY <2>2, <2>3
  <2> QED
    BY <1>1, <2>1, <2>4
<1> QED
  BY <1>2, <1>3

\* Known backbones are offered stars that exist.
LEMMA OfferedFacts ==
  ASSUME LoopInv, NEW p \in Nat, NEW q \in Nat, Known(p, q)
  PROVE  /\ Offered(p, q) \in Nat /\ Offered(p, q) <= newpoint
         /\ q <= Offered(p, q)
         /\ Around(p, q, Offered(p, q)) \subseteq Nat
<1>1. Offered(p, q) \in Nat /\ Offered(p, q) <= newpoint /\ q <= Offered(p, q)
  BY DEF LoopInv, Known, Offered
<1> QED
  BY <1>1 DEF Around

\* Once every backbone has been offered every star up to the n-th, the quads
\* looked up are those among the first n.
LEMMA AllLookedUp ==
  ASSUME NEW n \in Nat, NEW t,
         \A p, q \in Nat : Known(p, q) <=> 1 <= p /\ p < q /\ q <= n,
         \A p, q \in Nat : Known(p, q) => Offered(p, q) = n
  PROVE  LookedUp(t) <=> t \in QuadsAmong(n)
<1>1. ASSUME LookedUp(t) PROVE t \in QuadsAmong(n)
  <2>1. t.ab \in Nat \X Nat
    BY <1>1 DEF LookedUp, IsQuad
  <2>2. Known(t.ab[1], t.ab[2]) /\ t.ab[1] \in Nat /\ t.ab[2] \in Nat
    BY <1>1, <2>1 DEF LookedUp
  <2>3. Offered(t.ab[1], t.ab[2]) = n /\ 1 <= t.ab[1] /\ t.ab[1] < t.ab[2] /\ t.ab[2] <= n
    BY <2>2
  <2>4. t.ab \in (1 .. n) \X (1 .. n)
    BY <2>1, <2>3
  <2>5. IsQuad(t, Around(t.ab[1], t.ab[2], n))
    BY <1>1, <2>3 DEF LookedUp
  <2> QED
    BY <2>3, <2>4, <2>5, QuadsAmongAre
<1>2. ASSUME t \in QuadsAmong(n) PROVE LookedUp(t)
  <2>1. /\ t.ab \in (1 .. n) \X (1 .. n) /\ t.ab[1] < t.ab[2]
        /\ IsQuad(t, Around(t.ab[1], t.ab[2], n))
    BY <1>2, QuadsAmongAre
  <2>2. t.ab[1] \in Nat /\ t.ab[2] \in Nat /\ 1 <= t.ab[1] /\ t.ab[2] <= n
    BY <2>1
  <2>3. Known(t.ab[1], t.ab[2]) /\ Offered(t.ab[1], t.ab[2]) = n
    BY <2>1, <2>2
  <2> QED
    BY <2>1, <2>3 DEF LookedUp
<1> QED
  BY <1>1, <1>2

\* Fewer than three stars, or no index of the size: there is no quad.
LEMMA NoQuads ==
  ASSUME field \in Fields, Active = {} \/ Stars < 3
  PROVE  QuadsAmong(Stars) = {}
<1>1. Stars \in Nat
  BY StarsNat
<1> SUFFICES ASSUME NEW t \in QuadsAmong(Stars) PROVE FALSE
  OBVIOUS
<1>2. /\ t.ab \in (1 .. Stars) \X (1 .. Stars) /\ t.ab[1] < t.ab[2]
      /\ IsQuad(t, Around(t.ab[1], t.ab[2], Stars))
  BY <1>1, QuadsAmongAre
<1>3. t.index \in Active /\ Active # {}
  BY <1>2 DEF IsQuad
<1>4. /\ t.ab[1] \in 1 .. Stars /\ t.ab[2] \in 1 .. Stars /\ Stars < 3
  BY <1>2, <1>3
<1>5. Around(t.ab[1], t.ab[2], Stars) = {}
  BY <1>1, <1>2, <1>4 DEF Around
<1>6. t.members = {} /\ Cardinality(t.members) = Indexes[t.index].dimquads - 2
  BY <1>2, <1>5 DEF IsQuad
<1>7. Cardinality(t.members) = 0
  BY <1>6, FS_EmptySet
<1>8. t.index \in DOMAIN Indexes
  BY <1>3 DEF Active
<1>9. Indexes[t.index].dimquads \in 3 .. 5
  BY <1>8, QuadSearchAssumption DEF QuadSearchAssumption
<1> QED
  BY <1>6, <1>7, <1>9

-----------------------------------------------------------------------------
(* The steps.                                                               *)

LEMMA InitInv == Init => IInv
<1> SUFFICES ASSUME Init PROVE IInv
  OBVIOUS
<1>1. LoopInv
  BY DEF Init, LoopInv
<1>2. \A p, q : ~Known(p, q)
  BY DEF Init, Known, Added
<1>3. InboxInv
  <2>1. DOMAIN inbox = {}
    BY DEF Init
  <2> QED
    BY <1>2, <2>1 DEF InboxInv
<1>4. TriedInv
  BY <1>2 DEF TriedInv, LookedUp, Init
<1> QED
  BY <1>1, <1>3, <1>4 DEF IInv

\* A step that moves the loops without passing a backbone keeps what is known.
LEMMA SameProgress ==
  ASSUME IInv, UNCHANGED <<field, inbox, tried, outcome>>, pc # "done", pc' # "done", LoopInv',
         \A p, q \in Nat : Known(p, q)' <=> Known(p, q),
         \A p, q \in Nat : Known(p, q) => Offered(p, q)' = Offered(p, q)
  PROVE  IInv'
<1>1. /\ \A s2 : InHull(s2)' <=> InHull(s2)
      /\ \A p, q : Scale2(p, q)' = Scale2(p, q)
      /\ \A p, q, n : Around(p, q, n)' = Around(p, q, n)
      /\ \A t, box : IsQuad(t, box)' <=> IsQuad(t, box)
  BY DEF InHull, Scale2, Around, InCircle, IsQuad
<1>2. InboxInv'
  <2>1. \A ab : ab \in DOMAIN inbox' <=> ab \in Nat \X Nat /\ Known(ab[1], ab[2])'
    BY DEF IInv, InboxInv
  <2>2. ASSUME NEW p \in Nat, NEW q \in Nat, Known(p, q)'
        PROVE  inbox'[<<p, q>>] =
                 (IF InHull(Scale2(p, q)) THEN Around(p, q, Offered(p, q)) ELSE {})'
    BY <1>1, <2>2 DEF IInv, InboxInv
  <2> QED
    BY <2>1, <2>2 DEF InboxInv
<1>3. TriedInv'
  <2>1. ASSUME NEW t PROVE LookedUp(t)' <=> LookedUp(t)
    <3>1. t.ab \in Nat \X Nat => t.ab[1] \in Nat /\ t.ab[2] \in Nat
      OBVIOUS
    <3>2. IsQuad(t, Around(t.ab[1], t.ab[2], Offered(t.ab[1], t.ab[2]))) => t.ab \in Nat \X Nat
      BY DEF IsQuad
    <3>3. IsQuad(t, Around(t.ab[1], t.ab[2], Offered(t.ab[1], t.ab[2])))' => t.ab \in Nat \X Nat
      BY DEF IsQuad
    <3> QED
      BY <1>1, <3>1, <3>2, <3>3 DEF LookedUp
  <2> QED
    BY <2>1 DEF IInv, TriedInv
<1> QED
  BY <1>2, <1>3 DEF IInv

\* The steps that only move the loops.
LEMMA MoveStep ==
  ASSUME IInv, Begin \/ AddStar \/ StarDone \/ NextStar
  PROVE  IInv'
<1> USE DEF IInv
<1>1. Stars \in Nat
  BY StarsNat DEF LoopInv
<1>2. CASE Begin
  <2>1. UNCHANGED <<field, inbox, tried, outcome, newpoint>> /\ pc = "start" /\ pc' = "star" /\ Stars' = Stars
    BY <1>2 DEF Begin, Stars
  <2>2. LoopInv'
    BY <1>1, <1>2, <2>1 DEF LoopInv, Begin
  <2>3. \A p, q \in Nat : Known(p, q)' <=> Known(p, q)
    BY <2>1 DEF Known, Added
  <2>4. \A p, q \in Nat : Offered(p, q)' = Offered(p, q)
    BY <2>1 DEF Offered, Extended
  <2> QED
    BY <2>1, <2>2, <2>3, <2>4, SameProgress
<1>3. CASE AddStar
  <2>1. /\ UNCHANGED <<field, inbox, tried, outcome, newpoint>> /\ pc = "star" /\ pc' = "new"
        /\ a' = 1 /\ Stars' = Stars
    BY <1>3 DEF AddStar, Stars
  <2>2. LoopInv'
    BY <1>1, <1>3, <2>1 DEF LoopInv, AddStar
  <2>3. \A p, q \in Nat : Known(p, q)' <=> Known(p, q)
    BY <2>1 DEF Known, Added
  <2>4. \A p, q \in Nat : Offered(p, q)' = Offered(p, q)
    BY <2>1 DEF Offered, Extended
  <2> QED
    BY <2>1, <2>2, <2>3, <2>4, SameProgress
<1>4. CASE StarDone
  <2>1. /\ UNCHANGED <<field, inbox, tried, outcome, newpoint, a, b>> /\ pc = "old" /\ pc' = "checked"
        /\ b = newpoint /\ Stars' = Stars
    BY <1>4 DEF StarDone, Stars
  <2>2. LoopInv'
    BY <1>1, <2>1 DEF LoopInv
  <2>3. \A p, q \in Nat : Known(p, q)' <=> Known(p, q)
    BY <2>1 DEF Known, Added
  <2>4. \A p, q \in Nat : Known(p, q) => Offered(p, q)' = Offered(p, q)
    BY <2>1 DEF Offered, Extended, Known, Added, LoopInv
  <2> QED
    BY <2>1, <2>2, <2>3, <2>4, SameProgress
<1>5. CASE NextStar
  <2>1. /\ UNCHANGED <<field, inbox, tried, outcome, a, b>> /\ pc = "checked" /\ pc' = "star"
        /\ newpoint' = newpoint + 1 /\ Stars' = Stars
    BY <1>5 DEF NextStar, Stars
  <2>2. LoopInv'
    BY <1>1, <2>1 DEF LoopInv
  <2>3. \A p, q \in Nat : Known(p, q)' <=> Known(p, q)
    BY <2>1 DEF Known, Added, LoopInv
  <2>4. \A p, q \in Nat : Known(p, q) => Offered(p, q)' = Offered(p, q)
    BY <2>1 DEF Offered, Extended, Known, Added, LoopInv
  <2> QED
    BY <2>1, <2>2, <2>3, <2>4, SameProgress
<1> QED
  BY <1>2, <1>3, <1>4, <1>5

\* At the head of the loop over stars everything before the next is done.
LEMMA StarHead ==
  ASSUME IInv, pc = "star"
  PROVE  tried = QuadsAmong(newpoint - 1)
<1>1. newpoint - 1 \in Nat
  BY DEF IInv, LoopInv
<1>2. \A p, q \in Nat : Known(p, q) <=> 1 <= p /\ p < q /\ q <= newpoint - 1
  BY DEF IInv, LoopInv, Known, Added
<1>3. \A p, q \in Nat : Known(p, q) => Offered(p, q) = newpoint - 1
  BY DEF IInv, LoopInv, Known, Added, Offered, Extended
<1>4. \A t : LookedUp(t) <=> t \in QuadsAmong(newpoint - 1)
  BY <1>1, <1>2, <1>3, AllLookedUp
<1> QED
  BY <1>4 DEF IInv, TriedInv

\* The steps that end the search without a solution.
LEMMA FinishStep ==
  ASSUME IInv, NothingToSearch \/ Exhausted \/ Deadline
  PROVE  IInv'
<1>1. /\ pc' = "done" /\ UNCHANGED <<field, newpoint, a, b, inbox, tried>>
      /\ pc # "done"
  BY DEF NothingToSearch, Exhausted, Deadline, Finish
<1>2. LoopInv'
  BY <1>1 DEF IInv, LoopInv
<1>3. QuadsAmong(Stars)' = QuadsAmong(Stars)
  BY <1>1 DEF QuadsAmong, Stars, Scale2, InCircle
<1>4. Stars \in Nat /\ field \in Fields
  BY StarsNat DEF IInv, LoopInv
<1>5. outcome' = "none" => tried = QuadsAmong(Stars)
  <2>1. CASE NothingToSearch
    <3>1. (Active = {} \/ Stars < 3) /\ pc = "start"
      BY <2>1 DEF NothingToSearch
    <3>2. QuadsAmong(Stars) = {}
      BY <1>4, <3>1, NoQuads
    <3>3. newpoint = 2
      BY <3>1 DEF IInv, LoopInv
    <3>4. \A p, q : ~Known(p, q)
      BY <3>1, <3>3 DEF Known, Added
    <3>5. \A t : t \notin tried
      BY <1>1, <3>4 DEF IInv, TriedInv, LookedUp
    <3> QED
      BY <3>2, <3>5
  <2>2. CASE Exhausted
    <3>1. pc = "star" /\ newpoint > Stars
      BY <2>2 DEF Exhausted
    <3>2. newpoint - 1 = Stars
      BY <1>4, <3>1 DEF IInv, LoopInv
    <3> QED
      BY <3>1, <3>2, StarHead
  <2>3. CASE Deadline
    <3>1. outcome' = "timeout"
      BY <2>3 DEF Deadline, Finish
    <3> QED
      BY <3>1
  <2> QED
    BY <2>1, <2>2, <2>3
<1>6. TriedInv' /\ InboxInv'
  BY <1>1, <1>3, <1>5 DEF TriedInv, InboxInv
<1> QED
  BY <1>2, <1>6 DEF IInv

\* Passing a backbone: its member list is brought up to the newest star, and
\* the quads looked up are those whose members were not all there before.
LEMMA PassBackbone ==
  ASSUME IInv, NEW p \in Nat, NEW q \in Nat, NEW box \in SUBSET Nat, NEW must \in SUBSET Nat,
         pc # "done", pc' # "done",
         UNCHANGED <<field, newpoint, outcome>>,
         \A x, y \in Nat : Known(x, y)' <=> Known(x, y) \/ <<x, y>> = <<p, q>>,
         \A x, y \in Nat : Known(x, y) /\ <<x, y>> # <<p, q>> => Offered(x, y)' = Offered(x, y),
         Offered(p, q)' = newpoint,
         box = IF InHull(Scale2(p, q)) THEN Around(p, q, newpoint) ELSE {},
         \A ab : ab \in DOMAIN inbox' <=> ab \in DOMAIN inbox \/ ab = <<p, q>>,
         \A ab \in DOMAIN inbox' : inbox'[ab] = IF ab = <<p, q>> THEN box ELSE inbox[ab],
         \A t : t \in tried' <=> t \in tried \/ t \in Quads(p, q, box, must),
         \A t : IsQuad(t, box) /\ t.ab = <<p, q>> => (LookedUp(t) <=> ~(must \subseteq t.members))
  PROVE  InboxInv' /\ TriedInv'
<1>0. \A t : t \in Quads(p, q, box, must) <=>
              IsQuad(t, box) /\ t.ab = <<p, q>> /\ must \subseteq t.members
  BY ONLY QuadsAre
<1>1. /\ \A s2 : InHull(s2)' <=> InHull(s2)
      /\ \A x, y : Scale2(x, y)' = Scale2(x, y)
      /\ \A x, y, n : Around(x, y, n)' = Around(x, y, n)
      /\ \A t, s : IsQuad(t, s)' <=> IsQuad(t, s)
  BY DEF InHull, Scale2, Around, InCircle, IsQuad
<1>2. InboxInv'
  <2>1. \A ab : ab \in DOMAIN inbox' <=> ab \in Nat \X Nat /\ Known(ab[1], ab[2])'
    <3> SUFFICES ASSUME NEW ab
                 PROVE  ab \in DOMAIN inbox' <=> ab \in Nat \X Nat /\ Known(ab[1], ab[2])'
      OBVIOUS
    <3>1. ab \in DOMAIN inbox <=> ab \in Nat \X Nat /\ Known(ab[1], ab[2])
      BY DEF IInv, InboxInv
    <3>2. <<p, q>> \in Nat \X Nat /\ Known(p, q)'
      OBVIOUS
    <3>3. ab \in Nat \X Nat => ab = <<ab[1], ab[2]>> /\ ab[1] \in Nat /\ ab[2] \in Nat
      OBVIOUS
    <3> QED
      BY <3>1, <3>2, <3>3
  <2>2. ASSUME NEW x \in Nat, NEW y \in Nat, Known(x, y)'
        PROVE  inbox'[<<x, y>>] =
                 (IF InHull(Scale2(x, y)) THEN Around(x, y, Offered(x, y)) ELSE {})'
    <3>1. <<x, y>> \in DOMAIN inbox'
      BY <2>1, <2>2
    <3>2. CASE <<x, y>> = <<p, q>>
      <4>1. x = p /\ y = q /\ inbox'[<<x, y>>] = box
        BY <3>1, <3>2
      <4> QED
        BY <1>1, <4>1
    <3>3. CASE <<x, y>> # <<p, q>>
      <4>1. Known(x, y) /\ inbox'[<<x, y>>] = inbox[<<x, y>>] /\ Offered(x, y)' = Offered(x, y)
        BY <2>2, <3>1, <3>3
      <4> QED
        BY <1>1, <4>1 DEF IInv, InboxInv
    <3> QED
      BY <3>2, <3>3
  <2> QED
    BY <2>1, <2>2 DEF InboxInv
<1>3. ASSUME NEW t PROVE t \in tried' <=> LookedUp(t)'
  <2>1. t \in tried <=> LookedUp(t)
    BY DEF IInv, TriedInv
  <2>2. ASSUME t.ab # <<p, q>> PROVE t \in tried' <=> LookedUp(t)'
    <3>1. t \notin Quads(p, q, box, must)
      BY <1>0, <2>2
    <3>2. LookedUp(t) => t.ab \in Nat \X Nat
      BY DEF LookedUp, IsQuad
    <3>3. LookedUp(t)' => t.ab \in Nat \X Nat
      BY DEF LookedUp, IsQuad
    <3>4. ASSUME t.ab \in Nat \X Nat PROVE LookedUp(t)' <=> LookedUp(t)
      <4>1. t.ab[1] \in Nat /\ t.ab[2] \in Nat /\ <<t.ab[1], t.ab[2]>> # <<p, q>>
        BY <2>2, <3>4
      <4>2. Known(t.ab[1], t.ab[2])' <=> Known(t.ab[1], t.ab[2])
        BY <4>1
      <4>3. Known(t.ab[1], t.ab[2]) => Offered(t.ab[1], t.ab[2])' = Offered(t.ab[1], t.ab[2])
        BY <4>1
      <4> QED
        BY <1>1, <4>2, <4>3 DEF LookedUp
    <3> QED
      BY <2>1, <3>1, <3>2, <3>3, <3>4
  <2>3. ASSUME t.ab = <<p, q>> PROVE t \in tried' <=> LookedUp(t)'
    <3>1. t.ab[1] = p /\ t.ab[2] = q
      BY <2>3
    <3>2. LookedUp(t)' <=> IsQuad(t, Around(p, q, newpoint))
      BY <1>1, <3>1 DEF LookedUp
    <3>3. IsQuad(t, Around(p, q, newpoint)) => InHull(Scale2(p, q))
      BY <3>1, WindowInHull DEF IsQuad
    <3>4. IsQuad(t, Around(p, q, newpoint)) <=> IsQuad(t, box)
      <4>1. CASE InHull(Scale2(p, q))
        BY <4>1
      <4>2. CASE ~InHull(Scale2(p, q))
        <5>1. ~IsQuad(t, Around(p, q, newpoint))
          BY <3>3, <4>2
        <5>2. ~IsQuad(t, box)
          <6>1. IsQuad(t, box) => t.index \in Active /\ InWindow(Scale2(p, q), t.index)
            BY <3>1 DEF IsQuad
          <6> QED
            BY <4>2, <6>1, WindowInHull
        <5> QED
          BY <5>1, <5>2
      <4> QED
        BY <4>1, <4>2
    <3>5. t \in Quads(p, q, box, must) <=> IsQuad(t, box) /\ must \subseteq t.members
      BY <1>0, <2>3
    <3>6. IsQuad(t, box) => (LookedUp(t) <=> ~(must \subseteq t.members))
      BY <2>3
    <3>7. LookedUp(t) => IsQuad(t, Around(p, q, newpoint))
      <4>1. ASSUME LookedUp(t) PROVE IsQuad(t, Around(p, q, newpoint))
        <5>1. Known(p, q) /\ IsQuad(t, Around(p, q, Offered(p, q)))
          BY <3>1, <4>1 DEF LookedUp
        <5>2. Offered(p, q) \in Nat /\ Offered(p, q) <= newpoint /\ newpoint \in Nat
          BY <5>1, OfferedFacts DEF IInv, LoopInv
        <5>3. Around(p, q, Offered(p, q)) \subseteq Around(p, q, newpoint)
          BY <5>2 DEF Around
        <5> QED
          BY <5>1, <5>3 DEF IsQuad
      <4> QED
        BY <4>1
    <3> QED
      BY <2>1, <3>2, <3>4, <3>5, <3>6, <3>7
  <2> QED
    BY <2>2, <2>3
<1>4. TriedInv'
  BY <1>3 DEF IInv, TriedInv
<1> QED
  BY <1>2, <1>4

\* A solution ends the search.
LEMMA FoundStep ==
  ASSUME IInv, NewBackbone \/ ExtendBackbone, pc' = "done"
  PROVE  IInv'
<1>1. UNCHANGED <<field, newpoint>> /\ outcome' = "found" /\ a' \in Nat /\ b' \in Nat /\ 1 <= a'
  <2>1. CASE NewBackbone
    BY <2>1 DEF NewBackbone, Try, IInv, LoopInv
  <2>2. CASE ExtendBackbone
    <3>1. pc = "old"
      BY <2>2 DEF ExtendBackbone
    <3> QED
      BY <2>2, <3>1 DEF ExtendBackbone, Try, IInv, LoopInv
  <2> QED
    BY <2>1, <2>2
<1>2. LoopInv'
  BY <1>1 DEF IInv, LoopInv
<1>3. InboxInv' /\ TriedInv'
  BY <1>1 DEF InboxInv, TriedInv
<1> QED
  BY <1>2, <1>3 DEF IInv

\* What a step of NewBackbone looks up, in the hull or not.
LEMMA NewBackboneLooksUp ==
  ASSUME IInv, NewBackbone
  PROVE  LET box == IF InHull(Scale2(a, newpoint)) THEN Around(a, newpoint, newpoint) ELSE {}
         IN /\ inbox' = [ab \in DOMAIN inbox \cup {<<a, newpoint>>} |->
                            IF ab = <<a, newpoint>> THEN box ELSE inbox[ab]]
            /\ batch' = Quads(a, newpoint, box, {})
            /\ tried' = tried \cup Quads(a, newpoint, box, {})
<1> DEFINE box == IF InHull(Scale2(a, newpoint)) THEN Around(a, newpoint, newpoint) ELSE {}
<1>1. newpoint \in Nat /\ a \in Nat
  BY DEF IInv, LoopInv
<1>2. Earlier(a, newpoint) = Around(a, newpoint, newpoint)
  BY <1>1 DEF Earlier, Around
<1>3. inbox' = [ab \in DOMAIN inbox \cup {<<a, newpoint>>} |->
                  IF ab = <<a, newpoint>> THEN box ELSE inbox[ab]]
  BY <1>2 DEF NewBackbone
<1>4. CASE InHull(Scale2(a, newpoint))
  <2>1. batch' = Quads(a, newpoint, box, {}) /\ tried' = tried \cup Quads(a, newpoint, box, {})
    BY <1>2, <1>4 DEF NewBackbone, Try
  <2> QED
    BY <1>3, <2>1
<1>5. CASE ~InHull(Scale2(a, newpoint))
  <2>1. batch' = {} /\ tried' = tried
    BY <1>5 DEF NewBackbone
  <2>2. Quads(a, newpoint, box, {}) = {}
    <3> SUFFICES ASSUME NEW t \in Quads(a, newpoint, box, {}) PROVE FALSE
      OBVIOUS
    <3>1. t.index \in Active /\ InWindow(Scale2(a, newpoint), t.index)
      BY DEF Quads
    <3> QED
      BY <1>5, <3>1, WindowInHull
  <2> QED
    BY <1>3, <2>1, <2>2
<1> QED
  BY <1>4, <1>5

\* A backbone that ends at the newest star.
LEMMA NewBackboneStep ==
  ASSUME IInv, NewBackbone
  PROVE  IInv'
<1>1. CASE pc' = "done"
  BY <1>1, FoundStep
<1>2. CASE pc' # "done"
  <2>1. /\ pc = "new" /\ UNCHANGED <<field, newpoint, outcome>>
        /\ pc' = IF a + 1 = newpoint THEN "old" ELSE "new"
        /\ a' = IF a + 1 = newpoint THEN 1 ELSE a + 1
        /\ b' = IF a + 1 = newpoint THEN 2 ELSE b
    BY <1>2 DEF NewBackbone, Try
  <2>2. newpoint \in Nat /\ 2 <= newpoint /\ a \in Nat /\ 1 <= a /\ a < newpoint /\ b \in Nat
    BY <2>1 DEF IInv, LoopInv
  <2>3. LoopInv'
    <3>1. Stars' = Stars /\ Stars \in Nat /\ newpoint <= Stars /\ field \in Fields
      BY <2>1, StarsNat DEF IInv, LoopInv, Stars
    <3> QED
      BY <2>1, <2>2, <3>1 DEF LoopInv
  <2>4. PICK p \in Nat, q \in Nat : p = a /\ q = newpoint
    BY <2>2
  <2>5. PICK box : box = IF InHull(Scale2(p, q)) THEN Around(p, q, newpoint) ELSE {}
    OBVIOUS
  <2>6. \A x, y \in Nat : Known(x, y)' <=> Known(x, y) \/ <<x, y>> = <<p, q>>
    BY <2>1, <2>2, <2>4 DEF Known, Added
  <2>7. \A x, y \in Nat : Known(x, y) => Offered(x, y)' = Offered(x, y)
    BY <2>1, <2>2 DEF Known, Added, Offered, Extended
  <2>8. Offered(p, q)' = newpoint
    BY <2>1, <2>2, <2>4 DEF Offered, Extended
  <2>9. /\ inbox' = [ab \in DOMAIN inbox \cup {<<p, q>>} |->
                        IF ab = <<p, q>> THEN box ELSE inbox[ab]]
        /\ tried' = tried \cup Quads(p, q, box, {})
    BY <2>4, <2>5, NewBackboneLooksUp
  <2>10. ASSUME NEW t, IsQuad(t, box), t.ab = <<p, q>>
         PROVE  LookedUp(t) <=> ~({} \subseteq t.members)
    <3>1. ~Known(p, q)
      BY <2>1, <2>2, <2>4 DEF Known, Added
    <3> QED
      BY <2>10, <3>1 DEF LookedUp
  <2>11. box \in SUBSET Nat /\ {} \in SUBSET Nat /\ pc # "done"
    BY <2>1, <2>5 DEF Around
  <2>12. InboxInv' /\ TriedInv'
    BY <1>2, <2>1, <2>5, <2>6, <2>7, <2>8, <2>9, <2>10, <2>11, PassBackbone
  <2> QED
    BY <2>3, <2>12 DEF IInv
<1> QED
  BY <1>1, <1>2

\* What a step of ExtendBackbone looks up, whether the star joins or not.
LEMMA ExtendBackboneLooksUp ==
  ASSUME IInv, ExtendBackbone
  PROVE  LET box == IF InHull(Scale2(a, b)) THEN Around(a, b, newpoint) ELSE {}
         IN /\ Known(a, b) /\ Offered(a, b) = newpoint - 1
            /\ inbox' = [inbox EXCEPT ![<<a, b>>] = box]
            /\ batch' = Quads(a, b, box, {newpoint})
            /\ tried' = tried \cup Quads(a, b, box, {newpoint})
<1> DEFINE hull == InHull(Scale2(a, b))
           joins == hull /\ InCircle(a, b, newpoint)
           box == IF hull THEN Around(a, b, newpoint) ELSE {}
           list == IF joins THEN inbox[<<a, b>>] \cup {newpoint} ELSE inbox[<<a, b>>]
<1>1. /\ pc = "old" /\ b < newpoint
      /\ newpoint \in Nat /\ a \in Nat /\ b \in Nat /\ 1 <= a /\ a < b
  BY DEF ExtendBackbone, IInv, LoopInv
<1>2. Known(a, b) /\ Offered(a, b) = newpoint - 1
  BY <1>1 DEF Known, Offered, Extended
<1>3. inbox[<<a, b>>] = IF hull THEN Around(a, b, newpoint - 1) ELSE {}
  BY <1>1, <1>2 DEF IInv, InboxInv
<1>4. Around(a, b, newpoint) =
        IF InCircle(a, b, newpoint) THEN Around(a, b, newpoint - 1) \cup {newpoint}
        ELSE Around(a, b, newpoint - 1)
  BY <1>1 DEF Around
<1>5. list = box
  BY <1>3, <1>4
<1>6. inbox' = [inbox EXCEPT ![<<a, b>>] = list]
  BY DEF ExtendBackbone
<1>7. CASE joins
  <2>1. batch' = Quads(a, b, list, {newpoint}) /\ tried' = tried \cup Quads(a, b, list, {newpoint})
    BY <1>7 DEF ExtendBackbone, Try
  <2> QED
    BY <1>2, <1>5, <1>6, <2>1
<1>8. CASE ~joins
  <2>1. batch' = {} /\ tried' = tried
    BY <1>8 DEF ExtendBackbone
  <2>2. newpoint \notin box
    BY <1>1, <1>4, <1>8 DEF Around
  <2>3. Quads(a, b, box, {newpoint}) = {}
    <3> SUFFICES ASSUME NEW t \in Quads(a, b, box, {newpoint}) PROVE FALSE
      OBVIOUS
    <3>1. t.members \subseteq box /\ newpoint \in t.members
      BY DEF Quads
    <3> QED
      BY <2>2, <3>1
  <2> QED
    BY <1>2, <1>5, <1>6, <2>1, <2>3
<1> QED
  BY <1>7, <1>8

\* A backbone among earlier stars that the newest star is offered to.
LEMMA ExtendBackboneStep ==
  ASSUME IInv, ExtendBackbone
  PROVE  IInv'
<1>1. CASE pc' = "done"
  BY <1>1, FoundStep
<1>2. CASE pc' # "done"
  <2>1. /\ pc = "old" /\ b < newpoint /\ UNCHANGED <<field, newpoint, outcome>> /\ pc' = "old"
        /\ a' = IF a + 1 = b THEN 1 ELSE a + 1
        /\ b' = IF a + 1 = b THEN b + 1 ELSE b
    BY <1>2 DEF ExtendBackbone, Try
  <2>2. newpoint \in Nat /\ 2 <= newpoint /\ a \in Nat /\ 1 <= a /\ a < b /\ b \in Nat
    BY <2>1 DEF IInv, LoopInv
  <2>3. LoopInv'
    <3>1. Stars' = Stars /\ Stars \in Nat /\ newpoint <= Stars /\ field \in Fields
      BY <2>1, StarsNat DEF IInv, LoopInv, Stars
    <3> QED
      BY <2>1, <2>2, <3>1 DEF LoopInv
  <2>4. PICK p \in Nat, q \in Nat, n \in Nat : p = a /\ q = b /\ n = newpoint
    BY <2>2
  <2>5. PICK box, must : /\ box = IF InHull(Scale2(p, q)) THEN Around(p, q, newpoint) ELSE {}
                         /\ must = {n}
    OBVIOUS
  <2>6. \A x, y \in Nat : Known(x, y)' <=> Known(x, y) \/ <<x, y>> = <<p, q>>
    BY <2>1, <2>2, <2>4 DEF Known, Added
  <2>7. \A x, y \in Nat : Known(x, y) /\ <<x, y>> # <<p, q>> => Offered(x, y)' = Offered(x, y)
    BY <2>1, <2>2, <2>4 DEF Known, Added, Offered, Extended
  <2>8. Offered(p, q)' = newpoint
    BY <2>1, <2>2, <2>4 DEF Offered, Extended
  <2>9. /\ Known(p, q) /\ Offered(p, q) = n - 1
        /\ inbox' = [inbox EXCEPT ![<<p, q>>] = box]
        /\ tried' = tried \cup Quads(p, q, box, must)
    BY <2>4, <2>5, ExtendBackboneLooksUp
  <2>10. ASSUME NEW t, IsQuad(t, box), t.ab = <<p, q>>
         PROVE  LookedUp(t) <=> ~(must \subseteq t.members)
    <3>1. LookedUp(t) <=> IsQuad(t, Around(p, q, n - 1))
      BY <2>9, <2>10 DEF LookedUp
    <3>2. InHull(Scale2(p, q))
      BY <2>10, WindowInHull DEF IsQuad
    <3>3. t.members \subseteq Around(p, q, n)
      BY <2>4, <2>5, <2>10, <3>2 DEF IsQuad
    <3>4. t.members \subseteq Around(p, q, n - 1) <=> n \notin t.members
      BY <2>4, <3>3 DEF Around
    <3>5. IsQuad(t, Around(p, q, n - 1)) <=> t.members \subseteq Around(p, q, n - 1)
      BY <2>10 DEF IsQuad
    <3> QED
      BY <2>5, <3>1, <3>4, <3>5
  <2>11. box \in SUBSET Nat /\ must \in SUBSET Nat /\ pc # "done" /\ pc' # "done"
    BY <1>2, <2>1, <2>5 DEF Around
  <2>12. <<p, q>> \in DOMAIN inbox
    BY <2>9, <2>11 DEF IInv, InboxInv
  <2>13. /\ \A ab : ab \in DOMAIN inbox' <=> ab \in DOMAIN inbox \/ ab = <<p, q>>
         /\ \A ab \in DOMAIN inbox' : inbox'[ab] = IF ab = <<p, q>> THEN box ELSE inbox[ab]
    BY <2>9, <2>12
  <2>14. \A t : t \in tried' <=> t \in tried \/ t \in Quads(p, q, box, must)
    BY <2>9
  <2>15. InboxInv' /\ TriedInv'
    <3>1. box = IF InHull(Scale2(p, q)) THEN Around(p, q, newpoint) ELSE {}
      BY <2>5
    <3>2. UNCHANGED <<field, newpoint, outcome>>
      BY <2>1
    <3>3. box \in SUBSET Nat /\ must \in SUBSET Nat
      BY <2>11
    <3>4. pc # "done" /\ pc' # "done"
      BY <2>11
    <3>5. \A ab : ab \in DOMAIN inbox' <=> ab \in DOMAIN inbox \/ ab = <<p, q>>
      BY <2>13
    <3>6. \A ab \in DOMAIN inbox' : inbox'[ab] = IF ab = <<p, q>> THEN box ELSE inbox[ab]
      BY <2>13
    <3> QED
      BY <2>6, <2>7, <2>8, <2>10, <2>14, <3>1, <3>2, <3>3, <3>4, <3>5, <3>6, PassBackbone
  <2> QED
    BY <2>3, <2>15 DEF IInv
<1> QED
  BY <1>1, <1>2

LEMMA StepInv == IInv /\ [Next]_vars => IInv'
<1> SUFFICES ASSUME IInv, [Next]_vars PROVE IInv'
  OBVIOUS
<1>1. CASE UNCHANGED vars
  <2>1. LoopInv'
    BY <1>1 DEF vars, IInv, LoopInv, Stars
  <2>2. CASE pc = "done"
    <3>1. QuadsAmong(Stars)' = QuadsAmong(Stars)
      BY <1>1 DEF vars, QuadsAmong, Stars, Scale2, InCircle
    <3>2. InboxInv' /\ TriedInv'
      BY <1>1, <2>2, <3>1 DEF vars, IInv, InboxInv, TriedInv
    <3> QED
      BY <2>1, <3>2 DEF IInv
  <2>3. CASE pc # "done"
    <3>1. /\ \A p, q \in Nat : Known(p, q)' <=> Known(p, q)
          /\ \A p, q \in Nat : Offered(p, q)' = Offered(p, q)
      BY <1>1 DEF vars, Known, Added, Offered, Extended
    <3> QED
      BY <1>1, <2>1, <2>3, <3>1, SameProgress DEF vars
  <2> QED
    BY <2>2, <2>3
<1> QED
  BY <1>1, MoveStep, FinishStep, NewBackboneStep, ExtendBackboneStep DEF Next

-----------------------------------------------------------------------------
(* The theorems.                                                            *)

\* The inductive invariant: exactly the quads the loops have passed.
THEOREM Invariance == Spec => []IInv
  BY InitInv, StepInv, PTL DEF Spec

\* A deadline that ends the search costs the faintest stars only: when a star
\* comes up, the quads among the brighter ones have been looked up, all of
\* them, for every image and every set of indexes (engine.rs, quad_search).
THEOREM BrightFirst == Spec => []BrightestFirst
<1>1. IInv => BrightestFirst
  BY StarHead DEF BrightestFirst
<1> QED
  BY <1>1, Invariance, PTL

\* A search that reports nothing before its deadline has tried every quad.
THEOREM Exhaustive == Spec => []NoneIsExhaustive
<1>1. IInv => NoneIsExhaustive
  BY DEF IInv, TriedInv, NoneIsExhaustive
<1> QED
  BY <1>1, Invariance, PTL

\* No quad is looked up twice, so the two-phase bookkeeping of pquads wastes no
\* time under the deadline.
THEOREM TriedOnce == Spec => NeverTwice
<1>1. ASSUME IInv, [Next]_vars PROVE [batch' # batch => batch' \cap tried = {}]_vars
  <2>1. CASE NewBackbone
    <3>1. PICK box : batch' = Quads(a, newpoint, box, {})
      BY <1>1, <2>1, NewBackboneLooksUp
    <3>2. ~Known(a, newpoint) /\ pc # "done"
      BY <1>1, <2>1 DEF NewBackbone, IInv, LoopInv, Known, Added
    <3>3. \A t \in batch' : t.ab = <<a, newpoint>>
      BY <3>1 DEF Quads
    <3>4. \A t \in batch' : t \notin tried
      BY <1>1, <3>2, <3>3 DEF IInv, TriedInv, LookedUp
    <3> QED
      BY <3>4
  <2>2. CASE ExtendBackbone
    <3>1. /\ Known(a, b) /\ Offered(a, b) = newpoint - 1
          /\ \E box : batch' = Quads(a, b, box, {newpoint})
      BY <1>1, <2>2, ExtendBackboneLooksUp
    <3>2. \A t \in batch' : t.ab = <<a, b>> /\ newpoint \in t.members
      BY <3>1 DEF Quads
    <3>3. newpoint \in Nat /\ pc # "done"
      BY <1>1, <2>2 DEF ExtendBackbone, IInv, LoopInv
    <3>4. \A t \in batch' : t \notin tried
      <4> SUFFICES ASSUME NEW t \in batch', LookedUp(t) PROVE FALSE
        BY <1>1, <3>3 DEF IInv, TriedInv
      <4>1. t.members \subseteq Around(a, b, newpoint - 1)
        <5>1. t.ab[1] = a /\ t.ab[2] = b
          BY <3>2
        <5>2. IsQuad(t, Around(a, b, newpoint - 1))
          BY <3>1, <5>1 DEF LookedUp
        <5> QED
          BY <5>2 DEF IsQuad
      <4>2. newpoint \notin Around(a, b, newpoint - 1)
        BY <3>3 DEF Around
      <4> QED
        BY <3>2, <4>1, <4>2
    <3> QED
      BY <3>4
  <2>3. CASE NothingToSearch \/ Exhausted \/ Deadline \/ AddStar \/ StarDone
    BY <2>3 DEF NothingToSearch, Exhausted, Deadline, Finish, AddStar, StarDone
  <2>4. CASE Begin \/ NextStar
    BY <2>4 DEF Begin, NextStar
  <2>5. CASE UNCHANGED vars
    BY <2>5
  <2> QED
    BY <1>1, <2>1, <2>2, <2>3, <2>4, <2>5 DEF Next
<1> QED
  BY <1>1, Invariance, PTL DEF Spec, NeverTwice

-----------------------------------------------------------------------------
(* The frame of a backbone.                                                 *)

\* Seen from the other end of the backbone.
LEMMA RenamedFrame ==
  ASSUME NEW dx \in Int, NEW dy \in Int, NEW cx \in Int, NEW cy \in Int
  PROVE  /\ (cx - dx) * ((0 - dy) + (0 - dx)) + (cy - dy) * ((0 - dy) - (0 - dx))
              = (dx * dx + dy * dy) - (cx * (dy + dx) + cy * (dy - dx))
         /\ (cy - dy) * ((0 - dy) + (0 - dx)) - (cx - dx) * ((0 - dy) - (0 - dx))
              = (dx * dx + dy * dy) - (cy * (dy + dx) - cx * (dy - dx))
  OBVIOUS

\* Seen in a mirror.
LEMMA MirroredFrame ==
  ASSUME NEW dx \in Int, NEW dy \in Int, NEW cx \in Int, NEW cy \in Int
  PROVE  /\ cy * (dx + dy) + cx * (dx - dy) = cy * (dy + dx) - cx * (dy - dx)
         /\ cx * (dx + dy) - cy * (dx - dy) = cx * (dy + dx) + cy * (dy - dx)
         /\ dy * dy + dx * dx = dx * dx + dy * dy
  OBVIOUS

Place == Int \X Int
Mirror(p) == <<p[2], p[1]>>

\* The code coordinates are integers.
LEMMA CodeType ==
  ASSUME NEW p \in Place, NEW q \in Place, NEW m \in Place
  PROVE  CodeXY(p, q, m) \in Place /\ Scale(p, q) \in Int
  BY DEF Place, CodeXY, Scale

\* Exchanging the names of the ends complements a code.
LEMMA Renamed ==
  ASSUME NEW p \in Place, NEW q \in Place, NEW m \in Place
  PROVE  LET c == CodeXY(p, q, m)
         IN  CodeXY(q, p, m) = <<Scale(p, q) - c[1], Scale(p, q) - c[2]>>
<1>1. PICK dx \in Int, dy \in Int, cx \in Int, cy \in Int :
        dx = q[1] - p[1] /\ dy = q[2] - p[2] /\ cx = m[1] - p[1] /\ cy = m[2] - p[2]
  <2>1. q[1] - p[1] \in Int /\ q[2] - p[2] \in Int /\ m[1] - p[1] \in Int /\ m[2] - p[2] \in Int
    BY DEF Place
  <2> QED
    BY <2>1
<1>2. /\ p[1] - q[1] = 0 - dx /\ p[2] - q[2] = 0 - dy
      /\ m[1] - q[1] = cx - dx /\ m[2] - q[2] = cy - dy
  <2>1. p[1] \in Int /\ p[2] \in Int /\ q[1] \in Int /\ q[2] \in Int /\ m[1] \in Int /\ m[2] \in Int
    BY DEF Place
  <2> QED
    BY <1>1, <2>1
<1>3. CodeXY(q, p, m) = <<(cx - dx) * ((0 - dy) + (0 - dx)) + (cy - dy) * ((0 - dy) - (0 - dx)),
                         (cy - dy) * ((0 - dy) + (0 - dx)) - (cx - dx) * ((0 - dy) - (0 - dx))>>
  BY <1>2, Zenon DEF CodeXY
<1>4. /\ CodeXY(p, q, m) = <<cx * (dy + dx) + cy * (dy - dx), cy * (dy + dx) - cx * (dy - dx)>>
      /\ Scale(p, q) = dx * dx + dy * dy
  BY <1>1, Zenon DEF CodeXY, Scale
<1> DEFINE u == cx * (dy + dx) + cy * (dy - dx)
           v == cy * (dy + dx) - cx * (dy - dx)
           w == dx * dx + dy * dy
           r == (cx - dx) * ((0 - dy) + (0 - dx)) + (cy - dy) * ((0 - dy) - (0 - dx))
           s == (cy - dy) * ((0 - dy) + (0 - dx)) - (cx - dx) * ((0 - dy) - (0 - dx))
<1>5. r = w - u /\ s = w - v
  BY RenamedFrame
<1>6. CodeXY(p, q, m) = <<u, v>> /\ Scale(p, q) = w /\ CodeXY(q, p, m) = <<r, s>>
  BY <1>3, <1>4, Zenon
<1> HIDE DEF u, v, w, r, s
<1> QED
  BY <1>5, <1>6

\* Mirroring the stars exchanges the coordinates of a code.
LEMMA Mirrored ==
  ASSUME NEW p \in Place, NEW q \in Place, NEW m \in Place
  PROVE  LET c == CodeXY(p, q, m)
         IN  /\ CodeXY(Mirror(p), Mirror(q), Mirror(m)) = <<c[2], c[1]>>
             /\ Scale(Mirror(p), Mirror(q)) = Scale(p, q)
<1>1. PICK dx \in Int, dy \in Int, cx \in Int, cy \in Int :
        dx = q[1] - p[1] /\ dy = q[2] - p[2] /\ cx = m[1] - p[1] /\ cy = m[2] - p[2]
  <2>1. q[1] - p[1] \in Int /\ q[2] - p[2] \in Int /\ m[1] - p[1] \in Int /\ m[2] - p[2] \in Int
    BY DEF Place
  <2> QED
    BY <2>1
<1>2. /\ CodeXY(Mirror(p), Mirror(q), Mirror(m))
            = <<cy * (dx + dy) + cx * (dx - dy), cx * (dx + dy) - cy * (dx - dy)>>
      /\ Scale(Mirror(p), Mirror(q)) = dy * dy + dx * dx
  BY <1>1 DEF CodeXY, Scale, Mirror
<1>3. /\ CodeXY(p, q, m) = <<cx * (dy + dx) + cy * (dy - dx), cy * (dy + dx) - cx * (dy - dx)>>
      /\ Scale(p, q) = dx * dx + dy * dy
  BY <1>1, Zenon DEF CodeXY, Scale
<1> DEFINE u == cx * (dy + dx) + cy * (dy - dx)
           v == cy * (dy + dx) - cx * (dy - dx)
           w == dx * dx + dy * dy
           r == cy * (dx + dy) + cx * (dx - dy)
           s == cx * (dx + dy) - cy * (dx - dy)
           x == dy * dy + dx * dx
<1>4. r = v /\ s = u /\ x = w
  BY MirroredFrame
<1>5. /\ CodeXY(p, q, m) = <<u, v>> /\ Scale(p, q) = w
      /\ CodeXY(Mirror(p), Mirror(q), Mirror(m)) = <<r, s>>
      /\ Scale(Mirror(p), Mirror(q)) = x
  BY <1>2, <1>3, Zenon
<1> HIDE DEF u, v, w, r, s, x
<1> QED
  BY <1>4, <1>5

-----------------------------------------------------------------------------
(* One star of the quad.                                                    *)

\* The ends of the backbone as the present round names them.
First == IF swap THEN 2 ELSE 1
Second == IF swap THEN 1 ELSE 2

\* What Original computes is the code of the star as renamed and mirrored.
LEMMA OriginalIsCode ==
  ASSUME quad \in Sample, flip \in BOOLEAN, swap \in BOOLEAN, NEW m \in Members
  PROVE  Original(m) = CodeXY(At(First, flip), At(Second, flip), At(m, flip))
<1>1. quad.stars \in Seq(Place) /\ Len(quad.stars) >= 2 /\ Len(quad.stars) \in Nat
  BY CodesAssumption DEF CodesAssumption, Place
<1>2. m \in 1 .. Len(quad.stars) /\ 1 \in 1 .. Len(quad.stars) /\ 2 \in 1 .. Len(quad.stars)
  BY <1>1 DEF Members
<1>3. PICK p \in Place : p = quad.stars[1]
  BY <1>1, <1>2
<1>4. PICK q \in Place : q = quad.stars[2]
  BY <1>1, <1>2
<1>5. PICK t \in Place : t = quad.stars[m]
  BY <1>1, <1>2
<1>6. PICK c \in Place : c = CodeXY(p, q, t)
  BY CodeType
<1>7. PICK unit : unit = Scale(p, q)
  OBVIOUS
<1>8. /\ CodeXY(p, q, t) = c /\ CodeXY(q, p, t) = <<unit - c[1], unit - c[2]>>
      /\ CodeXY(Mirror(p), Mirror(q), Mirror(t)) = <<c[2], c[1]>>
  BY <1>6, <1>7, Renamed, Mirrored
<1>9. CodeXY(Mirror(q), Mirror(p), Mirror(t)) = <<unit - c[2], unit - c[1]>>
  <2>1. PICK pp \in Place : pp = Mirror(p)
    BY DEF Place, Mirror
  <2>2. PICK qq \in Place : qq = Mirror(q)
    BY DEF Place, Mirror
  <2>3. PICK tt \in Place : tt = Mirror(t)
    BY DEF Place, Mirror
  <2>4. Scale(pp, qq) = unit /\ CodeXY(pp, qq, tt) = <<c[2], c[1]>>
    BY <1>7, <1>8, <2>1, <2>2, <2>3, Mirrored
  <2>5. CodeXY(qq, pp, tt) = <<Scale(pp, qq) - CodeXY(pp, qq, tt)[1], Scale(pp, qq) - CodeXY(pp, qq, tt)[2]>>
    BY Renamed
  <2> QED
    BY <2>1, <2>2, <2>3, <2>4, <2>5
<1>10. /\ At(1, flip) = (IF flip THEN Mirror(p) ELSE p)
       /\ At(2, flip) = (IF flip THEN Mirror(q) ELSE q)
       /\ At(m, flip) = (IF flip THEN Mirror(t) ELSE t)
  BY <1>3, <1>4, <1>5 DEF At, Mirror
<1>11. Original(m) = LET read == IF flip THEN <<c[2], c[1]>> ELSE c
                     IN  IF swap THEN <<unit - read[1], unit - read[2]>> ELSE read
  BY <1>3, <1>4, <1>5, <1>6, <1>7 DEF Original, A, B
<1>12. c = <<c[1], c[2]>>
  BY DEF Place
<1>13. CASE ~swap /\ ~flip
  BY <1>8, <1>10, <1>11, <1>13 DEF First, Second
<1>14. CASE ~swap /\ flip
  BY <1>8, <1>10, <1>11, <1>14 DEF First, Second
<1>15. CASE swap /\ ~flip
  BY <1>8, <1>10, <1>11, <1>15 DEF First, Second
<1>16. CASE swap /\ flip
  BY <1>9, <1>10, <1>11, <1>16 DEF First, Second
<1> QED
  BY <1>13, <1>14, <1>15, <1>16

-----------------------------------------------------------------------------
(* A labelling.                                                             *)

\* An order of stars: the ends of the backbone, then the members.
LEMMA OrderFacts ==
  ASSUME NEW s \in BOOLEAN, NEW n \in Nat, NEW o \in [1 .. n -> Members]
  PROVE  LET order == (IF s THEN <<2, 1>> ELSE <<1, 2>>) \o o
         IN /\ Len(order) - 2 = n
            /\ order[1] = (IF s THEN 2 ELSE 1) /\ order[2] = (IF s THEN 1 ELSE 2)
            /\ \A i \in 1 .. n : order[i + 2] = o[i]
<1>1. o \in Seq(Members) /\ Len(o) = n
  OBVIOUS
<1>2. PICK base : base = IF s THEN <<2, 1>> ELSE <<1, 2>>
  OBVIOUS
<1>3. base \in Seq({1, 2}) /\ Len(base) = 2 /\ base[1] = (IF s THEN 2 ELSE 1) /\ base[2] = (IF s THEN 1 ELSE 2)
  <2>1. CASE s
    BY <1>2, <2>1
  <2>2. CASE ~s
    BY <1>2, <2>2
  <2> QED
    BY <2>1, <2>2
<1> DEFINE S == Members \cup {1, 2}
<1>4. base \in Seq(S) /\ o \in Seq(S)
  <2>1. {1, 2} \subseteq S /\ Members \subseteq S
    OBVIOUS
  <2> HIDE DEF S
  <2> QED
    BY <1>1, <1>3, <2>1, SeqMonotonic
<1> HIDE DEF S
<1>5. /\ Len(base \o o) = 2 + n
      /\ \A i \in 1 .. 2 + n : (base \o o)[i] = IF i <= 2 THEN base[i] ELSE o[i - 2]
  <2>1. /\ Len(base \o o) = Len(base) + Len(o)
        /\ \A i \in 1 .. Len(base) + Len(o) :
             (base \o o)[i] = IF i <= Len(base) THEN base[i] ELSE o[i - Len(base)]
    BY <1>4, ConcatProperties
  <2> QED
    BY <1>1, <1>3, <2>1
<1>6. \A i \in 1 .. n : i + 2 \in 1 .. 2 + n /\ ~(i + 2 <= 2) /\ i + 2 - 2 = i
  OBVIOUS
<1>7. 1 \in 1 .. 2 + n /\ 2 \in 1 .. 2 + n /\ 2 + n - 2 = n
  OBVIOUS
<1> QED
  BY <1>2, <1>3, <1>5, <1>6, <1>7

\* A code has a place for every member.
LEMMA CodeOfType ==
  ASSUME quad.stars \in Seq(Place), NEW n \in Nat, Len(quad.stars) = n + 2,
         NEW s \in BOOLEAN, NEW f \in BOOLEAN, NEW o \in [1 .. n -> Members]
  PROVE  CodeOf((IF s THEN <<2, 1>> ELSE <<1, 2>>) \o o, f) \in [1 .. n -> Place]
<1>1. PICK order : order = (IF s THEN <<2, 1>> ELSE <<1, 2>>) \o o
  OBVIOUS
<1>2. /\ Len(order) - 2 = n /\ order[1] \in {1, 2} /\ order[2] \in {1, 2}
      /\ \A i \in 1 .. n : order[i + 2] = o[i]
  BY <1>1, OrderFacts
<1>3. \A i \in 1 .. n + 2 : At(i, f) \in Place
  <2>1. \A i \in 1 .. n + 2 : quad.stars[i] \in Place
    BY ElementOfSeq
  <2> QED
    BY <2>1 DEF At, Place
<1>4. ASSUME NEW i \in 1 .. n
      PROVE  CodeXY(At(order[1], f), At(order[2], f), At(order[i + 2], f)) \in Place
  <2>1. order[1] \in 1 .. n + 2 /\ order[2] \in 1 .. n + 2
    BY <1>2
  <2>2. order[i + 2] \in 1 .. n + 2
    <3>1. order[i + 2] = o[i] /\ o[i] \in Members
      BY <1>2
    <3>2. \A k \in Members : k \in 1 .. n + 2
      BY DEF Members
    <3> QED
      BY <3>1, <3>2
  <2>3. At(order[1], f) \in Place /\ At(order[2], f) \in Place /\ At(order[i + 2], f) \in Place
    BY <1>3, <2>1, <2>2
  <2> QED
    BY <2>3, CodeType
<1>5. CodeOf(order, f) = [i \in 1 .. n |-> CodeXY(At(order[1], f), At(order[2], f), At(order[i + 2], f))]
  BY <1>2 DEF CodeOf
<1> QED
  BY <1>1, <1>4, <1>5

\* What a round makes of the members in some order is the code of that order.
LEMMA LabellingIsCode ==
  ASSUME quad \in Sample, flip \in BOOLEAN, swap \in BOOLEAN, NEW o \in Orders
  PROVE  CodeOf((IF swap THEN <<2, 1>> ELSE <<1, 2>>) \o o, flip) = [t \in DOMAIN o |-> Original(o[t])]
<1>1. Len(quad.stars) \in Nat /\ Len(quad.stars) >= 2
  BY CodesAssumption DEF CodesAssumption
<1>2. PICK n \in Nat : n = Len(quad.stars) - 2
  <2>1. Len(quad.stars) - 2 \in Nat
    BY <1>1
  <2> QED
    BY <2>1
<1>3. o \in [1 .. n -> Members]
  BY <1>2 DEF Orders
<1>4. PICK order : order = (IF swap THEN <<2, 1>> ELSE <<1, 2>>) \o o
  OBVIOUS
<1>5. /\ Len(order) - 2 = n /\ order[1] = First /\ order[2] = Second
      /\ \A s \in 1 .. n : order[s + 2] = o[s]
  BY <1>3, <1>4, OrderFacts DEF First, Second
<1>6. CodeOf(order, flip)
         = [s \in 1 .. n |-> CodeXY(At(First, flip), At(Second, flip), At(o[s], flip))]
  BY <1>5 DEF CodeOf
<1>7. \A s \in 1 .. n :
         Original(o[s]) = CodeXY(At(First, flip), At(Second, flip), At(o[s], flip))
  BY <1>3, OriginalIsCode
<1> QED
  BY <1>3, <1>4, <1>6, <1>7

\* Every labelling of a round has the code of its order.
LEMMA PermuteIsConsistent ==
  ASSUME quad \in Sample, flip \in BOOLEAN, swap \in BOOLEAN, NEW l \in Permute
  PROVE  l.code = CodeOf(l.order, l.flip)
<1>1. PICK o \in Orders :
        /\ l.order = (IF swap THEN <<2, 1>> ELSE <<1, 2>>) \o o
        /\ l.code = [s \in DOMAIN o |-> Original(o[s])]
        /\ l.flip = flip
  <2>1. \E o \in Orders :
          l = [order |-> (IF swap THEN <<2, 1>> ELSE <<1, 2>>) \o o,
               code |-> [s \in DOMAIN o |-> Original(o[s])], flip |-> flip]
    BY Zenon DEF Permute
  <2>2. ASSUME NEW o \in Orders, NEW ord, NEW cod,
               l = [order |-> ord, code |-> cod, flip |-> flip]
        PROVE  l.order = ord /\ l.code = cod /\ l.flip = flip
    BY <2>2
  <2> QED
    BY <2>1, <2>2, Zenon
<1> QED
  BY <1>1, LabellingIsCode

-----------------------------------------------------------------------------
(* The margin of permute.                                                   *)

\* Two coordinates that are off by at most c together differ by at most
\* one and a half c.
LEMMA PairMargin ==
  ASSUME NEW xa \in Int, NEW xb \in Int, NEW c \in Nat, xa * xa + xb * xb <= c * c
  PROVE  2 * (xb - xa) <= 3 * c
<1>1. PICK d \in Int : d = xb - xa
  OBVIOUS
<1>2. d * d <= 2 * (c * c)
  <2>1. d * d + (xa + xb) * (xa + xb) = 2 * (xa * xa + xb * xb)
    BY <1>1
  <2>2. (xa + xb) * (xa + xb) >= 0
    OBVIOUS
  <2> QED
    BY <2>1, <2>2
<1>3. SUFFICES ASSUME 2 * d > 3 * c PROVE FALSE
  BY <1>1
<1>4. (2 * d) * (2 * d) > (3 * c) * (3 * c)
  <2>1. PICK x \in Int, y \in Nat : x = 2 * d /\ y = 3 * c
    OBVIOUS
  <2>2. x > y
    BY <1>3, <2>1
  <2>3. x * x > y * y
    BY <2>2
  <2> QED
    BY <2>1, <2>3
<1>5. 4 * (d * d) > 9 * (c * c)
  BY <1>4
<1>6. c * c >= 0 /\ d * d \in Int /\ c * c \in Int
  OBVIOUS
<1> QED
  BY <1>2, <1>5, <1>6

\* In ascending order if every neighbour is.
LEMMA Ascending ==
  ASSUME NEW n \in Nat, NEW x \in [1 .. n -> Int], \A s \in 2 .. n : x[s - 1] <= x[s]
  PROVE  \A k \in 1 .. n : \A i \in 1 .. k : x[i] <= x[k]
<1> DEFINE T == {k \in 0 .. n : \A i \in 1 .. k : x[i] <= x[k]}
<1>1. 0 \in T
  OBVIOUS
<1>2. ASSUME NEW k \in 1 .. n, k - 1 \in T PROVE k \in T
  <2>1. ASSUME NEW i \in 1 .. k PROVE x[i] <= x[k]
    <3>1. CASE i = k
      <4>1. x[k] \in Int
        OBVIOUS
      <4> QED
        BY <3>1, <4>1
    <3>2. CASE i # k
      <4>1. i \in 1 .. k - 1 /\ k \in 2 .. n /\ i \in 1 .. n /\ k - 1 \in 1 .. n
        BY <3>2
      <4>2. x[i] <= x[k - 1]
        BY <1>2, <4>1
      <4>3. x[k - 1] <= x[k]
        BY <4>1
      <4>4. x[i] \in Int /\ x[k - 1] \in Int /\ x[k] \in Int
        BY <4>1
      <4> QED
        BY <4>2, <4>3, <4>4
    <3> QED
      BY <3>1, <3>2
  <2> QED
    BY <2>1
<1> HIDE DEF T
<1>3. \A k \in 0 .. n : k \in T
  BY <1>1, <1>2, BoundedInduction
<1> QED
  BY <1>3 DEF T

\* The smallest of some numbers have no larger mean than all of them.
LEMMA PrefixMean ==
  ASSUME NEW n \in Nat, NEW x \in [1 .. n -> Int], NEW u \in Int,
         \A s \in 2 .. n : x[s - 1] <= x[s],
         2 * RunningSum(x, n)[n] <= n * u
  PROVE  \A s \in 1 .. n : 2 * RunningSum(x, n)[s] <= s * u
<1> DEFINE sum == RunningSum(x, n)
<1>1. /\ \A i \in 0 .. n : sum[i] \in Int
      /\ sum[0] = 0
      /\ \A i \in 1 .. n : sum[i] = sum[i - 1] + x[i]
      /\ \A k \in 1 .. n : \A i \in 1 .. k : x[i] <= x[k]
      /\ 2 * sum[n] <= n * u
  BY SumRecursion, Ascending
<1> HIDE DEF sum
<1> SUFFICES ASSUME NEW s \in 1 .. n PROVE 2 * sum[s] <= s * u
  BY DEF sum
<1>2. \A i \in 1 .. n : x[i] \in Int
  OBVIOUS
<1>3. \A i \in Int : i * u = (i - 1) * u + u /\ i * u \in Int
  OBVIOUS
<1>4. CASE 2 * x[s] <= u
  <2> DEFINE T == {i \in 0 .. s : 2 * sum[i] <= i * u}
  <2>1. 0 \in T
    BY <1>1
  <2>2. ASSUME NEW i \in 1 .. s, i - 1 \in T PROVE i \in T
    <3>1. i \in 1 .. n /\ i - 1 \in 0 .. n /\ i \in 0 .. s /\ i \in Int
      OBVIOUS
    <3>2. x[i] \in Int /\ x[s] \in Int /\ sum[i - 1] \in Int /\ x[i] <= x[s] /\ sum[i] = sum[i - 1] + x[i]
      BY <1>1, <1>2, <3>1
    <3>3. 2 * sum[i - 1] <= (i - 1) * u
      BY <2>2
    <3>4. i * u = (i - 1) * u + u /\ (i - 1) * u \in Int
      BY <1>3, <3>1
    <3>5. 2 * sum[i] <= i * u
      BY <1>4, <3>2, <3>3, <3>4
    <3> QED
      BY <3>1, <3>5
  <2> HIDE DEF T
  <2>3. s \in Nat /\ s \in 0 .. s
    OBVIOUS
  <2>4. \A i \in 0 .. s : i \in T
    BY <2>1, <2>2, <2>3, BoundedInduction
  <2> QED
    BY <2>3, <2>4 DEF T
<1>5. CASE ~(2 * x[s] <= u)
  <2> DEFINE m == n - s
             T == {k \in 0 .. m : 2 * sum[s + k] >= 2 * sum[s] + k * u}
  <2>1. m \in Nat /\ s + m = n /\ s \in 0 .. n /\ s + 0 = s
    OBVIOUS
  <2>2. sum[s] \in Int
    BY <1>1, <2>1
  <2> HIDE DEF m
  <2>3. 0 \in T
    <3>1. 0 * u = 0 /\ 2 * sum[s] \in Int
      BY <2>2
    <3> QED
      BY <2>1, <3>1
  <2>4. ASSUME NEW k \in 1 .. m, k - 1 \in T PROVE k \in T
    <3>1. /\ s + k \in 1 .. n /\ s + (k - 1) \in 0 .. n /\ s \in 1 .. s + k /\ k \in 0 .. m /\ k \in Int
          /\ (s + k) - 1 = s + (k - 1)
      BY <2>1
    <3>2. x[s] <= x[s + k] /\ x[s] \in Int /\ x[s + k] \in Int /\ sum[s + (k - 1)] \in Int
          /\ sum[s + k] = sum[s + (k - 1)] + x[s + k]
      BY <1>1, <1>2, <3>1
    <3>3. 2 * sum[s + (k - 1)] >= 2 * sum[s] + (k - 1) * u
      BY <2>4
    <3>4. k * u = (k - 1) * u + u /\ (k - 1) * u \in Int
      BY <1>3, <3>1
    <3>5. PICK v \in Int, w \in Int, before \in Int, now \in Int, first \in Int, last \in Int, start \in Int :
            /\ v = (k - 1) * u /\ w = k * u /\ before = sum[s + (k - 1)] /\ now = sum[s + k]
            /\ first = x[s] /\ last = x[s + k] /\ start = sum[s]
      <4>1. k * u \in Int /\ (k - 1) * u \in Int /\ sum[s + k] \in Int
        BY <3>2, <3>4
      <4> QED
        BY <2>2, <3>2, <4>1, Zenon
    <3>6. 2 * before >= 2 * start + v /\ w = v + u /\ first <= last /\ now = before + last /\ 2 * first > u
      BY <1>5, <3>2, <3>3, <3>4, <3>5
    <3>7. 2 * now >= 2 * start + w
      BY <3>6
    <3>8. 2 * sum[s + k] >= 2 * sum[s] + k * u
      BY <3>5, <3>7
    <3> QED
      BY <3>1, <3>8
  <2> HIDE DEF T
  <2>5. \A k \in 0 .. m : k \in T
    BY <2>1, <2>3, <2>4, BoundedInduction
  <2>6. 2 * sum[n] >= 2 * sum[s] + m * u
    <3>1. m \in T
      BY <2>1, <2>5
    <3> QED
      BY <2>1, <3>1 DEF T
  <2>7. m * u = n * u - s * u /\ m * u \in Int /\ n * u \in Int /\ s * u \in Int
    BY <2>1 DEF m
  <2>8. n \in 0 .. n
    OBVIOUS
  <2>9. PICK v \in Int, w \in Int, all \in Int, some \in Int, rest \in Int :
          v = n * u /\ w = s * u /\ rest = m * u /\ all = sum[n] /\ some = sum[s]
    BY <1>1, <2>2, <2>7, <2>8
  <2>10. 2 * all <= v /\ 2 * all >= 2 * some + rest /\ rest = v - w
    BY <1>1, <2>6, <2>7, <2>9
  <2>11. 2 * some <= w
    BY <2>10
  <2> QED
    BY <2>9, <2>11
<1> QED
  BY <1>4, <1>5

\* Numbers that are off by at most c each.
LEMMA SumMargin ==
  ASSUME NEW n \in Nat, NEW x \in [1 .. n -> Int], NEW y \in [1 .. n -> Int], NEW c \in Nat,
         \A i \in 1 .. n : x[i] <= y[i] + c
  PROVE  \A s \in 0 .. n : RunningSum(x, n)[s] <= RunningSum(y, n)[s] + s * c
<1> DEFINE sx == RunningSum(x, n)
           sy == RunningSum(y, n)
           T == {i \in 0 .. n : sx[i] <= sy[i] + i * c}
<1>1. /\ \A i \in 0 .. n : sx[i] \in Int /\ sy[i] \in Int
      /\ sx[0] = 0 /\ sy[0] = 0
      /\ \A i \in 1 .. n : sx[i] = sx[i - 1] + x[i] /\ sy[i] = sy[i - 1] + y[i]
  BY SumRecursion
<1> HIDE DEF sx, sy
<1>2. 0 \in T
  <2>1. 0 * c = 0 /\ 0 \in 0 .. n
    OBVIOUS
  <2>2. sx[0] <= sy[0] + 0 * c
    BY <1>1, <2>1
  <2> QED
    BY <2>1, <2>2
<1>3. ASSUME NEW i \in 1 .. n, i - 1 \in T PROVE i \in T
  <2>1. i - 1 \in 0 .. n /\ i \in 0 .. n
    OBVIOUS
  <2>2. /\ sx[i - 1] \in Int /\ sy[i - 1] \in Int /\ x[i] \in Int /\ y[i] \in Int
        /\ x[i] <= y[i] + c
    BY <1>1, <2>1
  <2>3. sx[i - 1] <= sy[i - 1] + (i - 1) * c
    BY <1>3
  <2>4. i * c = (i - 1) * c + c /\ (i - 1) * c \in Int
    OBVIOUS
  <2>5. sx[i] <= sy[i] + i * c
    BY <1>1, <2>2, <2>3, <2>4
  <2> QED
    BY <2>1, <2>5
<1> HIDE DEF T
<1>4. \A i \in 0 .. n : i \in T
  BY <1>2, <1>3, BoundedInduction
<1> QED
  BY <1>4 DEF T, sx, sy

\* The x of a code, and their sums.
Xs(code) == [j \in DOMAIN code |-> code[j][1]]

\* permute keeps every order whose code is within codetol of a canonical one.
LEMMA NearCanonicalSurvives ==
  ASSUME NEW n \in Nat, NEW code \in [1 .. n -> Place], NEW near \in [1 .. n -> Place],
         NEW e \in [1 .. n -> -CodeTol .. CodeTol],
         \A i, j \in 1 .. n : i # j => e[i] * e[i] + e[j] * e[j] <= CodeTol * CodeTol,
         \A i \in 1 .. n : near[i][1] = code[i][1] + e[i],
         Scale(A, B) \in Int, CodeTol \in Nat,
         Canonical(near, Scale(A, B))
  PROVE  Survives(code)
<1> DEFINE x == [j \in 1 .. n |-> code[j][1]]
           y == [j \in 1 .. n |-> near[j][1]]
<1>1. /\ x \in [1 .. n -> Int] /\ y \in [1 .. n -> Int]
      /\ \A i \in 1 .. n : x[i] = code[i][1] /\ y[i] = near[i][1]
  BY DEF Place
<1>2. DOMAIN code = 1 .. n /\ DOMAIN near = 1 .. n /\ Len(code) = n /\ Len(near) = n
  OBVIOUS
<1>3. XSums(code) = RunningSum(x, n) /\ XSums(near) = RunningSum(y, n)
  BY <1>2 DEF XSums
<1> HIDE DEF x, y
<1>4. \A i \in 1 .. n : /\ e[i] \in Int /\ -CodeTol <= e[i] /\ e[i] <= CodeTol
                        /\ y[i] = x[i] + e[i] /\ x[i] \in Int /\ y[i] \in Int
  <2>1. \A i \in 1 .. n : e[i] \in -CodeTol .. CodeTol
    OBVIOUS
  <2>2. \A i \in 1 .. n : e[i] \in Int /\ -CodeTol <= e[i] /\ e[i] <= CodeTol
    BY <2>1
  <2>3. \A i \in 1 .. n : y[i] = x[i] + e[i] /\ x[i] \in Int /\ y[i] \in Int
    BY <1>1
  <2> QED
    BY <2>2, <2>3
<1>5. ASSUME quad.inv.cx_le_dx, NEW s \in 2 .. n
      PROVE  2 * (code[s - 1][1] - code[s][1]) <= 3 * CodeTol
  <2>1. s \in 1 .. n /\ s - 1 \in 1 .. n /\ s # s - 1
    OBVIOUS
  <2>2. y[s - 1] <= y[s]
    BY <1>1, <1>2, <1>5, <2>1 DEF Canonical
  <2>3. 2 * (e[s] - e[s - 1]) <= 3 * CodeTol
    <3>1. e[s - 1] * e[s - 1] + e[s] * e[s] <= CodeTol * CodeTol
      BY <2>1
    <3>2. e[s] \in Int /\ e[s - 1] \in Int
      BY <1>4, <2>1
    <3> QED
      BY <3>1, <3>2, PairMargin
  <2>4. /\ y[s - 1] = x[s - 1] + e[s - 1] /\ y[s] = x[s] + e[s]
        /\ e[s] \in Int /\ e[s - 1] \in Int /\ x[s] \in Int /\ x[s - 1] \in Int
    BY <1>4, <2>1
  <2>5. 2 * (x[s - 1] - x[s]) <= 3 * CodeTol
    <3>1. PICK c \in Nat, xa \in Int, xb \in Int, ea \in Int, eb \in Int :
            c = CodeTol /\ xa = x[s - 1] /\ xb = x[s] /\ ea = e[s - 1] /\ eb = e[s]
      BY <2>4
    <3>2. xa + ea <= xb + eb /\ 2 * (eb - ea) <= 3 * c
      BY <2>2, <2>3, <2>4, <3>1
    <3>3. 2 * (xa - xb) <= 3 * c
      BY <3>2
    <3> QED
      BY <3>1, <3>3
  <2> QED
    BY <1>1, <2>1, <2>5
<1>6. ASSUME quad.inv.cx_le_dx, quad.inv.meanx_le_half, NEW s \in 1 .. n
      PROVE  2 * XSums(code)[s] <= s * (Scale(A, B) + 3 * CodeTol)
  <2> DEFINE u == Scale(A, B)
  <2>1. u \in Int
    OBVIOUS
  <2>2. 2 * RunningSum(y, n)[n] <= n * u
    BY <1>2, <1>3, <1>6 DEF Canonical
  <2>3. \A i \in 2 .. n : y[i - 1] <= y[i]
    <3>1. \A i \in 2 .. n : i \in 1 .. n /\ i - 1 \in 1 .. n
      OBVIOUS
    <3> QED
      BY <1>1, <1>2, <1>6, <3>1 DEF Canonical
  <2> HIDE DEF u
  <2>4. 2 * RunningSum(y, n)[s] <= s * u
    BY <1>1, <2>1, <2>2, <2>3, PrefixMean
  <2>5. RunningSum(x, n)[s] <= RunningSum(y, n)[s] + s * CodeTol
    <3>1. \A i \in 1 .. n : x[i] <= y[i] + CodeTol
      BY <1>4
    <3>2. s \in 0 .. n
      OBVIOUS
    <3> QED
      BY <1>1, <3>1, <3>2, SumMargin
  <2>6. RunningSum(x, n)[s] \in Int /\ RunningSum(y, n)[s] \in Int
    <3>1. s \in 0 .. n
      OBVIOUS
    <3> QED
      BY <1>1, <3>1, SumRecursion
  <2>7. s * (u + 3 * CodeTol) = s * u + 3 * (s * CodeTol) /\ s * u \in Int /\ s * CodeTol \in Nat
    BY <2>1
  <2>8. 2 * RunningSum(x, n)[s] <= s * (u + 3 * CodeTol)
    <3>1. PICK sx \in Int, sy \in Int, v \in Int, w \in Int :
            /\ sx = RunningSum(x, n)[s] /\ sy = RunningSum(y, n)[s]
            /\ v = s * u /\ w = s * CodeTol
      BY <2>6, <2>7
    <3>2. 2 * sy <= v /\ sx <= sy + w /\ w >= 0
      BY <2>4, <2>5, <2>7, <3>1
    <3>3. 2 * sx <= v + 3 * w
      BY <3>2
    <3> QED
      BY <2>7, <3>1, <3>3
  <2> QED
    BY <1>3, <2>8 DEF u
<1> QED
  BY <1>2, <1>5, <1>6 DEF Survives

-----------------------------------------------------------------------------
(* The enumeration.                                                         *)

Ends(s) == IF s THEN <<2, 1>> ELSE <<1, 2>>
Order(s, o) == Ends(s) \o o

\* The rounds before the present one.
Passed(f, s) == round = "done" \/ (~f /\ flip) \/ (f = flip /\ ~s /\ swap)

\* Every labelling of a round that permute keeps is a candidate.
Tried(f, s) ==
  Allowed(f) => \A o \in Orders :
    Survives(CodeOf(Order(s, o), f)) =>
      [order |-> Order(s, o), code |-> CodeOf(Order(s, o), f), flip |-> f] \in labelled

CodesInv ==
  /\ quad \in Sample /\ flip \in BOOLEAN /\ swap \in BOOLEAN
  /\ CandidatesAreConsistent
  /\ \A f, s \in BOOLEAN : Passed(f, s) => Tried(f, s)

\* What a round looks up is what the round promises.
LEMMA PermuteTries ==
  ASSUME quad \in Sample, flip \in BOOLEAN, swap \in BOOLEAN, NEW o \in Orders,
         Survives(CodeOf(Order(swap, o), flip))
  PROVE  [order |-> Order(swap, o), code |-> CodeOf(Order(swap, o), flip), flip |-> flip]
           \in Permute
<1>1. CodeOf(Order(swap, o), flip) = [t \in DOMAIN o |-> Original(o[t])]
  BY LabellingIsCode DEF Order, Ends
<1> DEFINE code == CodeOf(Order(swap, o), flip)
           l == [order |-> Order(swap, o), code |-> code, flip |-> flip]
<1>2. l.code = code
  OBVIOUS
<1>3. l \in {[order |-> (IF swap THEN <<2, 1>> ELSE <<1, 2>>) \o p,
              code |-> [t \in DOMAIN p |-> Original(p[t])], flip |-> flip] : p \in Orders}
  <2>1. l = [order |-> (IF swap THEN <<2, 1>> ELSE <<1, 2>>) \o o,
             code |-> [t \in DOMAIN o |-> Original(o[t])], flip |-> flip]
    BY <1>1 DEF Order, Ends
  <2> HIDE DEF l
  <2> QED
    BY <2>1
<1> HIDE DEF l
<1>4. Survives(l.code)
  BY <1>2
<1> QED
  BY <1>3, <1>4 DEF Permute, l

\* No round disturbs the inductive invariant.
LEMMA CodesStepInv == CodesInv /\ [CodesNext]_codesVars => CodesInv'
<1> SUFFICES ASSUME CodesInv, [CodesNext]_codesVars PROVE CodesInv'
  OBVIOUS
<1>1. CASE UNCHANGED codesVars
  <2>1. CandidatesAreConsistent'
    BY <1>1 DEF CodesInv, codesVars, CandidatesAreConsistent, CodeOf, At
  <2>2. \A f, s \in BOOLEAN : Passed(f, s)' = Passed(f, s)
    BY <1>1 DEF Passed, codesVars
  <2>3. \A f, s \in BOOLEAN : Tried(f, s)' = Tried(f, s)
    BY <1>1 DEF Tried, Allowed, Orders, Members, Survives, CodeOf, At, A, B, codesVars
  <2> QED
    BY <1>1, <2>1, <2>2, <2>3 DEF CodesInv, codesVars
<1>2. CASE Skip \/ Label
  <2>1. /\ quad' = quad /\ labelled \subseteq labelled'
        /\ flip' \in BOOLEAN /\ swap' \in BOOLEAN
        /\ round = "next"
        /\ Allowed(flip) => labelled' = labelled \cup Permute
        /\ labelled' = labelled \/ labelled' = labelled \cup Permute
    BY <1>2 DEF Skip, Label, Advance, CodesInv
  <2>2. \A l \in labelled' : l.code = CodeOf(l.order, l.flip)
    BY <2>1, PermuteIsConsistent DEF CodesInv, CandidatesAreConsistent
  <2>3. CandidatesAreConsistent'
    BY <2>1, <2>2 DEF CandidatesAreConsistent, CodeOf, At
  <2>4. \A f, s \in BOOLEAN : Passed(f, s)' => Passed(f, s) \/ (f = flip /\ s = swap)
    <3>1. flip \in BOOLEAN /\ swap \in BOOLEAN
      BY DEF CodesInv
    <3>2. /\ round' = IF flip /\ swap THEN "done" ELSE "next"
          /\ swap' = ~swap /\ flip' = (flip \/ swap)
      BY <1>2 DEF Skip, Label, Advance
    <3> SUFFICES ASSUME NEW f \in BOOLEAN, NEW s \in BOOLEAN, Passed(f, s)', ~Passed(f, s)
                 PROVE  f = flip /\ s = swap
      OBVIOUS
    <3>3. CASE flip
      <4>1. flip = TRUE /\ f = TRUE /\ ~(~s /\ swap)
        BY <3>1, <3>3 DEF Passed
      <4>2. CASE swap
        BY <3>1, <4>1, <4>2
      <4>3. CASE ~swap
        BY <3>1, <3>2, <4>1, <4>3 DEF Passed
      <4> QED
        BY <4>2, <4>3
    <3>4. CASE ~flip
      <4>1. flip = FALSE
        BY <3>1, <3>4
      <4>2. CASE swap
        <5>1. swap' = FALSE /\ flip' = TRUE /\ round' = "next" /\ swap = TRUE
          BY <3>1, <3>2, <4>1, <4>2
        <5>2. f = FALSE
          BY <5>1 DEF Passed
        <5> QED
          BY <4>1, <5>1, <5>2 DEF Passed
      <4>3. CASE ~swap
        <5>1. swap' = TRUE /\ flip' = FALSE /\ round' = "next" /\ swap = FALSE
          BY <3>1, <3>2, <4>1, <4>3
        <5> QED
          BY <4>1, <5>1 DEF Passed
      <4> QED
        BY <4>2, <4>3
    <3> QED
      BY <3>3, <3>4
  <2>5. ASSUME NEW f \in BOOLEAN, NEW s \in BOOLEAN, Passed(f, s)',
               Allowed(f), NEW o \in Orders, Survives(CodeOf(Order(s, o), f))
        PROVE  [order |-> Order(s, o), code |-> CodeOf(Order(s, o), f), flip |-> f] \in labelled'
    <3>1. CASE Passed(f, s)
      BY <2>1, <2>5, <3>1 DEF CodesInv, Tried
    <3>2. CASE f = flip /\ s = swap
      <4>1. [order |-> Order(swap, o), code |-> CodeOf(Order(swap, o), flip), flip |-> flip] \in Permute
        BY <2>5, <3>2, PermuteTries DEF CodesInv
      <4> QED
        BY <2>1, <2>5, <3>2, <4>1
    <3> QED
      BY <2>4, <2>5, <3>1, <3>2
  <2>6. ASSUME NEW f \in BOOLEAN, NEW s \in BOOLEAN, Passed(f, s)' PROVE Tried(f, s)'
    <3>1. /\ Allowed(f)' = Allowed(f) /\ Orders' = Orders
          /\ \A o : CodeOf(Order(s, o), f)' = CodeOf(Order(s, o), f)
          /\ \A c : Survives(c)' = Survives(c)
      BY <2>1 DEF Allowed, Orders, Members, Survives, CodeOf, Order, Ends, At, A, B
    <3> QED
      BY <2>5, <2>6, <3>1 DEF Tried
  <2> QED
    BY <2>1, <2>3, <2>6 DEF CodesInv
<1> QED
  BY <1>1, <1>2 DEF CodesNext

\* The inductive invariant of the enumeration.
LEMMA CodesInvariance == CodesSpec => []CodesInv
<1>1. CodesInit => CodesInv
  <2> SUFFICES ASSUME CodesInit PROVE CodesInv
    OBVIOUS
  <2>1. \A f, s \in BOOLEAN : ~Passed(f, s)
    BY DEF CodesInit, Passed
  <2> QED
    BY <2>1 DEF CodesInit, CodesInv, CandidatesAreConsistent
<1> QED
  BY <1>1, CodesStepInv, PTL DEF CodesSpec

\* Every candidate the search looks up carries the code its star order has, for
\* every quad and any number of stars (codes.rs, for_each_code and permute).
THEOREM Consistent == CodesSpec => []CandidatesAreConsistent
<1>1. CodesInv => CandidatesAreConsistent
  BY DEF CodesInv
<1> QED
  BY <1>1, CodesInvariance, PTL

\* Whatever labelling the index keeps is looked up, for every quad, any number
\* of stars and any tolerance: the margin of one and a half codetol is enough.
THEOREM LabellingTried == CodesSpec => []StoredLabellingIsTried
<1>1. CodesInv => StoredLabellingIsTried
  <2> SUFFICES ASSUME CodesInv, round = "done", NEW f \in BOOLEAN, NEW s \in BOOLEAN, NEW o \in Orders,
                      Allowed(f),
                      NEW c \in {[i \in DOMAIN o |->
                                   <<CodeOf(Order(s, o), f)[i][1] + e[i], CodeOf(Order(s, o), f)[i][2]>>] :
                                 e \in Errors(Len(o))},
                      Canonical(c, Scale(A, B))
               PROVE  [order |-> Order(s, o), code |-> CodeOf(Order(s, o), f), flip |-> f] \in labelled
    BY Zenon DEF StoredLabellingIsTried, Order, Ends
  <2>0. PICK e \in Errors(Len(o)) :
          c = [i \in DOMAIN o |->
                <<CodeOf(Order(s, o), f)[i][1] + e[i], CodeOf(Order(s, o), f)[i][2]>>]
    OBVIOUS
  <2>1. quad.stars \in Seq(Place) /\ Len(quad.stars) >= 2 /\ Len(quad.stars) \in Nat /\ CodeTol \in Nat
    BY CodesAssumption DEF CodesAssumption, CodesInv, Place
  <2>2. PICK n \in Nat : n = Len(quad.stars) - 2 /\ Len(quad.stars) = n + 2
    <3>1. Len(quad.stars) - 2 \in Nat /\ Len(quad.stars) = (Len(quad.stars) - 2) + 2
      BY <2>1
    <3> QED
      BY <3>1
  <2>3. o \in [1 .. n -> Members] /\ DOMAIN o = 1 .. n /\ Len(o) = n
    <3>1. o \in [1 .. n -> Members] /\ DOMAIN o = 1 .. n
      BY <2>2 DEF Orders
    <3> QED
      BY <3>1
  <2> DEFINE code == CodeOf(Order(s, o), f)
             near == [i \in 1 .. n |-> <<code[i][1] + e[i], code[i][2]>>]
  <2>4. e \in [1 .. n -> -CodeTol .. CodeTol]
        /\ \A i, j \in 1 .. n : i # j => e[i] * e[i] + e[j] * e[j] <= CodeTol * CodeTol
    <3>1. e \in Errors(Len(quad.stars) - 2) /\ quad \in Sample
      BY <2>2, <2>3 DEF CodesInv
    <3>2. /\ e \in [1 .. Len(quad.stars) - 2 -> -CodeTol .. CodeTol]
          /\ \A i, j \in DOMAIN e : i # j => e[i] * e[i] + e[j] * e[j] <= CodeTol * CodeTol
      BY <3>1, CodesAssumption DEF CodesAssumption
    <3>3. DOMAIN e = 1 .. n
      BY <2>2, <3>2
    <3> QED
      BY <2>2, <3>2, <3>3
  <2>5. code \in [1 .. n -> Place]
    BY <2>1, <2>2, <2>3, CodeOfType DEF Order, Ends
  <2>6. Scale(A, B) \in Int
    <3>1. 1 \in 1 .. Len(quad.stars) /\ 2 \in 1 .. Len(quad.stars)
      BY <2>1
    <3>2. A \in Place /\ B \in Place
      BY <2>1, <3>1, ElementOfSeq DEF A, B
    <3> QED
      BY <3>2, CodeType
  <2>7. Canonical(near, Scale(A, B))
    BY <2>0, <2>3
  <2> HIDE DEF code
  <2>8. near \in [1 .. n -> Place] /\ \A i \in 1 .. n : near[i][1] = code[i][1] + e[i]
    <3>1. ASSUME NEW i \in 1 .. n
          PROVE  /\ <<code[i][1] + e[i], code[i][2]>> \in Place
                 /\ <<code[i][1] + e[i], code[i][2]>>[1] = code[i][1] + e[i]
      <4>1. code[i][1] \in Int /\ code[i][2] \in Int
        BY <2>5 DEF Place
      <4>2. e[i] \in -CodeTol .. CodeTol
        BY <2>4
      <4>3. e[i] \in Int
        BY <2>1, <4>2
      <4> QED
        BY <4>1, <4>3 DEF Place
    <3> QED
      BY <3>1
  <2> HIDE DEF near
  <2>9. Survives(code)
    BY <2>1, <2>4, <2>5, <2>6, <2>7, <2>8, NearCanonicalSurvives
  <2>10. Tried(f, s)
    BY DEF CodesInv, Passed
  <2> QED
    BY <2>9, <2>10 DEF Tried, code
<1> QED
  BY <1>1, CodesInvariance, PTL
=============================================================================
