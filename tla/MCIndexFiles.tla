---------------------------- MODULE MCIndexFiles ----------------------------
(* Two kinds of directories.  One holds a single index whose code tree (two *)
(* dimensions) or star tree (three) varies: well-formed trees of three and  *)
(* seven nodes and trees that are damaged.  The other holds three plain     *)
(* indexes that differ in size, scale and in whether they open.             *)
EXTENDS IndexFiles, TLC

Tree(ndim, nnodes, linear, floats, tables) ==
  [ndim |-> ndim, nnodes |-> nnodes, ndata |-> Len(tables["data"]),
   linear |-> linear, floats |-> floats, tables |-> tables]

File(bytes, id, lower, upper, codes, stars) ==
  [bytes |-> bytes, id |-> id, lower |-> lower, upper |-> upper, dimquads |-> 3,
   nquads |-> codes.ndata, nstars |-> stars.ndata,
   quads |-> [i \in 1 .. codes.ndata |-> 0], codes |-> codes, stars |-> stars]

PlainCodes == Tree(2, 1, TRUE, FALSE, "data" :> <<<<0, 0>>>> @@ "split" :> <<>>)
PlainStars == Tree(3, 1, TRUE, FALSE, "data" :> <<<<0, 0, 0>>>> @@ "split" :> <<>>)

-----------------------------------------------------------------------------
Points2 == {<<0, 0>>, <<1, 2>>, <<2, 0>>, <<3, 2>>}
Points3 == {<<0, 0, 0>>, <<1, 2, 3>>, <<3, 0, 2>>}

\* Three data in two leaves, the ranges given by a table or by the numbers.
Small(ndim, points, splits) ==
  {Tree(ndim, 3, FALSE, FALSE, "data" :> <<p, q, r>> @@ "split" :> <<s>> @@ "lr" :> lr) :
     p \in points, q \in points, r \in points, s \in splits, lr \in {<<0, 2>>, <<1, 2>>}}
  \cup
  {Tree(ndim, 3, TRUE, FALSE, "data" :> <<p, q, r>> @@ "split" :> <<s>>) :
     p \in points, q \in points, r \in points, s \in splits}

\* Five data in four leaves, one empty; with a permutation.
Large ==
  {Tree(2, 7, FALSE, FALSE,
        "data" :> <<<<0, 0>>, p, <<2, 0>>, <<2, 3>>, <<3, 2>>>> @@ "split" :> <<s, t, u>> @@
        "lr" :> <<0, 1, 1, 4>> @@ "perm" :> <<4, 2, 0, 1, 3>>) :
     p \in {<<0, 1>>, <<1, 2>>}, s \in 0 .. 3, t \in 0 .. 2, u \in 2 .. 4}

\* A table of dimensions, for packed and for float splits.
Separate ==
  {Tree(2, 3, TRUE, floats, "data" :> <<<<0, 1>>, p, <<2, 0>>, q>> @@
        "split" :> <<s>> @@ "splitdim" :> <<d>>) :
     floats \in BOOLEAN, p \in Points2, q \in Points2, s \in 0 .. 2, d \in 0 .. 1}

Damaged ==
  LET data == "data" :> <<<<0, 0>>, <<1, 2>>, <<3, 2>>>>
  IN {Tree(2, 3, FALSE, FALSE, data @@ "split" :> <<2>> @@ "lr" :> lr) :
        lr \in {<<0, 9>>, <<2, 0>>, <<4, 5>>, <<1>>}}
     \cup {Tree(2, 3, TRUE, FALSE, data),
           Tree(2, 3, TRUE, TRUE, data @@ "split" :> <<2>>),
           Tree(2, 3, FALSE, FALSE, data @@ "split" :> <<2>>),
           Tree(2, 2, TRUE, FALSE, data @@ "split" :> <<2>>),
           Tree(2, 3, TRUE, FALSE, data @@ "split" :> <<2>> @@ "perm" :> <<0>>),
           Tree(2, 3, TRUE, FALSE, data @@ "split" :> <<2>> @@ "splitdim" :> <<7>>)}

Trees2 == {t \in Small(2, Points2, 0 .. 4) \cup Large \cup Separate : WellFormed(t)} \cup Damaged
Trees3 == {t \in Small(3, Points3, 0 .. 6) : WellFormed(t)}
            \cup {Tree(3, 3, TRUE, FALSE, "data" :> <<<<0, 0, 0>>>> @@ "split" :> <<3>>)}

SingleIndex ==
  {<<File(1, 1, 0, 9, t, PlainStars)>> : t \in Trees2}
    \cup {<<File(1, 1, 0, 9, PlainCodes, t)>> : t \in Trees3}

-----------------------------------------------------------------------------
Broken == Tree(2, 1, FALSE, FALSE, "data" :> <<<<0, 0>>>>)
Plain == {File(bytes, id, lower, lower + 2, codes, PlainStars) :
            bytes \in {1, 2, 4}, id \in {1, 2}, lower \in {0, 5}, codes \in {PlainCodes, Broken}}

MCDirectories ==
  SingleIndex \cup {<<>>} \cup [1 .. 3 -> {f \in Plain : f.codes = PlainCodes}]
    \cup {<<f, g>> : f \in Plain, g \in Plain}

\* Scales at which the fine, the coarse, or both kinds of index are relevant.
MCBands == {<<>>, <<[lo |-> 0, hi |-> 1]>>, <<[lo |-> 4, hi |-> 5]>>}

MCQueries(ndim) ==
  CASE ndim = 2 -> {<<0, 0>>, <<1, 1>>, <<2, 2>>, <<4, 1>>}
    [] ndim = 3 -> {<<0, 0, 1>>, <<2, 1, 2>>, <<3, 1, 2>>}
    [] OTHER -> {}
=============================================================================
