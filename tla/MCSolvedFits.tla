---------------------------- MODULE MCSolvedFits ----------------------------
(* Uploads of one or two HDUs whose headers hold what files in the wild do,  *)
(* in blocks of four cards; two uploads of the same file, an edit between.   *)
EXTENDS SolvedFits

MCPerBlock == 4
MCNames == {"SIMPLE", "XTENSION", "NAXIS", "PCOUNT", "END", "COMMENT", "CONTINUE", "OBJECT",
            "WCSAXES", "CRVAL", "CDELT", "CD", "data"}
MCMaxRounds == 3

Object == Card(<<"OBJECT">>, 7)
Comment == Card(<<"COMMENT">>, NoValue)

\* Cards of the upload's own header: an old solution, in this or in another
\* convention, a keyword that only looks like one, free text, empty cards.
Own == {Object, Card(<<"CRVAL", 1>>, 9), Card(<<"CDELT", 1>>, 9), Card(<<"CD", 1, 2>>, 9),
        Card(<<"CD">>, 9), Comment, Card(<<"CONTINUE">>, NoValue), Blank}

MCEdits == {Object, Card(<<"CDELT", 1>>, 8), Card(<<"CRVAL", 1>>, 8), Comment}

Block(cells, filler) == cells \o [i \in 1 .. Padded(Len(cells)) - Len(cells) |-> filler]

Primary == <<Card(<<"SIMPLE">>, 1)>>
Extension == <<Card(<<"XTENSION">>, 1)>>
Hdu2(start, own, width, value) ==
  Block(start \o <<Card(<<"NAXIS">>, 2), Card(<<"NAXIS", 1>>, width), Card(<<"NAXIS", 2>>, 1)>>
          \o own \o <<End>>, Blank)
    \o Block([i \in 1 .. width |-> Card(Data, value)], Card(Data, 0))
Empty(own) == Block(Primary \o <<Card(<<"NAXIS">>, 0)>> \o own \o <<End>>, Blank)
Table(own) ==
  Block(Extension \o <<Card(<<"NAXIS">>, 1), Card(<<"NAXIS", 1>>, 2), Card(<<"PCOUNT">>, 3)>>
          \o own \o <<End>>, Blank)
    \o Block([i \in 1 .. 5 |-> Card(Data, 6)], Card(Data, 0))

Headers == UNION {[1 .. n -> Own] : n \in 0 .. 2}

MCUploads ==
  {Hdu2(Primary, own, width, 5) : own \in Headers, width \in {1, 4}}
  \cup {Hdu2(Primary, own, 1, 5) \o Table(<<Object>>) : own \in Headers}
  \cup {Empty(<<Card(<<"CRVAL", 1>>, 9)>>) \o Table(<<>>) \o Hdu2(Extension, own, 1, 5)
          : own \in Headers}
  \cup {Hdu2(Primary, own, 1, 5) \o Hdu2(Extension, own, 1, 4) : own \in Headers}
  \cup {Empty(<<Object>>), SubSeq(Hdu2(Primary, <<Object>>, 5, 5), 1, 13), SubSeq(Hdu2(Primary, <<>>, 5, 5), 1, 12),
        Primary \o <<Blank, Blank, Blank>>, <<>>}
  \cup {[i \in 1 .. n |-> Card(Data, i)] : n \in 1 .. 5}
=============================================================================
