------------------------------ MODULE FitsFile ------------------------------
(***************************************************************************)
(* FITS files as fl-fits reads and writes them (header.rs, hdu.rs,         *)
(* write.rs), and the WCS keywords of fl-solve (tanwcs.rs).                *)
(*                                                                         *)
(* A file is a sequence of cells of the size of a card, PerBlock of them   *)
(* to a block.  A cell is a card [key, val], or a piece of data, whose key *)
(* is Data.  A key is a stem and the numbers behind it, <<"CD", 1, 2>>.    *)
(* A file starts with the SIMPLE card, or it is no FITS file.              *)
(***************************************************************************)
EXTENDS Integers, Sequences, Lists

CONSTANTS
  PerBlock,   \* cards in a block
  Names,      \* what a key can start with
  NoValue     \* what a card without a value indicator has

ASSUME FitsAssumption ==
  /\ PerBlock \in Nat \ {0}
  /\ {"SIMPLE", "NAXIS", "END", "COMMENT", "data"} \subseteq Names
  /\ NoValue \notin Int

Keys == {<<>>} \cup [1 .. 1 -> Names] \cup (Names \X Nat) \cup (Names \X Nat \X Nat)
Cells == [key : Keys, val : Int \cup {NoValue}]

Card(key, val) == [key |-> key, val |-> val]
Data == <<"data">>
End == Card(<<"END">>, NoValue)
Blank == Card(<<>>, NoValue)
Commentary == {<<"COMMENT">>, <<"HISTORY">>}

\* The end of the block that cell n - 1 is in: n rounded up.
Padded(n) == ((n + PerBlock - 1) \div PerBlock) * PerBlock

-----------------------------------------------------------------------------
(* Reading                                                                  *)

\* Header::parse from cell off: where the END card is, and where the data start;
\* the header must be there in whole blocks.
Ends(buf, off) == {i \in off + 1 .. Len(buf) : buf[i] = End}
EndCell(buf, off) == CHOOSE i \in Ends(buf, off) : \A j \in Ends(buf, off) : i <= j
DataOffset(buf, off) == off + Padded(EndCell(buf, off) - off)
HasHeader(buf, off) == Ends(buf, off) # {} /\ DataOffset(buf, off) <= Len(buf)

\* Header::get: the first card with the key; commentary cards have no value.
Get(cards, key, default) ==
  LET at == {i \in DOMAIN cards : cards[i].key = key /\ cards[i].val # NoValue}
  IN IF at = {} THEN default ELSE cards[CHOOSE i \in at : \A j \in at : i <= j].val

NotNegative(n) == IF n < 0 THEN 0 ELSE n

\* The elements along the first axes, by the number of axes.
Elements(axes, naxis) ==
  LET elements[i \in 0 .. naxis] == IF i = 0 THEN 1 ELSE elements[i - 1] * axes[i]
  IN elements

\* How many cells of data follow the header.
DataLen(cards) ==
  LET naxis == NotNegative(Get(cards, <<"NAXIS">>, 0))
      axes == [i \in 1 .. naxis |-> NotNegative(Get(cards, <<"NAXIS", i>>, 0))]
      nelem == IF naxis = 0 THEN 0 ELSE Elements(axes, naxis)[naxis]
  IN nelem + NotNegative(Get(cards, <<"PCOUNT">>, 0))

\* Hdu: the header's cards without END and padding behind it, and the data.
HduAt(buf, off) ==
  LET data == DataOffset(buf, off)
      cards == SubSeq(buf, off + 1, EndCell(buf, off) - 1)
  IN [cards |-> cards, offset |-> off, data_offset |-> data, data_len |-> DataLen(cards)]

Complete(buf, hdu) == hdu.data_offset + hdu.data_len <= Len(buf)

\* Where the next header starts.
After(hdu) == hdu.data_offset + Padded(hdu.data_len)

\* Fits::parse, by the turns of its loop: the HDUs found, where the next one is,
\* and whether one was not all there.  An HDU takes a cell at least.
Walk(buf) ==
  LET walk[n \in 0 .. Len(buf)] ==
        IF n = 0 THEN [hdus |-> <<>>, off |-> 0, failed |-> FALSE]
        ELSE LET at == walk[n - 1]
                 hdu == HduAt(buf, at.off)
             IN IF at.failed \/ at.off >= Len(buf) THEN at
                ELSE IF HasHeader(buf, at.off) /\ Complete(buf, hdu)
                THEN [hdus |-> Append(at.hdus, hdu), off |-> After(hdu), failed |-> FALSE]
                ELSE [at EXCEPT !.failed = TRUE]
  IN walk

Hdus(buf) == Walk(buf)[Len(buf)].hdus
IsFits(buf) == Len(buf) >= PerBlock /\ buf[1] = Card(<<"SIMPLE">>, 1)
Parses(buf) == IsFits(buf) /\ ~Walk(buf)[Len(buf)].failed

\* The first HDU with at least two axes: what decode_image decodes.
Images(hdus) == {n \in DOMAIN hdus : Get(hdus[n].cards, <<"NAXIS">>, 0) >= 2}
FirstImage(hdus) == CHOOSE n \in Images(hdus) : \A m \in Images(hdus) : n <= m

Pixels(buf, hdu) == SubSeq(buf, hdu.data_offset + 1, hdu.data_offset + hdu.data_len)

-----------------------------------------------------------------------------
(* Writing                                                                  *)

\* Ends the block one cell late when END is the last cell of a block.
MutHeaderBlock(cards) ==
  LET filled == Append(cards, End)
  IN filled \o [i \in 1 .. PerBlock - (Len(filled) % PerBlock) |-> Blank]

\* header_block: the cards, END, and blanks up to the end of the block.
HeaderBlock(cards) ==
  LET filled == Append(cards, End)
  IN filled \o [i \in 1 .. Padded(Len(filled)) - Len(filled) |-> Blank]

\* header_only: the .wcs answer, a primary HDU without data.
HeaderOnly(cards) ==
  HeaderBlock(<<Card(<<"SIMPLE">>, 1), Card(<<"NAXIS">>, 0)>> \o cards)

\* image_f32: a new file for an image that was none.
ImageFile(width, height, pixels, cards) ==
  LET header == <<Card(<<"SIMPLE">>, 1), Card(<<"NAXIS">>, 2), Card(<<"NAXIS", 1>>, width),
                  Card(<<"NAXIS", 2>>, height)>> \o cards
      n == width * height
  IN HeaderBlock(header) \o pixels \o [i \in 1 .. Padded(n) - n |-> Card(Data, 0)]

WcsStems == {"WCSAXES", "EQUINOX", "RADESYS", "LONPOLE", "IMAGEW", "A_ORDER"}
AxisStems == {"CTYPE", "CRVAL", "CRPIX", "CDELT", "CROTA"}
MatrixStems == {"CD", "PC", "PV", "A_", "B_", "AP_", "BP_"}

\* is_wcs_key: by name, by name and axis, by name and two indices.
IsWcsKey(key) ==
  /\ key # <<>>
  /\ \/ Len(key) = 1 /\ key[1] \in WcsStems
     \/ Len(key) = 2 /\ key[1] \in AxisStems
     \/ Len(key) = 3 /\ key[1] \in MatrixStems

\* What is left of the old WCS stays when the solution has no such key.
MutDisplaces(cards, key) == \E i \in DOMAIN cards : cards[i].key = key /\ key \notin Commentary

\* The comment of the solution takes the place of every comment.
MutErases(cards, key) == (\E i \in DOMAIN cards : cards[i].key = key) \/ IsWcsKey(key)

\* The cards that make way: those the solution redefines, unless they are
\* commentary, and every other trace of a WCS.
Displaces(cards, key) ==
  \/ \E i \in DOMAIN cards : cards[i].key = key /\ key \notin Commentary
  \/ IsWcsKey(key)

\* set_cards: the header of the image is rebuilt from what it keeps and the
\* cards; what comes before and behind it is copied.
SetCards(buf, cards) ==
  LET hdus == Hdus(buf)
      hdu == hdus[IF Images(hdus) = {} THEN 1 ELSE FirstImage(hdus)]
      kept == {i \in DOMAIN hdu.cards :
                 hdu.cards[i] # Blank /\ ~Displaces(cards, hdu.cards[i].key)}
  IN SubSeq(buf, 1, hdu.offset)
       \o HeaderBlock(Retain(hdu.cards, kept) \o cards)
       \o SubSeq(buf, hdu.data_offset + 1, Len(buf))
=============================================================================
