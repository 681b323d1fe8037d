----------------------------- MODULE SolvedFits -----------------------------
(***************************************************************************)
(* The FITS answer to an upload (solved_fits, solve.rs): the upload with a *)
(* new header when it is a FITS file, a new file otherwise.  The answer is *)
(* a file others work on: it may be edited, and be uploaded again.         *)
(***************************************************************************)
EXTENDS FitsFile, FiniteSets

CONSTANTS
  Uploads,     \* the files a client sends
  Edits,       \* the cards other programs add to a header
  MaxRounds    \* bound: uploads of the same file

\* The keys that give the data of an HDU their length.
SizesData(key) == key \in {<<"NAXIS">>, <<"PCOUNT">>} \/ (Len(key) = 2 /\ key[1] = "NAXIS")

\* Who annotates a file leaves its data as they are.
ASSUME SolvedAssumption ==
  /\ {"WCSAXES", "CRVAL", "CD"} \subseteq Names
  /\ Uploads \subseteq Seq(Cells)
  /\ Edits \subseteq Cells
  /\ \A card \in Edits : card # End /\ ~SizesData(card.key)
  /\ MaxRounds \in Nat

VARIABLES
  buf,         \* the file, as the client has it
  solution,    \* the number of the solution in its header; 0: edited since, or none
  rounds,      \* how often it was solved
  wcs          \* the .wcs answer of the last solve

fitsVars == <<buf, solution, rounds, wcs>>

\* decode: a FITS file with an image, or an image of another format.
FitsStart(file) == Len(file) > 0 /\ file[1] = Card(<<"SIMPLE">>, 1)
Decodes(file) ==
  IF FitsStart(file) THEN Parses(file) /\ Images(Hdus(file)) # {} ELSE file # <<>>

\* fits_cards: some of the solution's keys, and the values of solution n.
SolutionKeys == <<<<"WCSAXES">>, <<"CRVAL", 1>>, <<"CD", 1, 2>>>>
WcsCards(n) == [i \in DOMAIN SolutionKeys |-> Card(SolutionKeys[i], n)]

\* solved_fits.  The comment names the program and the time.
SolvedFits(file, n) ==
  LET cards == Append(WcsCards(n), Card(<<"COMMENT">>, NoValue))
  IN IF FitsStart(file) THEN SetCards(file, cards)
     ELSE ImageFile(Len(file), 1, file, cards)

FitsInit ==
  /\ buf \in Uploads
  /\ solution = 0
  /\ rounds = 0
  /\ wcs = <<>>

\* The file is uploaded and solved, and the client fetches the answers.
Solve ==
  /\ rounds < MaxRounds
  /\ Decodes(buf)
  /\ rounds' = rounds + 1
  /\ solution' = rounds'
  /\ buf' = SolvedFits(buf, rounds')
  /\ wcs' = HeaderOnly(WcsCards(rounds'))

\* Another program writes a card into the header of one of the HDUs.
Edit ==
  /\ rounds > 0
  /\ solution = rounds
  /\ \E card \in Edits, n \in DOMAIN Hdus(buf) :
       LET hdu == Hdus(buf)[n]
       IN buf' = SubSeq(buf, 1, hdu.offset) \o HeaderBlock(Append(hdu.cards, card))
                   \o SubSeq(buf, hdu.data_offset + 1, Len(buf))
  /\ solution' = 0
  /\ UNCHANGED <<rounds, wcs>>

FitsNext == Solve \/ Edit

FitsSpec == FitsInit /\ [][FitsNext]_fitsVars

-----------------------------------------------------------------------------
Image(file) == Hdus(file)[FirstImage(Hdus(file))]

WcsOf(cards) == Retain(cards, {i \in DOMAIN cards : IsWcsKey(cards[i].key)})
OthersOf(cards) ==
  Retain(cards, {i \in DOMAIN cards : ~IsWcsKey(cards[i].key) /\ cards[i] # Blank})

\* What a reader of the answer takes for the WCS of the image is the solution
\* of this upload and nothing else: no key twice, no leftover of an earlier
\* solution or of another convention (CDELT beside a CD matrix moves the
\* stars).  The .wcs answer says the same.  write.rs:148, tanwcs.rs:194.
WcsIsOurs ==
  solution > 0 =>
    /\ WcsOf(Image(buf).cards) = WcsCards(solution)
    /\ Parses(wcs)
    /\ \A i \in DOMAIN SolutionKeys : Get(Hdus(wcs)[1].cards, SolutionKeys[i], 0) = solution

\* The answer can be read, solved and edited again, whatever the upload was:
\* every HDU is found where its predecessor ends.
StillReadable == rounds > 0 => Decodes(buf)

\* Solving changes the WCS of the image and adds one comment: every other card
\* keeps its place among the others, comments of earlier solutions included,
\* the pixels and every other HDU are the ones uploaded.  A file in whole
\* blocks stays one, and a new file is one.
OnlyTheWcs(old, new) ==
  /\ Pixels(new, Image(new)) = IF FitsStart(old) THEN Pixels(old, Image(old)) ELSE old
  /\ Len(new) % PerBlock = IF FitsStart(old) THEN Len(old) % PerBlock ELSE 0
  /\ FitsStart(old) =>
       /\ OthersOf(Image(new).cards)
            = Append(OthersOf(Image(old).cards), Card(<<"COMMENT">>, NoValue))
       /\ Len(Hdus(new)) = Len(Hdus(old))
       /\ \A n \in DOMAIN Hdus(old) \ {FirstImage(Hdus(old))} :
            /\ Hdus(new)[n].cards = Hdus(old)[n].cards
            /\ Pixels(new, Hdus(new)[n]) = Pixels(old, Hdus(old)[n])

\* So does every step that solves a file.
Solved == solution' > 0 /\ rounds' > rounds
NothingElseTouched == [][Solved => OnlyTheWcs(buf, buf')]_fitsVars
=============================================================================
