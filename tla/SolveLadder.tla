----------------------------- MODULE SolveLadder -----------------------------
(***************************************************************************)
(* How the engine goes about one solve after another (fl-solve, engine.rs):*)
(* the warm list of recent solves, tier 0 that verifies a new image        *)
(* against it, and the ladder of scale bands searched within the solve     *)
(* timeout.  One worker thread solves, so solves do not overlap.           *)
(*                                                                         *)
(* Pixel scales are steps of a logarithmic grid, about 6% each.  What a    *)
(* quad search and a verification compute is abstract: a search of a band  *)
(* that holds the true scale may find it at any moment or miss it, and     *)
(* takes a time that grows with the width of the band; a verification      *)
(* accepts a true WCS exactly if its index covers the field.               *)
(***************************************************************************)
EXTENDS Integers, Sequences, FiniteSetsExt, Lists

CONSTANTS
  Fields,      \* parts of the sky
  Shapes,      \* image dimensions
  Indexes,     \* the index files in cache order: [id, tile], tile a set of Fields
  Wide,        \* the wide band, <<lo, hi>>
  Default,     \* the bands of the configured rig scale: <<>> or one band
  Hints,       \* the scale hints a client may send: <<>> or one band each
  Slots,       \* WARM_SLOTS
  Timeout,     \* solve_timeout, in ticks
  Slice,       \* the time slice of a guess band, in ticks
  Efforts,     \* the ticks a search may take per step of scale; 0 if no index
               \* has quads of the size
  MaxSolves    \* bound: images solved

Lo(band) == band[1]
Hi(band) == band[2]
Scales == Lo(Wide) .. Hi(Wide)
Ranges == {band \in Int \X Int : Lo(band) <= Hi(band)}
Bands == {band \in Scales \X Scales : Lo(band) < Hi(band)}

ASSUME LadderAssumption ==
  \* The wide band, 0.1 to 300 arcseconds per pixel, is wider than a warm one.
  /\ Wide \in Nat \X Nat /\ Lo(Wide) + 5 <= Hi(Wide)
  /\ Default \in Seq(Bands) /\ Len(Default) <= 1
  /\ \A h \in Hints : h \in Seq(Bands) /\ Len(h) <= 1
  /\ Indexes \in Seq([id : Nat, tile : SUBSET Fields])
  /\ Efforts \subseteq Nat
  /\ Slots \in Nat \ {0} /\ Slice \in Nat /\ Timeout \in Nat /\ MaxSolves \in Nat

VARIABLES
  warm,      \* Engine.warm, most recent first
  image,     \* the image being solved: [field, shape, scale]
  hint,      \* its scale hints
  phase,     \* "idle", "warm" while tier 0 runs, "ladder"
  bands,     \* the bands still to search, in order
  clock,     \* ticks since solve_field began
  searched,  \* the bands this solve searched to the end
  outcome,   \* how the last solve ended
  solves     \* images so far

ladderVars == <<warm, image, hint, phase, bands, clock, searched, outcome, solves>>

Images == [field : Fields, shape : Shapes, scale : Scales]
Min2(a, b) == IF a < b THEN a ELSE b

LadderInit ==
  /\ warm = <<>>
  /\ image \in Images /\ hint = <<>>
  /\ phase = "idle" /\ bands = <<>> /\ clock = 0 /\ searched = {}
  /\ outcome = "nothing" /\ solves = 0

InBand(scale, band) == Lo(band) <= scale /\ scale <= Hi(band)

\* solve_image hands over an image with enough stars, and its hints.
Begin ==
  /\ phase = "idle" /\ solves < MaxSolves
  /\ image' \in Images
  /\ hint' \in Hints
  /\ phase' = "warm"
  /\ clock' = 0 /\ searched' = {} /\ bands' = <<>> /\ outcome' = "nothing"
  /\ solves' = solves + 1
  /\ UNCHANGED warm

-----------------------------------------------------------------------------
(* The warm list.                                                           *)

Close(s, t) == s - 1 <= t /\ t <= s + 1

\* A refocused camera is a rig of its own.
MutSameRig(entry, img) == entry.shape = img.shape /\ entry.scale = img.scale

\* Same dimensions, and a pixel scale less than 10% off: a rig may be the same as
\* two that are not the same as each other.
SameRig(entry, img) == entry.shape = img.shape /\ Close(entry.scale, img.scale)

\* The index store_warm remembers for a solution found with index i: the first
\* in cache order with the same id.
WarmIndex(i) ==
  Min({n \in DOMAIN Indexes : Indexes[n].id = Indexes[i].id})

\* The last falls off before the rig's own slot is taken out.
MutStored(i) ==
  LET kept == SubSeq(warm, 1, Min2(Len(warm), Slots - 1))
      others == {n \in DOMAIN kept : ~SameRig(kept[n], image)}
      entry == [field |-> image.field, shape |-> image.shape,
                scale |-> image.scale, index |-> WarmIndex(i)]
  IN <<entry>> \o Retain(kept, others)

\* store_warm: the rig's slot moves to the front, the last falls off.
Stored(i) ==
  LET others == {n \in DOMAIN warm : ~SameRig(warm[n], image)}
      entry == [field |-> image.field, shape |-> image.shape,
                scale |-> image.scale, index |-> WarmIndex(i)]
      all == <<entry>> \o Retain(warm, others)
  IN SubSeq(all, 1, Min2(Len(all), Slots))

\* try_warm skips an entry of other dimensions or outside the scale hints.
WarmApplies(entry) ==
  /\ entry.shape = image.shape
  /\ \A b \in DOMAIN hint : InBand(entry.scale, hint[b])

\* The entry's WCS verifies against the new stars with the entry's index.
Verifies(entry) ==
  /\ entry.field = image.field /\ entry.scale = image.scale
  /\ image.field \in Indexes[entry.index].tile

WarmHits == {n \in DOMAIN warm : WarmApplies(warm[n]) /\ Verifies(warm[n])}

\* Tier 0 accepts the first entry that verifies.
WarmHit ==
  /\ phase = "warm" /\ WarmHits # {}
  /\ warm' = Stored(warm[Min(WarmHits)].index)
  /\ outcome' = "warm"
  /\ phase' = "idle"
  /\ UNCHANGED <<image, hint, bands, clock, searched, solves>>

-----------------------------------------------------------------------------
(* The ladder.                                                              *)

\* A band already covered the other way round.
MutCovers(s, b) == Lo(s) >= Lo(b) /\ Hi(s) <= Hi(b)

Covers(s, b) == Lo(s) <= Lo(b) /\ Hi(s) >= Hi(b)

Redundant(kept, b) == \E i \in DOMAIN kept : Covers(kept[i], b)

\* The bands not covered by one that is kept before them, of the first n.
Seen(all) ==
  LET seen[n \in 0 .. Len(all)] ==
        IF n = 0 THEN <<>>
        ELSE IF Redundant(seen[n - 1], all[n]) THEN seen[n - 1]
        ELSE Append(seen[n - 1], all[n])
  IN seen

Retained(all) == Seen(all)[Len(all)]

\* 15% below to 18% above the scale of a warm entry.
WarmBand(entry) == <<entry.scale - 2, entry.scale + 2>>

Ladder ==
  IF hint # <<>> THEN hint
  ELSE Retained([n \in DOMAIN warm |-> WarmBand(warm[n])] \o Default \o <<Wide>>)

\* Tier 0 found nothing.
BuildLadder ==
  /\ phase = "warm" /\ WarmHits = {}
  /\ bands' = Ladder
  /\ phase' = "ladder"
  /\ UNCHANGED <<warm, image, hint, clock, searched, outcome, solves>>

\* The deadline of the attempt at the first remaining band: a slice for a
\* guess, all that is left for the last.
AttemptDeadline ==
  IF Len(bands) > 1 THEN Min2(Timeout, clock + Slice) ELSE Timeout

Width(band) == Hi(band) - Lo(band) + 1

\* quad_search finds the solution, with any index that covers the field, in
\* time.  The clock is read between stars, so a search ends at most a tick late.
SearchFinds ==
  /\ phase = "ladder" /\ InBand(image.scale, Head(bands))
  /\ \E i \in DOMAIN Indexes : image.field \in Indexes[i].tile /\ warm' = Stored(i)
  /\ clock' \in clock .. AttemptDeadline + 1
  /\ outcome' = "found"
  /\ phase' = "idle"
  /\ UNCHANGED <<image, hint, bands, searched, solves>>

\* What solve_field does when an attempt ends at time t without a solution.
NextBand(t) ==
  /\ clock' = t
  /\ bands' = Tail(bands)
  /\ IF t > Timeout \/ Len(bands) = 1
     THEN /\ phase' = "idle"
          /\ outcome' = IF t > Timeout THEN "timeout" ELSE "none"
     ELSE UNCHANGED <<phase, outcome>>
  /\ UNCHANGED <<warm, image, hint, solves>>

\* The band is exhausted.
SearchMisses ==
  /\ phase = "ladder"
  /\ searched' = searched \cup {Head(bands)}
  /\ \E e \in Efforts :
       /\ clock + e * Width(Head(bands)) <= AttemptDeadline + 1
       /\ NextBand(clock + e * Width(Head(bands)))

\* The deadline of the attempt passes first.
SearchExpires ==
  /\ phase = "ladder"
  /\ \E e \in Efforts : clock + e * Width(Head(bands)) > AttemptDeadline
  /\ UNCHANGED searched
  /\ NextBand(AttemptDeadline + 1)

LadderNext == Begin \/ WarmHit \/ BuildLadder \/ SearchFinds \/ SearchMisses \/ SearchExpires

LadderSpec == LadderInit /\ [][LadderNext]_ladderVars

-----------------------------------------------------------------------------
(* Properties.                                                              *)

\* Every variable has its type; the warm list keeps to its slots.
LadderTypeOK ==
  /\ warm \in Seq([field : Fields, shape : Shapes, scale : Scales, index : DOMAIN Indexes])
  /\ Len(warm) <= Slots
  /\ image \in Images /\ hint \in Hints \cup {<<>>}
  /\ phase \in {"idle", "warm", "ladder"}
  /\ bands \in Seq(Ranges)
  /\ clock \in Nat /\ solves \in 0 .. MaxSolves
  /\ outcome \in {"nothing", "warm", "found", "none", "timeout"}

\* No rig takes two slots, though it changes pointing and focus: of two warm
\* entries of one shape the scales differ by 10% (engine.rs, store_warm: "One
\* slot per rig").
OneSlotPerRig ==
  \A m, n \in DOMAIN warm :
    m # n => warm[m].shape # warm[n].shape \/ ~Close(warm[m].scale, warm[n].scale)

Gone(n) == \A m \in DOMAIN warm' : warm'[m] # warm[n]

\* A rig that changes pointing or focus reuses its slot instead of pushing the
\* user's other rigs out: another rig's entry goes only if all slots are taken,
\* none of them by the rig just solved, and all others were used since
\* (engine.rs, store_warm).
OtherRigsStay ==
  [][\A n \in DOMAIN warm :
       Gone(n) /\ ~SameRig(warm[n], image) =>
         /\ n = Slots
         /\ \A m \in DOMAIN warm : ~SameRig(warm[m], image)]_ladderVars

\* "No solution" means that the whole range of scales was searched to the end:
\* no guess band that ran out of its slice, and no band dropped as covered,
\* leaves a scale untried, whatever the timeout (engine.rs, solve_field).
NoSolutionIsExhaustive ==
  outcome = "none" =>
    \A s \in Scales : (\A h \in DOMAIN hint : InBand(s, hint[h])) =>
      \E b \in searched : InBand(s, b)
=============================================================================
