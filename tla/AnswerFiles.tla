----------------------------- MODULE AnswerFiles -----------------------------
(***************************************************************************)
(* The output files of /api/v1/solve: the artifact cache of store.rs, the  *)
(* part of the v1 handler that fills it once a job is solved, and the GETs *)
(* for the URLs an answer advertises.  Each cache operation holds the      *)
(* artifacts lock; handlers of different jobs run on different threads and *)
(* interleave between them, but have no await point to be cut short at.    *)
(***************************************************************************)
EXTENDS Naturals, Sequences, FiniteSetsExt, Lists

CONSTANTS
  Jobs,      \* the solved jobs whose handlers are about to write their files
  Want,      \* Want[j]: the outputs the form of job j asked for
  Sizes,     \* Sizes[k]: the sizes a file of kind k can have
  Budget     \* ARTIFACT_BUDGET

Kinds == {"fits", "skyview", "preview"}

ASSUME FilesAssumption ==
  /\ Want \in [Jobs -> SUBSET Kinds]
  /\ Sizes \in [Kinds -> SUBSET (Nat \ {0})]
  /\ Budget \in Nat \ {0}

VARIABLES
  items,       \* Artifacts.items, oldest first; Artifacts.bytes is Weight(items)
  stage,       \* stage[j]: the output the handler of j is at
  advertised,  \* advertised[j]: the outputs its answer carries a URL for
  puts,        \* every artifact ever stored, in order
  fetched      \* fetched[j]: what the client of j got, by output

filesVars == <<items, stage, advertised, puts, fetched>>

Artifact == [job : Jobs, kind : Kinds, size : UNION {Sizes[k] : k \in Kinds}]

FilesInit ==
  /\ items = <<>>
  /\ stage = [j \in Jobs |-> "fits"]
  /\ advertised = [j \in Jobs |-> {}]
  /\ puts = <<>>
  /\ fetched = [j \in Jobs |-> [k \in {} |-> "served"]]

\* The bytes of the first n files of a list, by n.
Sums(seq) == RunningSum([n \in DOMAIN seq |-> seq[n].size], Len(seq))

\* The bytes of a list of files.  put_artifact sums its items anew on every
\* call before it looks at the total, so the stored sum is not state of its own.
Weight(seq) == Sums(seq)[Len(seq)]

\* Stops evicting only once the cache is below its budget.
MutEvictAtBudget(seq) ==
  LET fits == {n \in 1 .. Len(seq) : Weight(SubSeq(seq, n, Len(seq))) < Budget}
  IN SubSeq(seq, IF fits = {} THEN Len(seq) ELSE Min(fits), Len(seq))

\* Drops one file at most.
MutEvictOne(seq) ==
  IF Len(seq) > 1 /\ Weight(seq) > Budget THEN Tail(seq) ELSE seq

\* put_artifact's loop: the oldest files go until the rest fits the budget or
\* only the newest is left.
Evict(seq) ==
  LET fits == {n \in 1 .. Len(seq) : Weight(SubSeq(seq, n, Len(seq))) <= Budget}
  IN SubSeq(seq, IF fits = {} THEN Len(seq) ELSE Min(fits), Len(seq))

\* Store::put_artifact: a file of the same job and kind is replaced.
Put(art) ==
  LET others == {n \in DOMAIN items : ~(items[n].job = art.job /\ items[n].kind = art.kind)}
      kept == Evict(Append(Retain(items, others), art))
  IN /\ items' = kept
     /\ puts' = Append(puts, art)

\* Store::artifact.
Stored(j, k) == \E i \in DOMAIN items : items[i].job = j /\ items[i].kind = k

\* The order in which the handler makes its outputs.
NextStage(k) ==
  CASE k = "fits" -> "skyview" [] k = "skyview" -> "preview" [] k = "preview" -> "answered"

\* The handler skips an output the form did not ask for.
Skip(j) ==
  /\ stage[j] \in Kinds \ Want[j]
  /\ stage' = [stage EXCEPT ![j] = NextStage(@)]
  /\ UNCHANGED <<items, advertised, puts, fetched>>

\* A preview that fails is as fatal as a FITS.
MutFailFatally(j) ==
  /\ stage[j] \in Want[j] \ {"skyview"}
  /\ stage' = [stage EXCEPT ![j] = "failed"]
  /\ UNCHANGED <<items, advertised, puts, fetched>>

\* An output that cannot be made: a failing FITS turns the whole answer into an
\* error with no URL in it, a failing preview is left out, a chart cannot fail.
Fail(j) ==
  /\ stage[j] \in Want[j] \ {"skyview"}
  /\ stage' = [stage EXCEPT ![j] = IF @ = "fits" THEN "failed" ELSE NextStage(@)]
  /\ UNCHANGED <<items, advertised, puts, fetched>>

\* store_fits, skyview, store_preview: store the file, put its URL in the body.
Store(j) ==
  /\ stage[j] \in Want[j]
  /\ \E size \in Sizes[stage[j]] : Put([job |-> j, kind |-> stage[j], size |-> size])
  /\ advertised' = [advertised EXCEPT ![j] = @ \cup {stage[j]}]
  /\ stage' = [stage EXCEPT ![j] = NextStage(@)]
  /\ UNCHANGED fetched

\* GET /api/v1/jobs/{id}/...: artifact_response, once the client has the answer.
Fetch(j) ==
  /\ stage[j] = "answered"
  /\ \E k \in advertised[j] \ DOMAIN fetched[j] :
       fetched' = [fetched EXCEPT ![j] =
         [x \in DOMAIN @ \cup {k} |->
            IF x # k THEN @[x] ELSE IF Stored(j, k) THEN "served" ELSE "404"]]
  /\ UNCHANGED <<items, stage, advertised, puts>>

FilesNext == \E j \in Jobs : Skip(j) \/ Fail(j) \/ Store(j) \/ Fetch(j)

FilesSpec == FilesInit /\ [][FilesNext]_filesVars

-----------------------------------------------------------------------------
(* Properties.                                                              *)

\* Every variable has its type; an answer advertises only what was asked for.
FilesTypeOK ==
  /\ items \in Seq(Artifact)
  /\ stage \in [Jobs -> Kinds \cup {"answered", "failed"}]
  /\ \A j \in Jobs : advertised[j] \subseteq Want[j]
  /\ puts \in Seq(Artifact)
  /\ \A j \in Jobs : DOMAIN fetched[j] \subseteq advertised[j]

\* The cache is within its budget, or holds the one file that alone exceeds it;
\* and it always holds the file just stored (store.rs, put_artifact: "must not
\* evict itself").
WithinBudget ==
  /\ Weight(items) <= Budget \/ Len(items) = 1
  /\ puts # <<>> => items # <<>> /\ items[Len(items)] = puts[Len(puts)]

\* What was stored from the file of job j and kind k on, that file included.
Since(j, k) ==
  LET from == {i \in DOMAIN puts : puts[i].job = j /\ puts[i].kind = k}
  IN SubSeq(puts, Max(from), Len(puts))

\* A client that is refused a file its answer advertised lost it to pressure:
\* the files stored since exceed the whole budget together with it.  Nothing
\* is evicted early, out of order, or without ever having been stored.
RefusedOnlyUnderPressure ==
  \A j \in Jobs : \A k \in DOMAIN fetched[j] :
    fetched[j][k] = "404" =>
      /\ \E i \in DOMAIN puts : puts[i].job = j /\ puts[i].kind = k
      /\ Weight(Since(j, k)) > Budget

\* A solve whose answer turns into an error because its FITS cannot be written
\* has left no file in the cache that no URL leads to (v1.rs, solve: the FITS
\* comes first and is the only output whose failure is an error).
FailedAnswerLeavesNoFile ==
  \A j \in Jobs : stage[j] = "failed" =>
    \A i \in DOMAIN puts : puts[i].job # j
=============================================================================
