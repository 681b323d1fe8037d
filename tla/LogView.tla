------------------------------- MODULE LogView -------------------------------
(***************************************************************************)
(* The Logs tab, which follows the log buffer from the UI thread (LogView  *)
(* in gui/mod.rs).  It makes several calls of the buffer per turn of the   *)
(* event loop, and lines arrive in between.                                *)
(***************************************************************************)
EXTENDS LogBuffer, SequencesExt

VARIABLES
  tab,         \* where the UI thread is: "opening" before the tab exists,
               \* "idle", or between two calls of pump or of Clear
  display,     \* the text of the tab
  seen,        \* LogView.version
  appended     \* LogView.appended

logVars == <<bufferVars, tab, display, seen, appended>>
view == <<display, seen, appended>>

LogInit ==
  /\ BufferInit
  /\ tab = "opening" /\ display = <<>> /\ seen = 0 /\ appended = 0

-----------------------------------------------------------------------------
(* The turns of the event loop.                                             *)

\* A line is logged, from any thread.
LogLine == Log /\ UNCHANGED <<tab, view>>

\* LogView::rebuild: one snapshot, taken with its version.
ShowAll ==
  /\ display' = lines
  /\ seen' = version
  /\ appended' = 0

\* LogView::new.
OpenView ==
  /\ tab = "opening"
  /\ ShowAll
  /\ tab' = "idle"
  /\ UNCHANGED bufferVars

\* pump: something is new.  Otherwise it returns and nothing changes.
PumpChecks ==
  /\ tab = "idle"
  /\ version # seen
  /\ tab' = "splice"
  /\ UNCHANGED <<bufferVars, view>>

\* Always splices what it can.
MutCanSplice == Minus(version, seen) <= Len(lines)

\* appended_since has the lines the tab lacks, and the tab is not overdue for
\* a rebuild.
CanSplice == Minus(version, seen) <= Len(lines) /\ appended < Capacity

PumpSplices ==
  /\ tab = "splice"
  /\ CanSplice
  /\ display' = display \o Newest(lines, Minus(version, seen))
  /\ appended' = appended + Minus(version, seen)
  /\ seen' = version
  /\ tab' = "idle"
  /\ UNCHANGED bufferVars

\* pump: too far behind, or enough appended; the lock is released before
\* rebuild takes its snapshot.
PumpGivesUp ==
  /\ tab = "splice"
  /\ ~CanSplice
  /\ tab' = "rebuild"
  /\ UNCHANGED <<bufferVars, view>>

\* Does not note the version of the snapshot.
MutPumpRebuilds ==
  /\ tab = "rebuild"
  /\ display' = lines
  /\ appended' = 0
  /\ tab' = "idle"
  /\ UNCHANGED <<bufferVars, seen>>

PumpRebuilds ==
  /\ tab = "rebuild"
  /\ ShowAll
  /\ tab' = "idle"
  /\ UNCHANGED bufferVars

\* Clear, first call: LogBuffer::clear.
ClearBuffer ==
  /\ tab = "idle"
  /\ Clear
  /\ tab' = "clearing"
  /\ UNCHANGED view

\* Leaves the text for the next rebuild.
MutClearDisplay ==
  /\ tab = "clearing"
  /\ tab' = "idle"
  /\ UNCHANGED <<bufferVars, view>>

\* Clear, second call: the text of the tab.
ClearDisplay ==
  /\ tab = "clearing"
  /\ display' = <<>>
  /\ tab' = "idle"
  /\ UNCHANGED <<bufferVars, seen, appended>>

\* The process ends, wherever the UI thread is, and a new one starts.
Restart ==
  /\ Reopen
  /\ tab' = "opening" /\ display' = <<>> /\ seen' = 0 /\ appended' = 0

LogNext ==
  \/ LogLine
  \/ OpenView \/ PumpChecks \/ PumpSplices \/ PumpGivesUp \/ PumpRebuilds
  \/ ClearBuffer \/ ClearDisplay
  \/ Restart

LogSpec == LogInit /\ [][LogNext]_logVars

-----------------------------------------------------------------------------
(* Properties.                                                              *)

\* Every variable has its type.
LogTypeOK ==
  /\ BufferTypeOK
  /\ display \in Seq(1 .. MaxLines)
  /\ {seen, appended} \subseteq Nat
  /\ tab \in {"opening", "idle", "splice", "rebuild", "clearing"}

Increasing(seq) == \A i \in 1 .. Len(seq) - 1 : seq[i] < seq[i + 1]

\* The tab never shows a line twice or out of order, and once it has caught
\* up it shows everything the buffer holds, though lines arrive between its
\* check of the version, the splice and the rebuild (LogView::pump).
TabFollowsBuffer ==
  /\ Increasing(display)
  /\ tab = "idle" /\ seen = version => IsSuffix(lines, display)

\* The tab's text stays within three times the buffer, however often lines
\* arrive between two pumps: a rebuild shows at most the buffer, and splices
\* stop once they have added as much again (LogView::pump).
DisplayBounded == Len(display) < 3 * Capacity

\* Clear is not undone: between turns of the event loop the tab shows none of
\* the lines it was to remove, whatever arrives while it runs.  In later runs
\* it shows none of those that a Clear has removed from the file; those of a
\* file it could not empty, or that was not written by then, do return.
ClearedStaysCleared ==
  tab = "idle" => \A i \in DOMAIN display : display[i] > cleared
=============================================================================
