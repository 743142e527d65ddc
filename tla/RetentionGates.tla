-------------------------------- MODULE RetentionGates --------------------------------
(***************************************************************************)
(* The two checks that compare a date in a source file with the calendar:  *)
(* check_compat_retention.py and shim_ttl_check.py.                        *)
(*                                                                         *)
(* A file says whether it defines a class (and parses), whether it has the *)
(* compat-skip-retention marker in its first ten lines, and its            *)
(* COMPAT_REMOVAL_DATE and sunset date, each a day or NoDate.              *)
(***************************************************************************)
EXTENDS Integers

CONSTANTS
  Files,
  StaleDays,      \* STALE_THRESHOLD_DAYS
  DefaultWindow,  \* DEFAULT_WARN_WINDOW_DAYS
  NoDate

ASSUME RetentionAssumption == StaleDays \in Nat /\ DefaultWindow \in Nat /\ NoDate \notin Nat

\* A setting that is blank, malformed or negative stands for itself as -1.
ResolveWarnWindow(raw) == IF raw \in Nat THEN raw ELSE DefaultWindow

\* The oldest commit git shows for a file: a checkout of depth one shows the head only,
\* which then seems to add every file.
GetFileCommitDate(headDay) == headDay

Scanned(file) == file.class /\ ~file.skip

Violated(file, headDay, today) ==
  IF file.date = NoDate THEN today - GetFileCommitDate(headDay) > StaleDays
  ELSE file.date < today

WarnedFrom(file, headDay, today, window) ==   \* mutant: the last day is not warned about
  file.date # NoDate /\ file.date > today /\ file.date - today < window

Warned(file, headDay, today, window) ==
  /\ file.date # NoDate /\ ~Violated(file, headDay, today)
  /\ file.date - today <= window

Violations(repo, headDay, today) ==
  {f \in Files : Scanned(repo[f]) /\ Violated(repo[f], headDay, today)}

Warnings(repo, headDay, today, raw) ==
  {f \in Files : Scanned(repo[f]) /\ Warned(repo[f], headDay, today, ResolveWarnWindow(raw))}

RetentionClean(repo, headDay, today) == Violations(repo, headDay, today) = {}

\* shim_ttl_check.py: the sunset day itself is too late.
ShimsAlive(repo, today) == \A f \in Files : repo[f].sunset # NoDate => today < repo[f].sunset
====================================================================================
