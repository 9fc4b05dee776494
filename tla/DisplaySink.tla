---------------------------- MODULE DisplaySink ----------------------------
(***************************************************************************)
(* What hal::IDisplay promises its caller, whatever panel is behind it     *)
(* (IDisplay.hpp): a present that returns success has put its rows on the  *)
(* panel, and nothing presented earlier can reach the panel afterwards.  A *)
(* present that fails promises nothing about its own rows: any part of it  *)
(* may have been shown, or may still be shown until a later one succeeds.  *)
(*                                                                         *)
(* The pixels of a frame are abstracted to its number: row r of the panel  *)
(* holds the number of the present whose pixels it displays.               *)
(***************************************************************************)
EXTENDS Integers

CONSTANT Rows            \* height of the panel, in rows

VARIABLES panel,         \* panel[r]: the present whose pixels row r displays
          stamp,         \* number of presents called so far
          rows,          \* the rows the running present asked for
          result,        \* what the last call returned, or "pending"
          floor          \* the last present that returned success

vars == <<panel, stamp, rows, result, floor>>

RowSet  == 0 .. Rows - 1
Failure == {"none", "invalid", "timeout", "io"}

Init == /\ panel = [r \in RowSet |-> 0]
        /\ stamp = 0
        /\ rows = {}
        /\ result = "none"
        /\ floor = 0

\* The caller presents a region: a set of rows of the panel.
Call == /\ result # "pending"
        /\ stamp' = stamp + 1
        /\ \E R \in SUBSET RowSet : R # {} /\ rows' = R
        /\ result' = "pending"
        /\ UNCHANGED <<panel, floor>>

\* Pixels of a present not yet superseded by a successful one reach the panel.
Show == /\ \E s \in floor + 1 .. stamp, R \in SUBSET RowSet :
             /\ R # {}
             /\ \A r \in R : panel[r] <= s
             /\ panel' = [r \in RowSet |-> IF r \in R THEN s ELSE panel[r]]
        /\ UNCHANGED <<stamp, rows, result, floor>>

Succeed == /\ result = "pending"
           /\ \A r \in rows : panel[r] = stamp
           /\ result' = "ok"
           /\ floor' = stamp /\ rows' = {}
           /\ UNCHANGED <<panel, stamp>>

\* A failed or rejected call, or a process that ended in the middle of one.
Fail == /\ result' \in Failure /\ rows' = {}
        /\ UNCHANGED <<panel, stamp, floor>>

Next == Call \/ Show \/ Succeed \/ Fail

Spec == Init /\ [][Next]_vars
=============================================================================
