--------------------------- MODULE ObservationStore ---------------------------
(***************************************************************************)
(* CaptureService: processes (the kiosk, the capture tool) that record     *)
(* observations under one root directory and may be killed anywhere.       *)
(*                                                                         *)
(*   services/observation/src/CaptureService.cpp                           *)
(*                                                                         *)
(* An observation id is its number; MaxId + 1 is "scan-overflow".  A file  *)
(* is absent ("none"), there but not complete ("part") or complete         *)
(* ("whole"); by names the capture that made the directory.                *)
(***************************************************************************)
EXTENDS Integers

CONSTANTS
  Procs,        \* processes that share the root
  MaxId,        \* last id nextObservationId() tries (9999 in the code)
  MaxCaptures,  \* bound on the captures of a behaviour
  MaxFaults     \* bound on kills, failed clean-ups and errors at close

ASSUME StoreAssumption ==
  MaxId \in Nat \ {0} /\ MaxCaptures \in Nat /\ MaxFaults \in Nat

VARIABLES
  pc,      \* where a process is in capture()
  id,      \* the observation id it uses
  num,     \* the number of its capture, in order of their begin
  result,  \* what its last capture() returned
  entry,   \* the root directory
  caps,    \* captures begun
  faults   \* faults so far

vars == <<pc, id, num, result, entry, caps, faults>>

Ids    == 1 .. MaxId + 1
File   == {"none", "part", "whole"}
Entry  == [dir : BOOLEAN, image : File, record : File, by : 0 .. MaxCaptures]
Absent == [dir |-> FALSE, image |-> "none", record |-> "none", by |-> 0]

Writing(p) == pc[p] \in {"image", "record", "text", "abort"}

TypeOK ==
  /\ pc \in [Procs -> {"idle", "scan", "check", "frame", "mkdir", "image", "record",
                   "text", "abort"}]
  /\ id \in [Procs -> Ids]
  /\ num \in [Procs -> 0 .. MaxCaptures]
  /\ result \in [Procs -> {"none", "ok", "failed"}]
  /\ entry \in [Ids -> Entry]
  /\ caps \in 0 .. MaxCaptures /\ faults \in 0 .. MaxFaults
  /\ \A i \in Ids : ~entry[i].dir => entry[i] = Absent

Init ==
  /\ pc = [p \in Procs |-> "idle"] /\ id = [p \in Procs |-> 1]
  /\ num = [p \in Procs |-> 0] /\ result = [p \in Procs |-> "none"]
  /\ entry = [i \in Ids |-> Absent]
  /\ caps = 0 /\ faults = 0

-----------------------------------------------------------------------------
Goes(p, where) == pc' = [pc EXCEPT ![p] = where] /\ UNCHANGED result
Returns(p, r)  == /\ pc' = [pc EXCEPT ![p] = "idle"]
                  /\ result' = [result EXCEPT ![p] = r]
Fault == faults < MaxFaults /\ faults' = faults + 1
Put(p, e) == entry' = [entry EXCEPT ![id[p]] = e]

\* A caller asks for the first free id, or brings one of its own (--id).
Begin(p) ==
  /\ pc[p] = "idle" /\ caps < MaxCaptures
  /\ caps' = caps + 1 /\ num' = [num EXCEPT ![p] = caps + 1]
  /\ \/ id' = [id EXCEPT ![p] = 1] /\ Goes(p, "scan")
     \/ \E i \in Ids : id' = [id EXCEPT ![p] = i] /\ Goes(p, "check")
  /\ UNCHANGED <<entry, faults>>

\* (OneMore: the scan goes one id too far.)
OneMore(n) == n <= MaxId + 1
Listed(n)  == n <= MaxId

\* nextObservationId(): one exists() per step.
TryNextId(p) ==
  /\ pc[p] = "scan"
  /\ IF Listed(id[p]) /\ entry[id[p]].dir
     THEN id' = [id EXCEPT ![p] = @ + 1] /\ Goes(p, "scan")
     ELSE UNCHANGED id /\ Goes(p, "check")
  /\ UNCHANGED <<num, entry, caps, faults>>

\* Busy for an id that is taken; InvalidArgument for a config that is not valid.
CheckConfig(p) ==
  /\ pc[p] = "check"
  /\ \/ ~entry[id[p]].dir /\ Goes(p, "frame")
     \/ Returns(p, "failed")
  /\ UNCHANGED <<id, num, entry, caps, faults>>

\* The camera, the analysis and the validation of the record: nothing is written.
AcquireFrame(p) ==
  /\ pc[p] = "frame"
  /\ Goes(p, "mkdir") \/ Returns(p, "failed")
  /\ UNCHANGED <<id, num, entry, caps, faults>>

\* create_directories() tells who made the directory.  (AnyDirectory: it only
\* has to be there.)
AnyDirectory(p) == TRUE
Created(p)      == ~entry[id[p]].dir

Made(e, n) == [dir |-> TRUE, image |-> e.image, record |-> e.record, by |-> n]

MakeDirectory(p) ==
  /\ pc[p] = "mkdir"
  /\ \/ /\ Created(p) /\ Goes(p, "image")
        /\ Put(p, Made(entry[id[p]], num[p]))
     \/ Returns(p, "failed") /\ UNCHANGED entry
  /\ UNCHANGED <<id, num, caps, faults>>

\* What a failed write does.  (KeepsDirectory: it returns the error at once.)
KeepsDirectory(p) == Returns(p, "failed")
CleansUp(p)       == Goes(p, "abort")

\* (Unchecked: the status of writeImage() is dropped.)
Unchecked(p)  == Goes(p, "record")
AfterImage(p) == CleansUp(p)

WriteImage(p) ==
  /\ pc[p] = "image"
  /\ \/ Put(p, [entry[id[p]] EXCEPT !.image = "whole"]) /\ Goes(p, "record")
     \/ /\ \E f \in {"none", "part"} : Put(p, [entry[id[p]] EXCEPT !.image = f])
        /\ AfterImage(p)
  /\ UNCHANGED <<id, num, caps, faults>>

\* The file is there as soon as it is open.
OpenRecord(p) ==
  /\ pc[p] = "record"
  /\ \/ Put(p, [entry[id[p]] EXCEPT !.record = "part"]) /\ Goes(p, "text")
     \/ CleansUp(p) /\ UNCHANGED entry
  /\ UNCHANGED <<id, num, caps, faults>>

\* The stream is tested before it is closed.  A record shorter than the stream's
\* buffer (1 KiB with libstdc++) is still in that buffer then, and an error of
\* the flush is not seen; an image is longer and its error is.
WriteRecord(p) ==
  /\ pc[p] = "text"
  /\ \/ /\ Put(p, [entry[id[p]] EXCEPT !.record = "whole"]) /\ Returns(p, "ok")
        /\ UNCHANGED faults
     \/ CleansUp(p) /\ UNCHANGED <<entry, faults>>
     \/ Returns(p, "ok") /\ Fault /\ UNCHANGED entry
  /\ UNCHANGED <<id, num, caps>>

\* remove_all(): the files one by one, in the order the directory lists them, and
\* then the directory.  It stops at the first error, which is ignored.
Unlink(e) == {[e EXCEPT !.image = "none"], [e EXCEPT !.record = "none"]} \ {e}

Abort(p) ==
  /\ pc[p] = "abort"
  /\ \/ /\ \E e \in Unlink(entry[id[p]]) : Put(p, e)
        /\ UNCHANGED <<pc, result, faults>>
     \/ /\ Unlink(entry[id[p]]) = {} /\ Put(p, Absent)
        /\ Returns(p, "failed") /\ UNCHANGED faults
     \/ Fault /\ Returns(p, "failed") /\ UNCHANGED entry
  /\ UNCHANGED <<id, num, caps>>

\* The process is killed: what it wrote or removed so far stays as it is.
Killed(p) ==
  /\ pc[p] # "idle" /\ Fault
  /\ pc' = [pc EXCEPT ![p] = "idle"] /\ result' = [result EXCEPT ![p] = "none"]
  /\ \/ UNCHANGED entry
     \/ pc[p] = "image" /\ Put(p, [entry[id[p]] EXCEPT !.image = "part"])
  /\ UNCHANGED <<id, num, caps>>

Step(p) == \/ Begin(p) \/ TryNextId(p) \/ CheckConfig(p) \/ AcquireFrame(p)
           \/ MakeDirectory(p) \/ WriteImage(p) \/ OpenRecord(p) \/ WriteRecord(p)
           \/ Abort(p) \/ Killed(p)

Next == \E p \in Procs : Step(p)

Spec == Init /\ [][Next]_vars

-----------------------------------------------------------------------------
(* Properties                                                              *)

Complete(i) == entry[i].image = "whole" /\ entry[i].record = "whole"

\* "Evidence is never overwritten": whatever other processes do with the same
\* id, a complete observation stays as it is.
NeverOverwritten == [][\A i \in Ids : Complete(i) => entry'[i] = entry[i]]_vars

\* A reader that finds a complete record finds its whole image beside it, also after
\* a kill at any point, between two files of a clean-up too, and while other captures
\* run.  (A record that is not complete is none: fromJson() refuses it.)
RecordHasImage ==
  \A i \in Ids : entry[i].record = "whole" => entry[i].image = "whole"

\* A capture that returned success left its own directory, not one another
\* process made under the same id.
SuccessIsOwn ==
  \A p \in Procs : pc[p] = "idle" /\ result[p] = "ok" =>
    entry[id[p]].by = num[p] /\ entry[id[p]].image = "whole"

\* Without a kill, a failed clean-up or an error at close, a directory nobody
\* is writing is a complete observation.
CleanWithoutFaults ==
  faults = 0 => \A i \in Ids :
    entry[i].dir => Complete(i) \/ \E p \in Procs : Writing(p) /\ id[p] = i

\* "All-or-nothing: a failed capture or write leaves NO observation directory -
\* evidence is never half-recorded."
AllOrNothing ==
  \A p \in Procs : pc[p] = "idle" /\ result[p] = "ok" => Complete(id[p])
=============================================================================
