------------------------------ MODULE PowerService ------------------------------
(***************************************************************************)
(* What the controller promises the host about operations, abstractly: one *)
(* operation at a time, each run once, the latest results of this boot     *)
(* remembered, and a lookup or a repeated id answered only by a remembered *)
(* result of that id.  OperationGate implements it.                        *)
(***************************************************************************)
EXTENDS Naturals, Sequences

CONSTANTS
  Requests,    \* records with fields command, id and physical
  Outcomes,    \* terminal results
  Remembered,  \* how many results are kept
  None         \* no request

VARIABLES
  owner,    \* the operation that owns the controller, or None
  results,  \* the results of this boot, oldest first
  answer    \* <<request, result>> last answered from memory, or <<>>

svars == <<owner, results, answer>>

SInit == owner = None /\ results = <<>> /\ answer = <<>>

Latest == {results[i] : i \in {j \in DOMAIN results : j + Remembered > Len(results)}}

AnswersTo(r, e) ==
  /\ e.request.id = r.id
  /\ r.command # "result" => /\ r.command = e.request.command
                             /\ r.command = "on" => r.physical = e.request.physical

Accept(r) ==
  /\ owner = None
  /\ owner' = r
  /\ UNCHANGED <<results, answer>>

Finish(o) ==
  /\ owner # None
  /\ results' = Append(results, [request |-> owner, outcome |-> o])
  /\ owner' = None
  /\ UNCHANGED answer

Recall(r, e) ==
  /\ e \in Latest /\ AnswersTo(r, e)
  /\ answer' = <<r, e>>
  /\ UNCHANGED <<owner, results>>

OtherReply == answer' = <<>> /\ UNCHANGED <<owner, results>>

Reboot == owner' = None /\ results' = <<>> /\ answer' = <<>>

SNext ==
  \/ \E r \in Requests : Accept(r) \/ \E e \in Latest : Recall(r, e)
  \/ \E o \in Outcomes : Finish(o)
  \/ OtherReply \/ Reboot

SSpec == SInit /\ [][SNext]_svars
================================================================================
