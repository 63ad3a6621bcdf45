----------------------------- MODULE EventJournal -----------------------------
(***************************************************************************)
(* What the event log promises whoever reads it after the fact: a journal  *)
(* of the latest Size events, in which the oldest gives way to the newest. *)
(* A restart puts at risk the events whose place was not settled when it   *)
(* came, and only those: new events may take their places.                 *)
(***************************************************************************)
EXTENDS Naturals, FiniteSets

CONSTANT Size                   (* kRingSlots                               *)

VARIABLES
  last,                         (* how many events have been recorded       *)
  journal,                      (* those that can still be read             *)
  unsettled,                    (* those whose place is not settled         *)
  doomed                        (* those a restart put at risk              *)

vars == <<last, journal, unsettled, doomed>>

Init == last = 0 /\ journal = {} /\ unsettled = {} /\ doomed = {}

Oldest == {e \in journal : \A f \in journal : e <= f}

(* The place an event takes: that of a doomed one, or else a free one, or  *)
(* else that of the oldest.                                                *)
Gives ==
  IF doomed # {} THEN {{e} : e \in doomed}
  ELSE {IF Cardinality(journal) < Size THEN {} ELSE Oldest}

Record ==
  /\ last' = last + 1
  /\ \E gone \in Gives :
       /\ journal'   = (journal \ gone) \cup {last'}
       /\ unsettled' = (unsettled \ gone) \cup {last'}
       /\ doomed'    = doomed \ gone

Settle == unsettled' = {} /\ UNCHANGED <<last, journal, doomed>>

Restart == doomed' = doomed \cup unsettled /\ unsettled' = {} /\ UNCHANGED <<last, journal>>

Next == Record \/ Settle \/ Restart
Spec == Init /\ [][Next]_vars
==============================================================================
