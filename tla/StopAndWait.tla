---------------------------- MODULE StopAndWait -----------------------------
(***************************************************************************)
(* What crane control promises: while client and crane agree that there is *)
(* a session, the crane takes the actions one at a time, each one only     *)
(* after the client has seen the one before it confirmed, and the client   *)
(* counts an action as done only once it has been taken.  A session may    *)
(* end at any time, and the next one counts from nothing.                  *)
(***************************************************************************)
EXTENDS Naturals

VARIABLES
    live,         \* both sides agree that there is a session
    taken,        \* actions the crane has taken in it
    confirmed     \* actions the client knows to be taken

sessionVars == <<live, taken, confirmed>>

Idle == live = FALSE /\ taken = 0 /\ confirmed = 0

Begin   == Idle /\ live' = TRUE /\ UNCHANGED <<taken, confirmed>>
Take    == live /\ taken = confirmed /\ taken' = taken + 1 /\ UNCHANGED <<live, confirmed>>
Confirm == live /\ confirmed < taken /\ confirmed' = confirmed + 1 /\ UNCHANGED <<live, taken>>
End     == live /\ Idle'

SessionSpec == Idle /\ [][Begin \/ Take \/ Confirm \/ End]_sessionVars
=============================================================================
