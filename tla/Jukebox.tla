------------------------------ MODULE Jukebox ------------------------------
(***************************************************************************)
(* What a guild's queue promises while nobody reorders it, whatever runs   *)
(* at once: tracks join the line at its end, become current from its head, *)
(* and no track is ever in the line or current a second time.              *)
(*                                                                         *)
(* fresh holds the tracks that may still join.  Nothing enters it, so a    *)
(* track that was played, removed or dropped never comes back.             *)
(***************************************************************************)
EXTENDS Sequences, Naturals

CONSTANTS Track, None

VARIABLES
  fresh,    \* the tracks that have neither joined nor been given up
  line,     \* the tracks that wait
  current   \* the track that is played, or None

Init ==
  /\ fresh \subseteq Track
  /\ line = <<>>
  /\ current = None

\* A requested track is put at the end of the line.
Join ==
  \E t \in fresh :
    /\ fresh' = fresh \ {t}
    /\ line' = Append(line, t)
    /\ UNCHANGED current

\* A requested track is played at once, whatever was played before.
Start ==
  \E t \in fresh :
    /\ fresh' = fresh \ {t}
    /\ current' = t
    /\ UNCHANGED line

\* The current track ends or is skipped.
Advance ==
  /\ IF line = <<>>
       THEN current' = None /\ UNCHANGED line
       ELSE current' = Head(line) /\ line' = Tail(line)
  /\ UNCHANGED fresh

\* A user takes the i-th track out.
Leave ==
  \E i \in 1 .. Len(line) :
    /\ line' = [j \in 1 .. Len(line) - 1 |-> line[IF j < i THEN j ELSE j + 1]]
    /\ UNCHANGED <<fresh, current>>

Empty ==
  /\ line' = <<>>
  /\ current' = None
  /\ UNCHANGED fresh

\* Requests that fail, or are shorter than they might be.
Discard ==
  /\ fresh' \subseteq fresh
  /\ UNCHANGED <<line, current>>

Next == Join \/ Start \/ Advance \/ Leave \/ Empty \/ Discard

Spec == Init /\ [][Next]_<<fresh, line, current>>

=============================================================================
