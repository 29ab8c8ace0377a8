----------------------------- MODULE GuildQueue -----------------------------
(***************************************************************************)
(* The per-guild track queue of internal/music/queue.go as a value: one    *)
(* operator per method of Queue.  Every method holds q.mu from its first   *)
(* line to its return, so each operator is one atomic step of a module     *)
(* that keeps a queue in a variable.                                       *)
(***************************************************************************)
EXTENDS Naturals, SequencesExt

CONSTANTS
  Track,  \* the tracks that can be queued; every request mints its own
  None    \* the nil now-playing pointer

ASSUME NoneIsNoTrack == None \notin Track

LoopModes == {"off", "track", "queue"}

Queue == [items  : Seq(Track),
          now    : Track \cup {None},
          active : BOOLEAN,
          loop   : LoopModes]

NewQueue == [items |-> <<>>, now |-> None, active |-> FALSE, loop |-> "off"]

\* Mutant: the new track goes to the front.
Enqueue_AtFront(q, t) == [q EXCEPT !.items = <<t>> \o @]

Enqueue(q, t) == [q EXCEPT !.items = Append(@, t)]

SetActive(q, a) == [q EXCEPT !.active = a]

SetNowPlaying(q, t) == [q EXCEPT !.now = t, !.active = TRUE]

\* Mutant: the empty queue stays active.
Advance_StaysActive(q) ==
  IF q.items = <<>>
    THEN [q EXCEPT !.now = None]
    ELSE [q EXCEPT !.now = Head(q.items), !.items = Tail(q.items)]

\* Advance and Skip have the same body.  An empty queue goes inactive; a
\* queue that pops a track keeps whatever active flag it had.
Advance(q) ==
  IF q.items = <<>>
    THEN [q EXCEPT !.now = None, !.active = FALSE]
    ELSE [q EXCEPT !.now = Head(q.items), !.items = Tail(q.items)]

\* Mutant: the flag is reset whether or not a track was popped.
Skip_GoesInactive(q) == [Advance(q) EXCEPT !.active = FALSE]

Skip(q) == Advance(q)

\* Clear keeps the loop mode.
Clear(q) == [q EXCEPT !.items = <<>>, !.now = None, !.active = FALSE]

SetLoop(q, mode) == [q EXCEPT !.loop = mode]

\* The 1-based indexes that the queue edits accept; any other one is refused
\* and leaves the queue as it is.
ValidIndex(q, i) == i \in 1 .. Len(q.items)

RemoveUpcoming(q, i) ==
  IF ValidIndex(q, i) THEN [q EXCEPT !.items = RemoveAt(@, i)] ELSE q

MoveUpcomingToFront(q, i) ==
  IF ValidIndex(q, i)
    THEN [q EXCEPT !.items = <<q.items[i]>> \o RemoveAt(@, i)]
    ELSE q

\* Every outcome of rand.Shuffle on the upcoming tracks.
ShuffleUpcoming(q) ==
  LET n     == Len(q.items)
      Perms == {f \in [1 .. n -> 1 .. n] :
                  \A i, j \in 1 .. n : f[i] = f[j] => i = j}
  IN  {[q EXCEPT !.items = [i \in 1 .. n |-> q.items[f[i]]]] : f \in Perms}

=============================================================================
