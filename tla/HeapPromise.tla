----------------------------- MODULE HeapPromise -----------------------------
(***************************************************************************)
(* What the heap promises its callers.  They ask for a number of bytes and *)
(* are granted a stretch at least as long as that, inside the heap and     *)
(* apart from every other granted stretch, or they are refused.  A granted *)
(* stretch stays granted, where it is, until the caller returns that very  *)
(* stretch.                                                                *)
(***************************************************************************)
EXTENDS Naturals

CONSTANTS Bytes, Requests

VARIABLES
  granted,   \* set of stretches, each from its first byte up to its end
  asked,     \* the number of bytes that the call under way asked for
  returned   \* the stretch that the call under way gives back

promise == <<granted, asked, returned>>

Stretch == [from : 0 .. Bytes, upto : 0 .. Bytes]

Apart(g, h) == g.upto <= h.from \/ h.upto <= g.from

Init == granted = {} /\ asked = {} /\ returned = {}

(* One call at a time.                                                     *)
NoCall == asked = {} /\ returned = {}

Ask(n) ==
  /\ NoCall
  /\ asked' = {n}
  /\ UNCHANGED <<granted, returned>>

Grant(g) ==
  /\ \E n \in asked : g.upto >= g.from + n
  /\ g \notin granted /\ \A h \in granted : Apart(g, h)
  /\ granted' = granted \union {g}
  /\ asked' = {}
  /\ UNCHANGED returned

Refuse ==
  /\ asked' = {}
  /\ UNCHANGED <<granted, returned>>

Return(g) ==
  /\ NoCall
  /\ returned' = {g}
  /\ UNCHANGED <<granted, asked>>

Release ==
  /\ granted' = granted \ returned
  /\ returned' = {}
  /\ UNCHANGED asked

Next ==
  \/ \E n \in Requests : Ask(n)
  \/ \E g \in Stretch : Grant(g)
  \/ Refuse
  \/ \E g \in granted : Return(g)
  \/ Release

Spec == Init /\ [][Next]_promise
=============================================================================
