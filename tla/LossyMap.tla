------------------------------ MODULE LossyMap ------------------------------
(***************************************************************************)
(* What the memo of a call filter promises (interface Cache,               *)
(* internal/cache/lru.go:13-34), whatever it keeps and whatever it throws  *)
(* away: a map that may forget any entry at any moment, never alters one,  *)
(* never invents one, and never answers with an entry whose time is past.  *)
(***************************************************************************)
EXTENDS Integers

CONSTANTS Keys,     \* cache keys
          Values,   \* what is stored under them
          None,     \* "not found"
          TTL       \* how long an entry may be served

VARIABLES store,    \* the entries kept: key -> [value, until]
          clock,    \* the time
          reply     \* what the last question was answered

mapVars == <<store, clock, reply>>

(* Any part of the map may be lost together with any operation. *)
Keeping(kept) == [k \in kept |-> store[k]]

Init == store = [k \in {} |-> None] /\ clock = 0 /\ reply = None

Put(k, v) ==
  \E kept \in SUBSET (DOMAIN store \ {k}) :
     /\ store' = [x \in kept \cup {k} |->
                    IF x = k THEN [value |-> v, until |-> clock + TTL] ELSE store[x]]
     /\ reply' = None
     /\ UNCHANGED clock

Ask(k) ==
  \E kept \in SUBSET DOMAIN store :
     /\ store' = Keeping(kept)
     /\ \/ reply' = None
        \/ k \in kept /\ clock <= store[k].until /\ reply' = [key |-> k, value |-> store[k].value]
     /\ UNCHANGED clock

Forget ==
  \E kept \in SUBSET DOMAIN store :
     /\ store' = Keeping(kept)
     /\ reply' = None
     /\ UNCHANGED clock

Advance == clock' = clock + 1 /\ UNCHANGED <<store, reply>>

Next ==
  \/ \E k \in Keys : Ask(k) \/ \E v \in Values : Put(k, v)
  \/ Forget
  \/ Advance

Spec == Init /\ [][Next]_mapVars
=============================================================================
