---------------------------- MODULE ResendContract ----------------------------
(***************************************************************************)
(* What docs/PROTOCOL.md, "Resending", promises the requester about a      *)
(* request id, with no messages, store, faults or replies in sight: an id  *)
(* is attempted, an attempt that did nothing may be followed by another,   *)
(* and once the write has been performed, or the request has been          *)
(* finished without one, the id is used up.  Ids live independent lives; a *)
(* batch may move several of them at once.                                 *)
(***************************************************************************)
CONSTANT RequestId

VARIABLES phase,    \* where each id is in its life
          writes    \* the writes performed under each id

contractVars == <<phase, writes>>

Init ==
    /\ phase = [r \in RequestId |-> "open"]
    /\ writes = [r \in RequestId |-> {}]

Move(r, from, to) == phase[r] = from /\ phase'[r] = to

Nothing(r) == writes'[r] = writes[r]

\* An attempt is claimed before anything is done.
Begin(r) == Move(r, "open", "attempted") /\ Nothing(r)

\* The attempt did nothing and says so: the id may be used again.
GiveUp(r) == Move(r, "attempted", "open") /\ Nothing(r)

\* The one write of this id.
Perform(r) ==
    /\ Move(r, "attempted", "performed")
    /\ \E x \in writes'[r] : writes'[r] = {x}

\* A read, or a denial, was answered.
Finish(r) == Move(r, "attempted", "finished") /\ Nothing(r)

Rest(r) == phase'[r] = phase[r] /\ Nothing(r)

Next == \A r \in RequestId : Begin(r) \/ GiveUp(r) \/ Perform(r) \/ Finish(r) \/ Rest(r)

Spec == Init /\ [][Next]_contractVars
=============================================================================
