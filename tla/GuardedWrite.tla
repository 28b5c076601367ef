---------------------------- MODULE GuardedWrite ----------------------------
(***************************************************************************)
(* What every guarded mutation of the product lane promises the caller of  *)
(* one invocation, whatever the provider, the network and other writers do: *)
(* at most one mutating request leaves the process; an ordinary error means *)
(* that none did; a success is only claimed when the requested state really *)
(* was there at the provider after the attempt began; a rejection is only   *)
(* claimed when the request never took effect and never will; everything    *)
(* else is called ambiguous.  Detailed modules (MREnsure, MRMerge, ...)     *)
(* implement it.                                                            *)
(***************************************************************************)
CONSTANT Invocation

VARIABLES
  phase,    \* phase[c]: has c started, and has it attempted its write?
  effect,   \* effect[c]: what became of c's mutating request at the provider
  held,     \* held[c]: has the requested state been true at the provider since
            \* c started (and, once it attempted its write, since the attempt)?
  verdict   \* verdict[c]: what c told its caller

vars == <<phase, effect, held, verdict>>

Phase == {"idle", "preflight", "attempted"}
Effect == {"none", "inflight", "applied", "dropped"}
Verdict == {"none", "refused", "noop", "done", "rejected", "ambiguous"}

TypeOK ==
  /\ phase \in [Invocation -> Phase]
  /\ effect \in [Invocation -> Effect]
  /\ held \in [Invocation -> BOOLEAN]
  /\ verdict \in [Invocation -> Verdict]

Init ==
  /\ phase = [c \in Invocation |-> "idle"]
  /\ effect = [c \in Invocation |-> "none"]
  /\ held = [c \in Invocation |-> FALSE]
  /\ verdict = [c \in Invocation |-> "none"]

\* The requested state of any invocation may become true; having been true stays.
Observe ==
  /\ held' \in [Invocation -> BOOLEAN]
  /\ \A d \in Invocation : held[d] => held'[d]

Begin(c) ==
  /\ phase[c] = "idle"
  /\ phase' = [phase EXCEPT ![c] = "preflight"]
  /\ \E h \in BOOLEAN : held' = [held EXCEPT ![c] = h]
  /\ UNCHANGED <<effect, verdict>>

\* An error, or a no-op, decided before any write: nothing was sent.
Decline(c) ==
  /\ phase[c] = "preflight"
  /\ verdict[c] = "none"
  /\ \/ verdict' = [verdict EXCEPT ![c] = "refused"]
     \/ held[c] /\ verdict' = [verdict EXCEPT ![c] = "noop"]
  /\ UNCHANGED <<phase, effect, held>>

\* The one attempt: the request is on its way, or could not be sent and never will.
Attempt(c) ==
  /\ phase[c] = "preflight"
  /\ verdict[c] = "none"
  /\ phase' = [phase EXCEPT ![c] = "attempted"]
  /\ \E e \in {"inflight", "dropped"} : effect' = [effect EXCEPT ![c] = e]
  /\ \E h \in BOOLEAN : held' = [held EXCEPT ![c] = h]
  /\ UNCHANGED verdict

\* The provider carries the request out, or it is refused or lost for good.
\* Either may happen after c has answered, or died.
Settle(c) ==
  /\ effect[c] = "inflight"
  /\ \E e \in {"applied", "dropped"} : effect' = [effect EXCEPT ![c] = e]
  /\ Observe
  /\ UNCHANGED <<phase, verdict>>

\* Another actor changes the provider's state.
World == Observe /\ UNCHANGED <<phase, effect, verdict>>

Conclude(c) ==
  /\ phase[c] = "attempted"
  /\ verdict[c] = "none"
  /\ \/ held[c] /\ verdict' = [verdict EXCEPT ![c] = "done"]
     \/ effect[c] = "dropped" /\ verdict' = [verdict EXCEPT ![c] = "rejected"]
     \/ verdict' = [verdict EXCEPT ![c] = "ambiguous"]
  /\ UNCHANGED <<phase, effect, held>>

Next ==
  \/ World
  \/ \E c \in Invocation :
       Begin(c) \/ Decline(c) \/ Attempt(c) \/ Settle(c) \/ Conclude(c)

Spec == Init /\ [][Next]_vars

-----------------------------------------------------------------------------
\* The caller may act on a verdict without asking the provider again: a
\* declined or rejected invocation has not changed and will not change
\* anything, a success was true.
HonestVerdict ==
  \A c \in Invocation :
    /\ verdict[c] \in {"refused", "noop"} => effect[c] = "none"
    /\ verdict[c] = "rejected" => effect[c] = "dropped"
    /\ verdict[c] \in {"noop", "done"} => held[c]
=============================================================================
