---------------------------- MODULE CrashHandoff ----------------------------
(***************************************************************************)
(* What the shared crash context of the native backend promises, without   *)
(* saying how: a crash is claimed once, taken by the reporter once, and    *)
(* whoever claimed it and was not cut short stays until the reporter lets  *)
(* go of the crashed process.  The states are those that the comments of   *)
(* src/src/backends/native/sentry_crash_context.h (lines 120-133) name.    *)
(***************************************************************************)
VARIABLES phase,   \* "armed", "claimed", "taken", "released" or "closed"
          waiter   \* "none", "waiting", "left" (was let go) or "gone" (cut short)

vars == <<phase, waiter>>

Init == phase = "armed" /\ waiter = "none"

\* A crashing thread, or the WER module on its behalf, claims the context.
Claim == /\ phase = "armed" /\ phase' = "claimed"
         /\ waiter = "none" /\ waiter' = "waiting"

\* The reporter begins to process the claimed crash.
Take == /\ phase = "claimed" /\ phase' = "taken"
        /\ UNCHANGED waiter

\* The reporter has what it needs from the crashed process.
Release == /\ phase = "taken" /\ phase' = "released"
           /\ UNCHANGED waiter

\* The reporter has finished.
Close == /\ phase \in {"taken", "released"} /\ phase' = "closed"
         /\ UNCHANGED waiter

\* The claimant leaves because the reporter let go.
Leave == /\ waiter = "waiting" /\ waiter' = "left"
         /\ phase \in {"released", "closed"}
         /\ UNCHANGED phase

\* The claimant's wait ends early: its timeout, or the end of its process.
CutShort == /\ waiter = "waiting" /\ waiter' = "gone"
            /\ UNCHANGED phase

\* A new context for a new life of the backend.
Rearm == /\ waiter # "waiting"
         /\ phase' = "armed" /\ waiter' = "none"

Next == Claim \/ Take \/ Release \/ Close \/ Leave \/ CutShort \/ Rearm

Spec == Init /\ [][Next]_vars
=============================================================================
