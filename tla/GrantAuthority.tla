---------------------------- MODULE GrantAuthority ----------------------------
(***************************************************************************)
(* What the broker promises about authority, with nothing said of          *)
(* records, disks, threads or crashes: a request is asked, a guardian      *)
(* decides it at most once, and only an allow takes effect, at most once.  *)
(* Broker implements this (BrokerProofs, and the Broker runs).             *)
(***************************************************************************)
EXTENDS Naturals

CONSTANT Requests   \* the request ids

VARIABLES
  asked,    \* requests the guardian can have seen
  decided,  \* per request: "no", "allow" or "deny", whichever was accepted
  effects   \* per request: how often it has taken effect

vars == <<asked, decided, effects>>

Init ==
  /\ asked = {}
  /\ decided = [r \in Requests |-> "no"]
  /\ effects = [r \in Requests |-> 0]

Ask(r) ==
  /\ r \notin asked
  /\ asked' = asked \cup {r}
  /\ UNCHANGED <<decided, effects>>

Decide(r, d) ==
  /\ r \in asked
  /\ decided[r] = "no"
  /\ decided' = [decided EXCEPT ![r] = d]
  /\ UNCHANGED <<asked, effects>>

TakeEffect(r) ==
  /\ decided[r] = "allow"
  /\ effects[r] = 0
  /\ effects' = [effects EXCEPT ![r] = 1]
  /\ UNCHANGED <<asked, decided>>

Next ==
  \E r \in Requests :
    \/ Ask(r)
    \/ \E d \in {"allow", "deny"} : Decide(r, d)
    \/ TakeEffect(r)

Spec == Init /\ [][Next]_vars

=============================================================================
