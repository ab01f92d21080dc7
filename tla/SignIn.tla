-------------------------------- MODULE SignIn --------------------------------
(***************************************************************************)
(* What signing in by mail promises, without tables, requests, clocks and  *)
(* cleanup jobs: a link is sent to one person, is taken by one request at  *)
(* most, and opens one session at most, which is that person's; a link     *)
(* that was taken or has lapsed never works again, and a session that has  *)
(* been closed never opens again. Accounts implements this specification.  *)
(***************************************************************************)
CONSTANTS
  People,     \* persons, told apart by their e-mail address
  Links,      \* the links that may ever be sent
  Sessions,   \* the sessions that may ever be opened
  NoPerson, NoLink

VARIABLES
  link,      \* link[t] : how far link t has come
  sentTo,    \* sentTo[t] : the person link t was sent to, or NoPerson
  session,   \* session[s] : how far session s has come
  with       \* with[s] : the link session s was opened with, or NoLink

parts == <<link, sentTo, session, with>>

\* A valid link signs its holder in, a taken one is in the hands of one request,
\* a used one has opened its session, a dead one never will.
LinkState    == {"new", "valid", "taken", "used", "dead"}
SessionState == {"none", "open", "closed"}

Init ==
  /\ link = [t \in Links |-> "new"] /\ sentTo = [t \in Links |-> NoPerson]
  /\ session = [s \in Sessions |-> "none"] /\ with = [s \in Sessions |-> NoLink]

Send(t, p) ==
  /\ link[t] = "new"
  /\ link' = [link EXCEPT ![t] = "valid"] /\ sentTo' = [sentTo EXCEPT ![t] = p]
  /\ UNCHANGED <<session, with>>

Take(t) ==
  /\ link[t] = "valid"
  /\ link' = [link EXCEPT ![t] = "taken"]
  /\ UNCHANGED <<sentTo, session, with>>

Open(t, s) ==
  /\ link[t] = "taken" /\ session[s] = "none"
  /\ link' = [link EXCEPT ![t] = "used"]
  /\ session' = [session EXCEPT ![s] = "open"] /\ with' = [with EXCEPT ![s] = t]
  /\ UNCHANGED sentTo

\* Links that were not used lapse and open sessions close, any number at once and
\* for whatever reason.
Lapse ==
  /\ link' \in [Links -> LinkState] /\ session' \in [Sessions -> SessionState]
  /\ \A t \in Links : link'[t] = link[t] \/ (link[t] \in {"valid", "taken"} /\ link'[t] = "dead")
  /\ \A s \in Sessions : session'[s] = session[s] \/ (session[s] = "open" /\ session'[s] = "closed")
  /\ UNCHANGED <<sentTo, with>>

Next ==
  \/ \E t \in Links, p \in People : Send(t, p)
  \/ \E t \in Links : Take(t)
  \/ \E t \in Links, s \in Sessions : Open(t, s)
  \/ Lapse

Spec == Init /\ [][Next]_parts
===============================================================================
